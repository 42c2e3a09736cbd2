---------------------------- MODULE MCLogGeometry ----------------------------
(***************************************************************************)
(* Checks the operators of LogGeometry against reference definitions over *)
(* every input of a small geometry.  Each initial state is one input; the *)
(* specification never leaves it.                                          *)
(***************************************************************************)
EXTENDS LogGeometry, FiniteSets

VARIABLE in

\* Inputs of set_log_size: an offset in the table and a remaining length.
SizeInputs == [kind : {"size"}, off : 0 .. TableSpan - 1, len : 1 .. 2 * TableSpan]

\* Inputs of the interval logic: a granule size, the record's span [eo, eo+el)
\* and the request [lo, lo+n), both inside the granule.
SpanInputs ==
    { i \in [kind : {"span"}, s : LogSizes, eo : 0 .. TableSpan - 1, el : 0 .. TableSpan,
              lo : 0 .. TableSpan - 1, n : 1 .. TableSpan] :
        i.eo + i.el <= LogSize(i.s) /\ i.lo + i.n <= LogSize(i.s) }

Inputs == SizeInputs \cup SpanInputs

Init == in \in Inputs
Next == UNCHANGED in
Spec == Init /\ [][Next]_in

TypeOK == in \in Inputs

Ivl(a, n) == a .. a + n - 1

(***************************************************************************)
(* set_log_size returns the smallest granule whose size covers the length *)
(* measured from the start of the first page, or the largest granule.     *)
(***************************************************************************)
SetLogSizeMinimal ==
    in.kind = "size" =>
        LET fits == { s \in LogSizes : LogOffset(in.off, 0) + in.len <= LogSize(s) }
        IN set_log_size(in.off, in.len) =
             IF fits = {} THEN NrLogSizes - 1
             ELSE CHOOSE s \in fits : \A t \in fits : s <= t

(***************************************************************************)
(* check_log agrees with the six-case table of the spec (4.3) for a       *)
(* non-empty request and a non-empty logged span.                         *)
(***************************************************************************)
SpecCase(rs, re, ls, le) ==
    CASE re < ls                              -> 1
      [] rs <= ls /\ ls <= re /\ re < le      -> 2
      [] rs <= ls /\ re >= le                 -> 3
      [] ls < rs /\ re <= le                  -> 4
      [] ls < rs /\ rs <= le /\ le < re       -> 5
      [] le < rs                              -> 6

CheckLogMatchesTable ==
    (in.kind = "span" /\ in.el > 0) =>
        check_log(in.lo, in.lo + in.n, in.eo, in.eo + in.el)
          = SpecCase(in.lo, in.lo + in.n, in.eo, in.eo + in.el)

(***************************************************************************)
(* After a write the record's span is exactly the union of the old span,  *)
(* the new bytes and the backfilled gap, and the gap overlaps neither.    *)
(***************************************************************************)
MergeIsHull ==
    in.kind = "span" =>
        LET sp  == MergeSpan(in.eo, in.el, in.lo, in.n, LogSize(in.s))
            gp  == MergeGap(in.eo, in.el, in.lo, in.n, LogSize(in.s))
            old == Ivl(in.eo, in.el)
            new == Ivl(in.lo, in.n)
            gap == Ivl(gp[1], gp[2])
        IN /\ Ivl(sp[1], sp[2]) = old \cup new \cup gap
           /\ gap \cap (old \cup new) = {}
           /\ sp[1] + sp[2] <= LogSize(in.s)

(***************************************************************************)
(* A REDO read of a granule takes every byte inside the logged span from  *)
(* the log and every other byte from the image at its own address.        *)
(***************************************************************************)
RedoSpliceIsExact ==
    (in.kind = "span" /\ in.el > 0) =>
        PieceBytes(RedoPieces(in.lo, in.lo, in.n, in.eo, in.eo + in.el))
          = [k \in 1 .. in.n |->
               IF in.lo + k - 1 \in Ivl(in.eo, in.el)
               THEN <<"log", in.lo + k - 1>> ELSE <<"img", in.lo + k - 1>>]
=============================================================================
