----------------------------- MODULE LogGeometry -----------------------------
(***************************************************************************)
(* Pure arithmetic of the log index (radixlog.h, radixlog.c) and of the    *)
(* interval logic of the engine (mmio.c): granule sizes, slot indices,     *)
(* the granule-size choice set_log_size, the six-case classification       *)
(* check_log, the span a write leaves in a record, and the splice of a     *)
(* REDO read.  The byte geometry is scaled: PageShift stands for           *)
(* PAGE_SHIFT (12) and LmdShift for LMD_SHIFT (21); the code's catalogue   *)
(* LOG_4K .. LOG_2M is 0 .. NrLogSizes - 1.                                *)
(***************************************************************************)
EXTENDS Integers, Sequences

CONSTANTS PageShift, LmdShift

ASSUME PageShift \in Nat /\ LmdShift \in Nat /\ PageShift <= LmdShift

\* enum log_size_enum: LOG_4K .. LOG_2M, and NR_LOG_SIZES as "unset"
NrLogSizes == LmdShift - PageShift + 1
LogSizes   == 0 .. NrLogSizes - 1

\* LOG_SHIFT(s), LOG_SIZE(s), NR_ENTRIES(s), TABLE_INDEX, LOG_OFFSET
LogShift(s)      == LmdShift - ((LmdShift - PageShift) - s)
LogSize(s)       == 2 ^ LogShift(s)
NrEntries(s)     == 2 ^ (LmdShift - LogShift(s))
TableIndex(s, o) == (o \div LogSize(s)) % NrEntries(s)
LogOffset(a, s)  == a % LogSize(s)
\* LOG_MASK applied to an address: the base of its granule
LogBase(a, s)    == a - LogOffset(a, s)
TableSpan        == 2 ^ LmdShift

(***************************************************************************)
(* set_log_size: add the offset inside the first page to the length, then *)
(* halve the page count until it is zero or the largest size is reached.  *)
(***************************************************************************)
RECURSIVE GrowLogSize(_, _)
GrowLogSize(len, s) ==
    IF len # 0 /\ s < NrLogSizes - 1 THEN GrowLogSize(len \div 2, s + 1) ELSE s

\* Mutation: the length is not reduced by one before the shift.
set_log_size_no_dec(offset, len) ==
    GrowLogSize((len + LogOffset(offset, 0)) \div 2 ^ LogShift(0), 0)

set_log_size(offset, len) ==
    GrowLogSize((len + LogOffset(offset, 0) - 1) \div 2 ^ LogShift(0), 0)

(***************************************************************************)
(* check_log(req_start, req_end, log_start, log_end)                      *)
(***************************************************************************)
\* Mutation: a request ending exactly at log_start is taken as disjoint.
check_log_strict(rs, re, ls, le) ==
    IF rs <= ls
    THEN IF re > ls THEN (IF re < le THEN 2 ELSE 3) ELSE 1
    ELSE IF re <= le THEN 4 ELSE (IF le < rs THEN 6 ELSE 5)

check_log(rs, re, ls, le) ==
    IF rs <= ls
    THEN IF re >= ls THEN (IF re < le THEN 2 ELSE 3) ELSE 1
    ELSE IF re <= le THEN 4 ELSE (IF le < rs THEN 6 ELSE 5)

(***************************************************************************)
(* The span <<offset, len>> a record holds after mmio_write logged n bytes *)
(* at log offset lo into a granule of g bytes whose record held <<eo, el>>.*)
(* The merge branch runs only when the record held data and the write did *)
(* not cover the whole granule; otherwise the new span replaces the old.  *)
(***************************************************************************)
\* Mutation: case 2 keeps only the new bytes, as case 3 does.
MergeSpanCase2Short(eo, el, lo, n, g) ==
    IF el > 0 /\ n # g
    THEN CASE check_log(lo, lo + n, eo, eo + el) = 1 -> <<lo, eo + el - lo>>
           [] check_log(lo, lo + n, eo, eo + el) = 2 -> <<lo, n>>
           [] check_log(lo, lo + n, eo, eo + el) = 3 -> <<lo, n>>
           [] check_log(lo, lo + n, eo, eo + el) = 4 -> <<eo, el>>
           [] check_log(lo, lo + n, eo, eo + el) = 5 -> <<eo, lo + n - eo>>
           [] check_log(lo, lo + n, eo, eo + el) = 6 -> <<eo, lo + n - eo>>
    ELSE <<lo, n>>

MergeSpan(eo, el, lo, n, g) ==
    IF el > 0 /\ n # g
    THEN CASE check_log(lo, lo + n, eo, eo + el) = 1 -> <<lo, eo + el - lo>>
           [] check_log(lo, lo + n, eo, eo + el) = 2 -> <<lo, eo + el - lo>>
           [] check_log(lo, lo + n, eo, eo + el) = 3 -> <<lo, n>>
           [] check_log(lo, lo + n, eo, eo + el) = 4 -> <<eo, el>>
           [] check_log(lo, lo + n, eo, eo + el) = 5 -> <<eo, lo + n - eo>>
           [] check_log(lo, lo + n, eo, eo + el) = 6 -> <<eo, lo + n - eo>>
    ELSE <<lo, n>>

\* The gap a merge backfills from the image (cases 1 and 6), as <<from, count>>
\* in log offsets; <<0, 0>> when nothing is backfilled.
MergeGap(eo, el, lo, n, g) ==
    IF el > 0 /\ n # g
    THEN CASE check_log(lo, lo + n, eo, eo + el) = 1 -> <<lo + n, eo - (lo + n)>>
           [] check_log(lo, lo + n, eo, eo + el) = 6 -> <<eo + el, lo - (eo + el)>>
           [] OTHER -> <<0, 0>>
    ELSE <<0, 0>>

(***************************************************************************)
(* The copies read_redolog makes for one record: a sequence of pieces     *)
(* [from |-> "img" or "log", at |-> source address, n |-> count].  The    *)
(* request is n bytes at file address off, log offset lo; the record logs *)
(* [ls, le).  Addresses into the image are file offsets, into the log are *)
(* log offsets.  In case 3 the third copy starts at                       *)
(* (file_addr + offset) + (log_end - req_start) after offset has already  *)
(* advanced past the first two copies.                                    *)
(***************************************************************************)
Piece(f, a, n) == [from |-> f, at |-> a, n |-> n]

RedoPieces(off, lo, n, ls, le) ==
    LET rs == lo
        re == lo + n
    IN CASE check_log(rs, re, ls, le) = 1 -> <<Piece("img", off, n)>>
         [] check_log(rs, re, ls, le) = 2 ->
              <<Piece("img", off, ls - rs), Piece("log", ls, re - ls)>>
         [] check_log(rs, re, ls, le) = 3 ->
              <<Piece("img", off, ls - rs), Piece("log", ls, le - ls),
                Piece("img", (off + (ls - rs) + (le - ls)) + (le - rs), re - le)>>
         [] check_log(rs, re, ls, le) = 4 -> <<Piece("log", rs, re - rs)>>
         [] check_log(rs, re, ls, le) = 5 ->
              <<Piece("log", rs, le - rs), Piece("img", off + (le - rs), re - le)>>
         [] check_log(rs, re, ls, le) = 6 -> <<Piece("img", off, re - rs)>>

\* The per-byte sources the pieces stand for, in request order.
RECURSIVE PieceBytes(_)
PieceBytes(ps) ==
    IF ps = <<>> THEN <<>>
    ELSE [k \in 1 .. Head(ps).n |-> <<Head(ps).from, Head(ps).at + k - 1>>]
         \o PieceBytes(Tail(ps))
=============================================================================
