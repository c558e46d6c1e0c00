------------------------------- MODULE BPrint -------------------------------
(***************************************************************************)
(* libavutil/bprint.c: AVBPrint, a string that grows as it is printed to,  *)
(* up to size_max.  len counts what has been printed, beyond what fits; 0  *)
(* ends the string.  What the callers print is numbered, so that the n-th  *)
(* letter is known by its place.                                           *)
(***************************************************************************)
EXTENDS Integers, Sequences

CONSTANTS UIntMax,     \* UINT_MAX
          AllocMax,    \* the most that av_realloc allocates, max_alloc_size - 32
          SizeAuto,    \* bytes of reserved_internal_buffer
          SizesMax, MaxPrint,  \* bounds: values of size_max, letters of a call
          NoBuf

\* Buffers of UINT_MAX bytes are never made: av_realloc refuses them.
ASSUME SizesAssumption == /\ UIntMax \in Nat /\ AllocMax \in Nat /\ SizeAuto \in Nat /\ MaxPrint \in Nat
                          /\ 0 < SizeAuto /\ SizeAuto <= AllocMax /\ AllocMax < UIntMax - 5
                          /\ SizesMax \subseteq 0 .. UIntMax

VARIABLES buf,
          said    \* how many letters were printed, as far as UINT_MAX

bpVars == <<buf, said>>

BPrintInit == buf = NoBuf /\ said = 0

Least(a, b) == IF a < b THEN a ELSE b

\* av_bprint_room and av_bprint_is_complete.
Room(b) == b.size - Least(b.len, b.size)
IsComplete(b) == b.len < b.size

\* Variant for mutation: without the test of line 43.
AllocAnyway(b, room, fails) ==
    LET least == b.len + 1 + Least(UIntMax - b.len - 1, room)
        twice == IF b.size > b.size_max \div 2 THEN b.size_max ELSE b.size * 2
        size  == IF twice < least THEN Least(b.size_max, least) ELSE twice
    IN  IF b.size = b.size_max \/ fails \/ size > AllocMax THEN [b |-> b, ok |-> FALSE]
        ELSE [b |-> [b EXCEPT !.size = size, !.allocated = TRUE,
                              !.str = @ \o [i \in 1 .. size - b.size |-> 0]], ok |-> TRUE]

\* av_bprint_alloc.  New bytes are written as 0; nothing reads them before they
\* are printed to.
Alloc(b, room, fails) ==
    LET least == b.len + 1 + Least(UIntMax - b.len - 1, room)
        twice == IF b.size > b.size_max \div 2 THEN b.size_max ELSE b.size * 2
        size  == IF twice < least THEN Least(b.size_max, least) ELSE twice
    IN  IF b.size = b.size_max \/ ~IsComplete(b) \/ fails \/ size > AllocMax
        THEN [b |-> b, ok |-> FALSE]
        ELSE [b |-> [b EXCEPT !.size = size, !.allocated = TRUE,
                              !.str = @ \o [i \in 1 .. size - b.size |-> 0]], ok |-> TRUE]

\* av_bprint_grow.
Grow(b, extra) ==
    LET len == b.len + Least(extra, UIntMax - 5 - b.len)
    IN  [b EXCEPT !.len = len,
                  !.str = IF b.size = 0 THEN @ ELSE [@ EXCEPT ![Least(len, b.size - 1) + 1] = 0]]

\* One turn of the loops that look whether n letters fit, and ask for more room.
Wider(b, n, asked, fails) ==
    LET a == Alloc(b, asked, fails) IN IF n < Room(b) \/ ~a.ok THEN b ELSE a.b

\* The buffer when n letters have been given their room, or as much as there is:
\* a turn that changes the buffer makes it larger, so size_max turns are enough.
Roomy(b, n, fails) ==
    LET turn[k \in 0 .. b.size_max] == IF k = 0 THEN b ELSE Wider(turn[k - 1], n, n, fails)
    IN  turn[b.size_max]

Letter(n) == 1 + (n % 3)

\* n letters written where the string ends, as far as there is room.
Put(b, n) ==
    [b EXCEPT !.str = [i \in DOMAIN @ |->
        IF i - b.len \in 1 .. Least(n, Room(b) - 1) THEN Letter(said + i - b.len) ELSE @[i]]]

Printed(b, n) ==
    /\ buf' = Grow(Put(b, n), n)
    /\ said' = Least(said + n, UIntMax)
-----------------------------------------------------------------------------
\* av_bprint_init; 1 stands for the automatic size.
New(size, size_max) ==
    [size |-> size, size_max |-> size_max, len |-> 0, allocated |-> FALSE,
     str |-> [i \in 1 .. size |-> 0], live |-> TRUE]

PrintInit(size_init, asked, fails) ==
    /\ buf = NoBuf /\ said' = 0
    /\ LET size_max == IF asked = 1 THEN SizeAuto ELSE asked
           b == New(Least(SizeAuto, size_max), size_max)
       IN  buf' = IF size_init > b.size THEN Alloc(b, size_init - 1, fails).b ELSE b

\* av_bprint_init_for_buffer; it writes to the buffer, which must have a byte.  In
\* a buffer of nearly UINT_MAX bytes the limit of len would hide a truncation:
\* callers are taken to have buffers that could have been allocated.
InitForBuffer(size) ==
    /\ buf = NoBuf /\ size \in 1 .. AllocMax /\ said' = 0 /\ buf' = New(size, size)

Live == buf # NoBuf /\ buf.live

\* av_bprint_append_data and av_bprint_chars, which are given their letters.
AppendData(n, fails) == Live /\ Printed(Roomy(buf, n, fails), n)

\* av_bprintf, which is told by vsnprintf how much there is to print.
PrintF(n, fails) == n > 0 /\ AppendData(n, fails)

\* av_bprint_strftime, to whom strftime says only that n letters do not fit.
WiderFor(b, n, fmt, fails) ==
    Wider(b, n, IF Room(b) = 0 THEN fmt + 1 ELSE Room(b) * 2, fails)

Strftimed(b, n, fmt, fails) ==
    LET turn[k \in 0 .. b.size_max] == IF k = 0 THEN b ELSE WiderFor(turn[k - 1], n, fmt, fails)
    IN  turn[b.size_max]

\* A date is taken to fit the local buffer of line 198, from which it is printed
\* when the buffer cannot grow.
PrintDate(n, fmt, fails) ==
    /\ Live /\ fmt > 0 /\ n > 0
    /\ LET b == Strftimed(buf, n, fmt, fails)
       IN  Printed(IF n < Room(b) THEN b ELSE Roomy(b, n, fails), n)

\* av_bprint_get_buffer; what is then done with the memory is the caller's.
GetBuffer(size, fails) ==
    /\ Live /\ UNCHANGED said
    /\ buf' = IF size > Room(buf) THEN Alloc(buf, size, fails).b ELSE buf

Clear ==
    /\ Live /\ said' = 0
    /\ buf' = [buf EXCEPT !.len = 0,
                          !.str = IF buf.len = 0 \/ buf.size = 0 THEN @ ELSE [@ EXCEPT ![1] = 0]]

\* av_bprint_finalize; the string goes to the caller, unless it cannot be
\* allocated.  What is left of the buffer is its len and size.
Finalize(wanted, fails) ==
    /\ Live /\ UNCHANGED said
    /\ LET size  == Least(buf.len + 1, buf.size)
           given == wanted /\ (buf.allocated \/ ~fails)
       IN  buf' = [buf EXCEPT !.live = FALSE, !.size = size,
                              !.str = IF given THEN SubSeq(@, 1, size) ELSE <<>>]

BPrintNext ==
    \/ \E size_init \in 0 .. SizeAuto + 2, size_max \in SizesMax, fails \in BOOLEAN :
          PrintInit(size_init, size_max, fails)
    \/ \E size \in SizesMax : InitForBuffer(size)
    \/ \E n \in 0 .. MaxPrint, fails \in BOOLEAN :
          \/ AppendData(n, fails) \/ PrintF(n, fails) \/ GetBuffer(n, fails)
          \/ \E fmt \in {1, 2} : PrintDate(n, fmt, fails)
    \/ Clear
    \/ \E wanted, fails \in BOOLEAN : Finalize(wanted, fails)

BPrintSpec == BPrintInit /\ [][BPrintNext]_bpVars
-----------------------------------------------------------------------------
(***************************************************************************)
(* Properties                                                              *)
(***************************************************************************)
\* Whatever failed before, the string is what was printed first, as much of it as
\* fits, and it ends there; len counts all of it, but for the last five numbers;
\* and a buffer that says it is complete holds everything.
TextIsWhole ==
    buf # NoBuf =>
        LET ends == Least(buf.len, buf.size - 1) IN
        /\ buf.len = Least(said, UIntMax - 5)
        /\ buf.live => Len(buf.str) = buf.size
        /\ buf.size <= buf.size_max
        /\ buf.str # <<>> =>
              /\ buf.str[ends + 1] = 0
              /\ \A i \in 1 .. ends : buf.str[i] = Letter(i)
        /\ IsComplete(buf) => ends = said
=============================================================================
