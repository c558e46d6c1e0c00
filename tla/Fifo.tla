-------------------------------- MODULE Fifo --------------------------------
(***************************************************************************)
(* libavutil/fifo.c: the circular buffer AVFifoBuffer, as operators on a   *)
(* record.  rptr and wptr are offsets from f->buffer, end is its length,   *)
(* rndx and wndx count what was read and written modulo 2^32 and "are      *)
(* intended to overflow" (lines 158 to 160).  A unit of data is a byte of  *)
(* the code, or an element when a client only moves whole elements.        *)
(*                                                                         *)
(* The copying loops take a chunk up to the end of the buffer and go on at *)
(* its start.  A caller that respects the size and space of the fifo needs *)
(* at most two chunks, the two that the operators below spell out.         *)
(***************************************************************************)
EXTENDS Integers, Sequences

CONSTANTS IndexModulus,   \* 2^32 in the code: rndx and wndx are uint32_t
          Garbage         \* what malloc leaves in the buffer

ASSUME FifoAssumption == IndexModulus \in Nat \ {0}

Smaller(a, b) == IF a < b THEN a ELSE b

\* av_fifo_alloc, the allocation having succeeded, with its av_fifo_reset.
Alloc(size) == [buffer |-> [k \in 0 .. (size - 1) |-> Garbage],
                end    |-> size,
                rptr   |-> 0, wptr |-> 0, rndx |-> 0, wndx |-> 0]

Size(f)  == (f.wndx - f.rndx) % IndexModulus
Space(f) == f.end - Size(f)

\* Variant for mutation: the write pointer is not brought back to the start
\* when it reaches the end of the buffer exactly.
WriteNoWrap(f, src) ==
    LET first == Smaller(f.end - f.wptr, Len(src))
        rest  == Len(src) - first
        moved == f.wptr + first
    IN  [buffer |-> [k \in 0 .. (f.end - 1) |->
                       IF k < rest THEN src[first + k + 1]
                       ELSE IF k >= f.wptr /\ k < moved
                              THEN src[k - f.wptr + 1]
                              ELSE f.buffer[k]],
         end    |-> f.end,
         rptr   |-> f.rptr, wptr |-> IF moved > f.end THEN rest ELSE moved,
         rndx   |-> f.rndx, wndx |-> (f.wndx + Len(src)) % IndexModulus]

\* av_fifo_generic_write(f, src, Len(src), NULL), for Len(src) <= f.end.
Write(f, src) ==
    LET first == Smaller(f.end - f.wptr, Len(src))   \* up to the end
        rest  == Len(src) - first                    \* from the start again
        moved == f.wptr + first
    IN  [buffer |-> [k \in 0 .. (f.end - 1) |->
                       IF k < rest THEN src[first + k + 1]
                       ELSE IF k >= f.wptr /\ k < moved
                              THEN src[k - f.wptr + 1]
                              ELSE f.buffer[k]],
         end    |-> f.end,
         rptr   |-> f.rptr, wptr |-> IF moved >= f.end THEN rest ELSE moved,
         rndx   |-> f.rndx, wndx |-> (f.wndx + Len(src)) % IndexModulus]

\* Where av_fifo_generic_peek_at starts: rptr moved by offset, brought back
\* below end by its first test or by the first turn of its loop.
PeekStart(f, offset) ==
    LET at == IF offset >= f.end - f.rptr THEN f.rptr + offset - f.end
                                          ELSE f.rptr + offset
    IN  IF at >= f.end THEN at - f.end ELSE at

\* What av_fifo_generic_peek_at hands to its caller, size <= Size(f) - offset.
PeekAt(f, offset, size) ==
    LET start == PeekStart(f, offset)
    IN  [k \in 1 .. size |->
           f.buffer[IF start + k - 1 >= f.end THEN start + k - 1 - f.end
                                              ELSE start + k - 1]]

\* av_fifo_drain, size <= Size(f).
Drain(f, size) ==
    LET moved == f.rptr + size
    IN  [buffer |-> f.buffer, end |-> f.end,
         rptr   |-> IF moved >= f.end THEN moved - f.end ELSE moved,
         wptr   |-> f.wptr,
         rndx   |-> (f.rndx + size) % IndexModulus, wndx |-> f.wndx]

\* av_fifo_generic_read(f, dest, size, NULL): what it copies to dest.  The
\* fifo is left as by Drain(f, size): each chunk is drained once copied.
ReadOut(f, size) ==
    LET first == Smaller(f.end - f.rptr, size)
    IN  [k \in 1 .. size |->
           f.buffer[IF k <= first THEN f.rptr + k - 1 ELSE k - first - 1]]

\* av_fifo_reset.
Reset(f) == [buffer |-> f.buffer, end |-> f.end,
             rptr |-> 0, wptr |-> 0, rndx |-> 0, wndx |-> 0]

\* av_fifo_generic_peek: like ReadOut, nothing drained.
Peek(f, size) == ReadOut(f, size)

\* av_fifo_peek2: the offset from f->buffer of the byte at offs, which may be
\* negative, from the read pointer.
Peek2(f, offs) ==
    LET at == f.rptr + offs
    IN  IF at >= f.end THEN at - f.end
        ELSE IF at < 0 THEN f.end + at ELSE at

\* Variant for mutation: the data keeps its place, as av_realloc would leave it.
Realloc2InPlace(f, new_size) ==
    IF f.end >= new_size THEN f
    ELSE [f EXCEPT !.end = new_size,
                   !.buffer = [k \in 0 .. new_size - 1 |->
                                  IF k < f.end THEN f.buffer[k] ELSE Garbage]]

\* av_fifo_realloc2, the allocation having succeeded: a larger fifo takes what
\* is read out of the old one; a fifo is never made smaller.
Realloc2(f, new_size) ==
    IF f.end >= new_size THEN f
    ELSE LET len  == Size(f)
             data == ReadOut(f, len)
         IN  [Alloc(new_size) EXCEPT
                 !.buffer = [k \in DOMAIN @ |->
                                IF k < len THEN data[k + 1] ELSE Garbage],
                 !.wptr = len, !.wndx = len]

\* Whether av_fifo_grow refuses, and the size it asks av_fifo_realloc2 for, an
\* unsigned that wraps like the indices: old_size when there is room already.
GrowRefuses(f, size) == (size + Size(f)) % IndexModulus < size

GrowSize(f, size) ==
    LET needed == size + Size(f)
        double == (2 * f.end) % IndexModulus
    IN  IF f.end >= needed THEN f.end
        ELSE IF needed > double THEN needed ELSE double

\* One turn of av_fifo_generic_write's loop with a callback, which answers that
\* it put k bytes (no more than it was given place for) and ends it by 0.
WriteTurn(w, k) ==
    LET len  == Smaller(w.fifo.end - w.fifo.wptr, Len(w.src))
        puts == Smaller(k, len)
    IN  IF w.stopped \/ w.src = <<>> \/ puts = 0
        THEN [fifo |-> w.fifo, src |-> w.src, stopped |-> TRUE]
        ELSE [fifo    |-> Write(w.fifo, SubSeq(w.src, 1, puts)),
              src     |-> SubSeq(w.src, puts + 1, Len(w.src)),
              stopped |-> FALSE]

\* av_fifo_generic_write(f, src, Len(src), func) when func answers so, turn by
\* turn, and then stops: the fifo, and what was not written.
WriteBy(f, src, answers) ==
    LET turn[k \in 0 .. Len(answers)] ==
          IF k = 0 THEN [fifo |-> f, src |-> src, stopped |-> FALSE]
                   ELSE WriteTurn(turn[k - 1], answers[k])
    IN  turn[Len(answers)]

\* What a call gives its caller: a code, or so many items and which.
Ret(n)     == [ret |-> n, items |-> <<>>]
Got(items) == [ret |-> Len(items), items |-> items]
Refused    == Ret(-1)
-----------------------------------------------------------------------------
(* What the operators keep, and what a fifo holds.                         *)

\* An offset brought back below the end, once.
Wrapped(f, offset) == IF offset >= f.end THEN offset - f.end ELSE offset

\* A fifo that holds values of V: the indices are 32 bits wide, the data fits
\* in the buffer, and the write pointer is where the data that starts at the
\* read pointer ends.
IsFifo(f, V) ==
    /\ f.end \in 0 .. (IndexModulus - 1)
    /\ f.buffer \in [0 .. (f.end - 1) -> V \union {Garbage}]
    /\ f.rptr \in Nat /\ f.wptr \in Nat
    /\ f.rndx \in 0 .. (IndexModulus - 1) /\ f.wndx \in 0 .. (IndexModulus - 1)
    /\ Size(f) <= f.end
    /\ f.rptr < f.end \/ f.rptr = 0
    /\ f.wptr = Wrapped(f, f.rptr + Size(f))

\* The data, oldest first.
Contents(f) == [k \in 1 .. Size(f) |-> f.buffer[Wrapped(f, f.rptr + k - 1)]]
=============================================================================
