------------------------------ MODULE ByteFifo ------------------------------
(***************************************************************************)
(* libavutil/fifo.c as its caller sees it, byte by byte: every function,   *)
(* with growing that may fail, sizes that wrap and write callbacks that    *)
(* deliver less than they are asked for.  The caller keeps to what fifo.h  *)
(* asks: it writes no more than there is space for and reads and drains no *)
(* more than there is.                                                     *)
(***************************************************************************)
EXTENDS Fifo

CONSTANTS Bytes,
          MaxBytes,   \* bound: bytes of one call or of one allocation
          NoFifo

ASSUME ByteFifoAssumption == MaxBytes \in 0 .. (IndexModulus - 1)

VARIABLES fifo,      \* the AVFifoBuffer, NoFifo when there is none
          returned   \* what the last call returned

fifoVars == <<fifo, returned>>

FifoInit == fifo = NoFifo /\ returned = Ret(0)

New(size) ==
    /\ fifo = NoFifo
    /\ fifo' = Alloc(size) /\ returned' = Ret(0)

Free == fifo # NoFifo /\ fifo' = NoFifo /\ returned' = Ret(0)

\* realloc2 when its allocation, if there is one, succeeds; or does not.
Resized(size) ==
    \/ fifo' = Realloc2(fifo, size) /\ returned' = Ret(0)
    \/ fifo.end < size /\ returned' = Refused /\ UNCHANGED fifo

Resize(size) == fifo # NoFifo /\ Resized(size)

Grow(size) ==
    /\ fifo # NoFifo
    /\ IF GrowRefuses(fifo, size) THEN returned' = Refused /\ UNCHANGED fifo
       ELSE Resized(GrowSize(fifo, size))

Puts(src) ==
    /\ fifo # NoFifo /\ Len(src) <= Space(fifo)
    /\ fifo' = Write(fifo, src) /\ returned' = Ret(Len(src))

\* Variant for mutation: what was asked for is counted as written.
PutsByAsked(src, answers) ==
    /\ fifo # NoFifo /\ Len(src) <= Space(fifo)
    /\ LET w == WriteBy(fifo, src, answers)
       IN  /\ fifo' = [w.fifo EXCEPT !.wndx = (@ + Len(w.src)) % IndexModulus]
           /\ returned' = Ret(Len(src))

\* av_fifo_generic_write with a callback that answers so and then stops.
PutsBy(src, answers) ==
    /\ fifo # NoFifo /\ Len(src) <= Space(fifo)
    /\ LET w == WriteBy(fifo, src, answers)
       IN  fifo' = w.fifo /\ returned' = Ret(Len(src) - Len(w.src))

Gets(n) ==
    /\ fifo # NoFifo /\ n <= Size(fifo)
    /\ fifo' = Drain(fifo, n) /\ returned' = Got(ReadOut(fifo, n))

Drains(n) ==
    /\ fifo # NoFifo /\ n <= Size(fifo)
    /\ fifo' = Drain(fifo, n) /\ returned' = Ret(0)

\* av_fifo_generic_peek, _peek_at, and av_fifo_peek2 from either end: at offs,
\* or at offs - Size from what would be the next byte, the read pointer moved.
Peeks(n) == /\ fifo # NoFifo /\ n <= Size(fifo)
            /\ returned' = Got(Peek(fifo, n)) /\ UNCHANGED fifo

PeeksAt(n, offset) ==
    /\ fifo # NoFifo /\ offset + n <= Size(fifo)
    /\ returned' = Got(PeekAt(fifo, offset, n)) /\ UNCHANGED fifo

PeeksByte(offs) ==
    /\ fifo # NoFifo /\ offs < Size(fifo)
    /\ returned' = Got(<<fifo.buffer[Peek2(fifo, offs)]>>) /\ UNCHANGED fifo

Clear == fifo # NoFifo /\ fifo' = Reset(fifo) /\ returned' = Ret(0)

\* Everything but writing.
FifoOthers ==
    \/ \E size \in 1 .. MaxBytes : New(size) \/ Resize(size) \/ Grow(size)
    \/ \E n \in 0 .. MaxBytes :
          \/ Gets(n) \/ Drains(n) \/ Peeks(n) \/ PeeksByte(n)
          \/ \E offset \in 0 .. MaxBytes : PeeksAt(n, offset)
    \/ Clear \/ Free

Answers == UNION {[1 .. n -> 0 .. MaxBytes] : n \in 0 .. 2}

FifoNext ==
    \/ \E n \in 0 .. MaxBytes : \E src \in [1 .. n -> Bytes] :
          Puts(src) \/ \E answers \in Answers : PutsBy(src, answers)
    \/ FifoOthers

FifoSpec == FifoInit /\ [][FifoNext]_fifoVars
-----------------------------------------------------------------------------
(***************************************************************************)
(* Properties                                                              *)
(***************************************************************************)
\* The fifo is well formed, and what it holds was put there.
FifoTypeOK == fifo # NoFifo => IsFifo(fifo, Bytes) /\ Contents(fifo) \in Seq(Bytes)

\* When av_fifo_grow returns 0 there is the room it was asked for, also where
\* twice the old size does not fit in an unsigned (line 116).
GrowMakesRoom ==
    [][\A size \in 1 .. MaxBytes :
          Grow(size) /\ returned' = Ret(0) => Space(fifo') >= size]_fifoVars

\* The fifo is a queue of bytes through wrapping, growing, failed allocations
\* and short writes (lines 97, 132).
Stored == IF fifo = NoFifo THEN <<>> ELSE Contents(fifo)

ByteQueue == INSTANCE SampleQueue
             WITH Items <- Bytes, queue <- Stored, result <- returned

ImplementsByteQueue == ByteQueue!Spec

\* What a caller of the fifo relies on.
BytesAreAQueue == ImplementsByteQueue /\ GrowMakesRoom
=============================================================================
