------------------------------ MODULE AudioFifo ------------------------------
(***************************************************************************)
(* libavutil/audio_fifo.c: samples of several channels in as many fifos    *)
(* (planes), which one thread writes, looks at, reads, drains and resizes. *)
(* A call does its work plane by plane; growing may fail at any of them.   *)
(*                                                                         *)
(* A sample is a number.  What it puts into plane p are SampleSize bytes   *)
(* that tell the sample, the plane and their place in it.                  *)
(***************************************************************************)
EXTENDS Fifo

CONSTANTS Samples, Planes, SampleSize,
          IntMax,      \* INT_MAX
          MaxCall,     \* bound: samples of one call
          MaxAlloc,    \* bound: samples asked for by alloc and realloc
          None

ASSUME AudioFifoAssumption ==
    /\ Planes \in Nat \ {0} /\ SampleSize \in Nat \ {0}
    /\ IntMax \in Nat /\ MaxCall \in Nat /\ MaxAlloc \in Nat
    /\ IntMax <= IndexModulus * Planes
    /\ Samples \subseteq Nat /\ Garbage \in Nat
    /\ Garbage \div (Planes * SampleSize) \notin Samples

VARIABLES af,     \* the AVAudioFifo, None before alloc and after free
          result  \* what the last call returned

vars == <<af, result>>

Init == af = None /\ result = Ret(0)

\* av_samples_get_buffer_size of a planar format with align 1: refused, or
\* the bytes of one plane.
BufferSizeRefuses(nb) ==
    nb <= 0 \/ Planes * nb > (IntMax - Planes) \div SampleSize
BufferSize(nb) == nb * SampleSize

\* The bytes of samples for plane p, and the samples that all planes' bytes
\* agree on.
Byte(v, p, k) == (v * Planes + p - 1) * SampleSize + k

Encode(samples, p) ==
    [i \in 1 .. Len(samples) * SampleSize |->
        Byte(samples[(i - 1) \div SampleSize + 1], p, (i - 1) % SampleSize)]

SampleAt(bytes, first) ==
    LET v == bytes[1][first] \div (Planes * SampleSize)
    IN  IF /\ v \in Samples
           /\ \A p \in 1 .. Planes, k \in 0 .. SampleSize - 1 :
                 bytes[p][first + k] = Byte(v, p, k)
        THEN v ELSE Garbage

Decode(bytes) ==
    [i \in 1 .. Len(bytes[1]) \div SampleSize |->
        SampleAt(bytes, (i - 1) * SampleSize + 1)]

OnPlanes(Op(_, _)) == [p \in 1 .. Planes |-> Op(af.buf[p], p)]

\* av_audio_fifo_size and av_audio_fifo_space.
AvSize  == af.nb_samples
AvSpace == af.allocated_samples - af.nb_samples
-----------------------------------------------------------------------------
\* av_audio_fifo_alloc, which frees what it has when an allocation fails.
AudioAlloc(nb) ==
    /\ af = None
    /\ \/ /\ ~BufferSizeRefuses(nb)
          /\ af' = [buf |-> [p \in 1 .. Planes |-> Alloc(BufferSize(nb))],
                    nb_samples |-> 0, allocated_samples |-> nb]
          /\ result' = Ret(0)
       \/ result' = Refused /\ UNCHANGED af

\* av_audio_fifo_free.
AudioFree == af # None /\ af' = None /\ result' = Ret(0)

\* Variant for mutation: the new size is noted before the planes have it.
ReallocedEarly(nb, failing) ==
    [af EXCEPT !.buf = OnPlanes(LAMBDA f, p :
                           IF p < failing THEN Realloc2(f, BufferSize(nb)) ELSE f),
               !.allocated_samples = nb]

\* av_audio_fifo_realloc when the allocation for plane failing fails, or for
\* none of them (Planes + 1).
Realloced(nb, failing) ==
    [af EXCEPT !.buf = OnPlanes(LAMBDA f, p :
                           IF p < failing THEN Realloc2(f, BufferSize(nb)) ELSE f),
               !.allocated_samples = IF failing > Planes THEN nb ELSE @]

\* Only a plane that has to grow allocates, so only such a one can fail.
MayFail(nb) == {p \in 1 .. Planes : af.buf[p].end < BufferSize(nb)}

AudioRealloc(nb) ==
    /\ af # None
    /\ IF BufferSizeRefuses(nb) THEN result' = Refused /\ UNCHANGED af
       ELSE \E failing \in MayFail(nb) \union {Planes + 1} :
                /\ af' = Realloced(nb, failing)
                /\ result' = IF failing > Planes THEN Ret(0) ELSE Refused

\* av_audio_fifo_write, which first grows the planes to twice what is needed.
Written(a, samples) ==
    [a EXCEPT !.buf = [p \in 1 .. Planes |-> Write(a.buf[p], Encode(samples, p))],
              !.nb_samples = @ + Len(samples)]

AudioWrite(samples) ==
    LET nb == Len(samples)
        wanted == 2 * (AvSize + nb)
    IN
    /\ af # None
    /\ IF AvSpace >= nb
       THEN af' = Written(af, samples) /\ result' = Ret(nb)
       ELSE IF IntMax \div 2 - AvSize < nb \/ BufferSizeRefuses(wanted)
       THEN result' = Refused /\ UNCHANGED af
       ELSE \E failing \in MayFail(wanted) \union {Planes + 1} :
              IF failing > Planes
              THEN af' = Written(Realloced(wanted, failing), samples) /\ result' = Ret(nb)
              ELSE af' = Realloced(wanted, failing) /\ result' = Refused

\* av_audio_fifo_peek.
AudioPeek(n) ==
    LET nb == Smaller(n, AvSize) IN
    /\ af # None
    /\ result' = Got(Decode(OnPlanes(LAMBDA f, p : Peek(f, nb * SampleSize))))
    /\ UNCHANGED af

\* av_audio_fifo_peek_at.
AudioPeekAt(n, offset) ==
    LET nb == Smaller(n, AvSize) IN
    /\ af # None
    /\ result' = IF offset >= AvSize \/ offset > AvSize - nb THEN Refused
                 ELSE Got(Decode(OnPlanes(LAMBDA f, p :
                          PeekAt(f, offset * SampleSize, nb * SampleSize))))
    /\ UNCHANGED af

Drained(nb) ==
    [af EXCEPT !.buf = OnPlanes(LAMBDA f, p : Drain(f, nb * SampleSize)),
               !.nb_samples = @ - nb]

\* av_audio_fifo_read.
AudioRead(n) ==
    LET nb == Smaller(n, AvSize) IN
    /\ af # None
    /\ result' = Got(Decode(OnPlanes(LAMBDA f, p : ReadOut(f, nb * SampleSize))))
    /\ af' = Drained(nb)

\* av_audio_fifo_drain.
AudioDrain(n) ==
    /\ af # None
    /\ af' = Drained(Smaller(n, AvSize))
    /\ result' = Ret(0)

\* av_audio_fifo_reset.
AudioReset ==
    /\ af # None
    /\ af' = [af EXCEPT !.buf = OnPlanes(LAMBDA f, p : Reset(f)), !.nb_samples = 0]
    /\ result' = Ret(0)

\* Everything but writing.
Others ==
    \/ \E nb \in 0 .. MaxAlloc : AudioAlloc(nb) \/ AudioRealloc(nb)
    \/ \E nb \in 0 .. MaxCall :
          \/ AudioPeek(nb) \/ AudioRead(nb) \/ AudioDrain(nb)
          \/ \E offset \in 0 .. MaxCall : AudioPeekAt(nb, offset)
    \/ AudioReset \/ AudioFree

Next == \/ \E nb \in 0 .. MaxCall : \E samples \in [1 .. nb -> Samples] : AudioWrite(samples)
        \/ Others

Spec == Init /\ [][Next]_vars
-----------------------------------------------------------------------------
(***************************************************************************)
(* Properties                                                              *)
(***************************************************************************)
\* The bytes of samples in plane p.
PlaneBytes(p) == {Byte(v, p, k) : v \in Samples, k \in 0 .. SampleSize - 1}

\* Every plane is a well-formed fifo of as many bytes as there are samples.
TypeOK ==
    af # None =>
        /\ af.nb_samples \in 0 .. IntMax /\ af.allocated_samples \in 1 .. IntMax
        /\ \A p \in 1 .. Planes :
              /\ IsFifo(af.buf[p], PlaneBytes(p))
              /\ Size(af.buf[p]) = AvSize * SampleSize

\* The planes hold the same samples and each has the room that space promises,
\* whichever of them could not grow (lines 105, 123).
PlanesInStep ==
    af # None => \A p \in 1 .. Planes :
        /\ Contents(af.buf[p]) =
              Encode(Decode([q \in 1 .. Planes |-> Contents(af.buf[q])]), p)
        /\ Space(af.buf[p]) >= AvSpace * SampleSize

PlanesStayInStep == TypeOK /\ PlanesInStep

\* An audio fifo is a queue of samples: what is peeked and read are the oldest
\* samples, in all planes, and a call that fails leaves them as they were.
Held == IF af = None THEN <<>>
        ELSE Decode([p \in 1 .. Planes |-> Contents(af.buf[p])])

Queue == INSTANCE SampleQueue WITH Items <- Samples, queue <- Held

SamplesAreAQueue == Queue!Spec
=============================================================================
