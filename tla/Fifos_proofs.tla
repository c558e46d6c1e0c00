---------------------------- MODULE Fifos_proofs ----------------------------
(***************************************************************************)
(* The fifo of libavutil/fifo.c implements a queue of bytes, for every set *)
(* of bytes, every width of the indices and every bound on sizes that the  *)
(* indices can count; the audio fifo of libavutil/audio_fifo.c keeps its   *)
(* planes in step and implements a queue of samples, for every number of   *)
(* planes, size of a sample, set of samples and width of int.              *)
(***************************************************************************)
EXTENDS AudioFifo, ByteFifo, Fifo_proofs
-----------------------------------------------------------------------------
(***************************************************************************)
(* The queue of bytes.                                                     *)
(***************************************************************************)

\* What stands for no fifo is not a fifo.
Apart == \A f : IsFifo(f, Bytes) => f # NoFifo

\* The contents of a fifo of bytes, as a sequence as long as its size.
LEMMA HeldIsSeq ==
  ASSUME fifo # NoFifo, FifoTypeOK
  PROVE  /\ IsFifo(fifo, Bytes) /\ Stored = Contents(fifo)
         /\ Stored \in Seq(Bytes) /\ Len(Stored) = Size(fifo) /\ Size(fifo) \in Nat
<1>1. IsFifo(fifo, Bytes) /\ Contents(fifo) \in Seq(Bytes) /\ Stored = Contents(fifo)
  BY DEF FifoTypeOK, Stored
<1> QED BY <1>1, ContentsIsSeq, FifoBounds

\* A sequence of values of V that goes on after old.
GoesOn(V, old, new) ==
    new \in Seq(V) /\ Len(new) >= Len(old) /\ SubSeq(new, 1, Len(old)) = old

\* What comes before what is left of the data that was to be put.
LEMMA PutsPrefix ==
  ASSUME NEW V, NEW W, V \subseteq W, NEW old \in Seq(V), NEW src \in Seq(V),
         NEW new \in Seq(W), NEW rest \in Seq(V),
         new \o rest = old \o src, Len(rest) <= Len(src)
  PROVE  GoesOn(V, old, new) /\ Len(new) = Len(old) + Len(src) - Len(rest)
<1>1. PICK o \in Nat, s \in Nat, n \in Nat, r \in Nat :
         o = Len(old) /\ s = Len(src) /\ n = Len(new) /\ r = Len(rest)
  BY LenProperties
<1>2. rest \in Seq(W)
  BY SeqMonotonic
<1> DEFINE all == old \o src
<1>3. /\ all \in Seq(V) /\ Len(all) = o + s
      /\ \A i \in 1 .. o + s : all[i] = IF i <= o THEN old[i] ELSE src[i - o]
  BY <1>1, ConcatProperties
<1>4. /\ Len(new \o rest) = n + r
      /\ \A i \in 1 .. n + r : (new \o rest)[i] = IF i <= n THEN new[i] ELSE rest[i - n]
  BY <1>1, <1>2, ConcatProperties
<1>5. all = new \o rest
  OBVIOUS
<1> HIDE DEF all
<1>6. n = o + s - r /\ n >= o
  BY <1>1, <1>3, <1>4, <1>5
<1>7. \A i \in 1 .. n : new[i] = all[i]
  BY <1>4, <1>5
<1>8. \A i \in 1 .. n : new[i] \in V
  <2>1. \A i \in 1 .. n : i \in 1 .. Len(all)
    BY <1>1, <1>3, <1>6
  <2> QED BY <1>3, <1>7, <2>1, ElementOfSeq
<1>9. new \in Seq(V)
  <2>1. new \in [1 .. n -> W]
    BY <1>1, LenProperties
  <2>2. new \in [1 .. n -> V]
    BY <1>8, <2>1
  <2> QED BY <2>2, IsASeq
<1>10. SubSeq(new, 1, o) = old
  <2>1. SubSeq(new, 1, o) \in Seq(V) /\ Len(SubSeq(new, 1, o)) = o
    BY <1>1, <1>6, <1>9, SplitAt
  <2>2. \A i \in 1 .. o : SubSeq(new, 1, o)[i] = new[1 + i - 1]
    <3>1. \A i \in 1 .. o : new[i] \in V
      BY <1>6, <1>8
    <3> QED BY <3>1, SubSeqProperties
  <2>3. ASSUME NEW i \in 1 .. o  PROVE SubSeq(new, 1, o)[i] = old[i]
    <3>1. 1 + i - 1 = i /\ i \in 1 .. n /\ i \in 1 .. o + s /\ i <= o
      BY <1>6
    <3> QED BY <1>3, <1>7, <2>2, <3>1
  <2> QED BY <1>1, <2>1, <2>3, SeqEqual
<1> QED BY <1>1, <1>6, <1>9, <1>10 DEF GoesOn

\* Writing with or without a callback puts bytes at the end.
LEMMA WritesPut ==
  ASSUME FifoTypeOK, fifo # NoFifo, NEW src \in Seq(Bytes),
         NEW rest \in Seq(Bytes), Len(rest) <= Len(src),
         IsFifo(fifo', Bytes), fifo' # NoFifo,
         Contents(fifo') \o rest = Contents(fifo) \o src,
         returned' = Ret(Len(src) - Len(rest))
  PROVE  FifoTypeOK' /\ ByteQueue!Next
<1>1. Stored = Contents(fifo) /\ Stored \in Seq(Bytes)
  BY HeldIsSeq
<1>2. Stored' = Contents(fifo') /\ Contents(fifo') \in Seq(Bytes \union {Garbage})
  BY ContentsIsSeq DEF Stored
<1>3. PICK old, new : old = Stored /\ new = Stored'
  OBVIOUS
<1>4. GoesOn(Bytes, old, new) /\ Len(new) = Len(old) + Len(src) - Len(rest)
  <2>1. Bytes \subseteq Bytes \union {Garbage}
    OBVIOUS
  <2>2. /\ old \in Seq(Bytes) /\ new \in Seq(Bytes \union {Garbage})
        /\ new \o rest = old \o src
        /\ src \in Seq(Bytes) /\ rest \in Seq(Bytes) /\ Len(rest) <= Len(src)
    BY <1>1, <1>2, <1>3
  <2>3. PICK W : W = Bytes \union {Garbage}
    OBVIOUS
  <2>4. Bytes \subseteq W /\ new \in Seq(W)
    BY <2>1, <2>2, <2>3
  <2>5. GoesOn(Bytes, old, new)
    BY ONLY <2>2, <2>4, PutsPrefix
  <2>6. Len(new) = Len(old) + Len(src) - Len(rest)
    BY ONLY <2>2, <2>4, PutsPrefix
  <2> QED BY <2>5, <2>6
<1>5. FifoTypeOK'
  BY <1>2, <1>3, <1>4 DEF FifoTypeOK, GoesOn
<1>6. Len(src) - Len(rest) = Len(new) - Len(old)
  <2>1. Len(new) \in Nat /\ Len(old) \in Nat /\ Len(src) \in Nat /\ Len(rest) \in Nat
    BY <1>1, <1>3, <1>4, LenProperties DEF GoesOn
  <2> QED BY <1>4, <2>1
<1>7. ByteQueue!Put(old, new)
  BY <1>4, <1>6 DEF GoesOn, ByteQueue!Put, ByteQueue!Ret, Ret
<1>8. ByteQueue!Next
  BY <1>3, <1>7 DEF ByteQueue!Next
<1> QED BY <1>5, <1>8

\* av_fifo_generic_write.
LEMMA PutsStep ==
  ASSUME FifoTypeOK, Apart, NEW src \in Seq(Bytes), Puts(src)
  PROVE  FifoTypeOK' /\ ByteQueue!Next
<1>1. /\ fifo # NoFifo /\ fifo' = Write(fifo, src) /\ returned' = Ret(Len(src))
      /\ Len(src) <= Space(fifo)
  BY DEF Puts
<1>2. /\ IsFifo(fifo, Bytes) /\ Size(fifo) + Len(src) <= fifo.end /\ Len(src) \in Nat
  <2>1. IsFifo(fifo, Bytes) /\ fifo.end \in Nat /\ Size(fifo) \in Nat /\ Len(src) \in Nat
    BY <1>1, HeldIsSeq, FifoBounds, LenProperties
  <2> QED BY <1>1, <2>1 DEF Space
<1>3. IsFifo(fifo', Bytes) /\ Contents(fifo') = Contents(fifo) \o src
  BY <1>1, <1>2, WriteAll
<1>4. fifo' # NoFifo
  BY <1>3 DEF Apart
<1>5. Contents(fifo') \o <<>> = Contents(fifo) \o src
  <2>1. Contents(fifo') \in Seq(Bytes \union {Garbage})
    BY <1>3, ContentsIsSeq
  <2> QED BY <1>3, <2>1, ConcatEmptySeq
<1>6. /\ <<>> \in Seq(Bytes) /\ Len(<<>>) <= Len(src)
      /\ returned' = Ret(Len(src) - Len(<<>>))
  <2>1. Len(<<>>) = 0 /\ Len(src) - 0 = Len(src)
    BY <1>2
  <2> QED BY <1>1, <1>2, <2>1
<1> QED BY <1>1, <1>3, <1>4, <1>5, <1>6, WritesPut

\* av_fifo_generic_write with a callback.
LEMMA PutsByStep ==
  ASSUME FifoTypeOK, Apart, NEW src \in Seq(Bytes), NEW answers \in Seq(Nat),
         PutsBy(src, answers)
  PROVE  FifoTypeOK' /\ ByteQueue!Next
<1>1. PICK w : /\ w = WriteBy(fifo, src, answers)
               /\ fifo' = w.fifo /\ returned' = Ret(Len(src) - Len(w.src))
  BY DEF PutsBy
<1>2. fifo # NoFifo /\ Len(src) <= Space(fifo)
  BY DEF PutsBy
<1>3. /\ IsFifo(fifo, Bytes) /\ Size(fifo) + Len(src) <= fifo.end
  <2>1. IsFifo(fifo, Bytes) /\ fifo.end \in Nat /\ Size(fifo) \in Nat /\ Len(src) \in Nat
    BY <1>2, HeldIsSeq, FifoBounds, LenProperties
  <2> QED BY <1>2, <2>1 DEF Space
<1>4. /\ IsFifo(w.fifo, Bytes) /\ w.src \in Seq(Bytes) /\ Len(w.src) <= Len(src)
      /\ Contents(w.fifo) \o w.src = Contents(fifo) \o src
  <2>1. PICK f : f = fifo
    OBVIOUS
  <2>2. Moved(Bytes, f, src, w)
    BY <1>1, <1>3, <2>1, WritesBy
  <2> QED BY <2>1, <2>2, Zenon DEF Moved
<1>5. fifo' # NoFifo
  BY <1>1, <1>4 DEF Apart
<1> QED BY <1>1, <1>2, <1>4, <1>5, WritesPut

\* What is taken out is the oldest data, handed out or not.
LEMMA BytesTaking ==
  ASSUME NEW n \in 0 .. Len(Stored), Stored \in Seq(Bytes),
         Stored' = SubSeq(Stored, n + 1, Len(Stored)),
         returned' \in {Got(SubSeq(Stored, 1, n)), Ret(0)}
  PROVE  Stored' \in Seq(Bytes) /\ ByteQueue!Next
<1>1. PICK old, new : old = Stored /\ new = Stored'
  OBVIOUS
<1>2. /\ SubSeq(old, n + 1, Len(old)) \in Seq(Bytes)
      /\ Len(SubSeq(old, n + 1, Len(old))) = Len(old) - n
  BY <1>1, SplitAt
<1>3. new \in Seq(Bytes) /\ Len(new) = Len(old) - n /\ new = SubSeq(old, n + 1, Len(old))
  BY <1>1, <1>2
<1>4. Len(old) - Len(new) = n /\ n >= 0
  <2>1. Len(old) \in Nat
    BY <1>1, LenProperties
  <2> QED BY <1>1, <1>3, <2>1
<1>5. returned' \in {ByteQueue!Got(SubSeq(old, 1, n)), ByteQueue!Ret(0)}
  BY <1>1 DEF Got, Ret, ByteQueue!Got, ByteQueue!Ret
<1>6. ByteQueue!Take(old, new)
  BY <1>3, <1>4, <1>5, Zenon DEF ByteQueue!Take
<1>7. ByteQueue!Next
  BY <1>1, <1>6 DEF ByteQueue!Next
<1> QED BY <1>1, <1>3, <1>7

\* A call that changes nothing, or the room only.
LEMMA BytesLooking ==
  ASSUME Stored' = Stored, returned' \in {Ret(0), Refused}
  PROVE  ByteQueue!Next
<1>1. returned' \in {ByteQueue!Ret(0), ByteQueue!Refused}
  BY DEF Ret, Refused, ByteQueue!Ret, ByteQueue!Refused
<1>2. PICK old, new : old = Stored /\ new = Stored'
  OBVIOUS
<1>3. ByteQueue!Look(old, new)
  BY <1>1, <1>2 DEF ByteQueue!Look
<1> QED BY <1>2, <1>3 DEF ByteQueue!Next

\* A look at some of the data.
LEMMA BytesLookingAt ==
  ASSUME Stored' = Stored, Stored \in Seq(Bytes), NEW from \in Nat, NEW n \in Nat,
         from + n <= Len(Stored), returned' = Got(SubSeq(Stored, from + 1, from + n))
  PROVE  ByteQueue!Next
<1>1. PICK old, new : old = Stored /\ new = Stored'
  OBVIOUS
<1>2. returned' = ByteQueue!Got(SubSeq(old, from + 1, from + n))
  BY <1>1 DEF Got, ByteQueue!Got
<1>3. /\ from \in 0 .. Len(old) /\ n \in 0 .. Len(old) /\ from + n <= Len(old)
  <2>1. Len(old) \in Nat
    BY <1>1, LenProperties
  <2> QED BY <1>1, <2>1
<1>4. ByteQueue!Look(old, new)
  BY <1>1, <1>2, <1>3, Zenon DEF ByteQueue!Look
<1> QED BY <1>1, <1>4 DEF ByteQueue!Next

\* av_fifo_alloc.
LEMMA NewStep ==
  ASSUME FifoTypeOK, Apart, NEW size \in 1 .. MaxBytes, New(size)
  PROVE  FifoTypeOK' /\ ByteQueue!Next
<1>1. fifo = NoFifo /\ fifo' = Alloc(size) /\ returned' = Ret(0)
  BY DEF New
<1>2. size \in 0 .. (IndexModulus - 1)
  BY FifoAssumption, ByteFifoAssumption
<1>3. IsFifo(fifo', Bytes) /\ Size(fifo') = 0
  BY <1>1, <1>2, AllocIsFifo
<1>4. Contents(fifo') = <<>>
  BY <1>3, ContentsIsSeq, EmptySeq
<1>5. fifo' # NoFifo
  BY <1>3 DEF Apart
<1>6. FifoTypeOK'
  BY <1>3, <1>4 DEF FifoTypeOK
<1>7. Stored' = Stored
  BY <1>1, <1>4, <1>5 DEF Stored
<1> QED BY <1>1, <1>6, <1>7, BytesLooking

\* av_fifo_free.
LEMMA BytesFreeStep ==
  ASSUME FifoTypeOK, Free
  PROVE  FifoTypeOK' /\ ByteQueue!Next
<1>1. fifo # NoFifo /\ fifo' = NoFifo /\ returned' = Ret(0)
  BY DEF Free
<1>2. Stored \in Seq(Bytes) /\ Len(Stored) \in Nat
  BY <1>1, HeldIsSeq
<1>3. Stored' = SubSeq(Stored, Len(Stored) + 1, Len(Stored))
  <2>1. Stored' = <<>>
    BY <1>1 DEF Stored
  <2>2. SubSeq(Stored, Len(Stored) + 1, Len(Stored)) = <<>>
    BY <1>2, SubSeqEmpty
  <2> QED BY <2>1, <2>2
<1>4. Len(Stored) \in 0 .. Len(Stored)
  BY <1>2
<1>5. ByteQueue!Next
  BY <1>1, <1>2, <1>3, <1>4, BytesTaking
<1>6. FifoTypeOK'
  BY <1>1 DEF FifoTypeOK
<1> QED BY <1>5, <1>6

\* av_fifo_reset.
LEMMA ClearStep ==
  ASSUME FifoTypeOK, Apart, Clear
  PROVE  FifoTypeOK' /\ ByteQueue!Next
<1>1. fifo # NoFifo /\ fifo' = Reset(fifo) /\ returned' = Ret(0)
  BY DEF Clear
<1>2. IsFifo(fifo, Bytes) /\ Stored \in Seq(Bytes) /\ Len(Stored) \in Nat
  BY <1>1, HeldIsSeq
<1>3. IsFifo(fifo', Bytes) /\ Contents(fifo') = <<>>
  BY <1>1, <1>2, ResetEmpties
<1>4. fifo' # NoFifo
  BY <1>3 DEF Apart
<1>5. Stored' = SubSeq(Stored, Len(Stored) + 1, Len(Stored))
  <2>1. Stored' = <<>>
    BY <1>3, <1>4 DEF Stored
  <2>2. SubSeq(Stored, Len(Stored) + 1, Len(Stored)) = <<>>
    BY <1>2, SubSeqEmpty
  <2> QED BY <2>1, <2>2
<1>6. Len(Stored) \in 0 .. Len(Stored)
  BY <1>2
<1>7. ByteQueue!Next
  BY <1>1, <1>2, <1>5, <1>6, BytesTaking
<1>8. FifoTypeOK'
  BY <1>3 DEF FifoTypeOK
<1> QED BY <1>7, <1>8

\* av_fifo_realloc2, whether it succeeds or not.
LEMMA ResizedStep ==
  ASSUME FifoTypeOK, Apart, fifo # NoFifo, NEW size \in 0 .. (IndexModulus - 1), Resized(size)
  PROVE  /\ FifoTypeOK' /\ ByteQueue!Next
         /\ returned' = Ret(0) => /\ Size(fifo') = Size(fifo)
                                /\ fifo'.end = IF fifo.end >= size THEN fifo.end ELSE size
<1>1. IsFifo(fifo, Bytes) /\ Stored \in Seq(Bytes) /\ Stored = Contents(fifo)
  BY HeldIsSeq
<1>2. CASE fifo' = Realloc2(fifo, size) /\ returned' = Ret(0)
  <2>1. /\ IsFifo(fifo', Bytes) /\ Contents(fifo') = Contents(fifo)
        /\ Size(fifo') = Size(fifo)
        /\ fifo'.end = IF fifo.end >= size THEN fifo.end ELSE size
    BY <1>1, <1>2, ReallocKeeps
  <2>2. fifo' # NoFifo
    BY <2>1 DEF Apart
  <2>3. FifoTypeOK'
    BY <1>1, <2>1 DEF FifoTypeOK
  <2>4. Stored' = Stored
    BY <1>1, <2>1, <2>2 DEF Stored
  <2>5. ByteQueue!Next
    BY <1>2, <2>4, BytesLooking
  <2> QED BY <2>1, <2>3, <2>5
<1>3. CASE fifo.end < size /\ returned' = Refused /\ UNCHANGED fifo
  <2>1. FifoTypeOK' /\ Stored' = Stored
    BY <1>3 DEF FifoTypeOK, Stored
  <2>2. ByteQueue!Next
    BY <1>3, <2>1, BytesLooking
  <2>3. returned' # Ret(0)
    BY <1>3 DEF Refused, Ret
  <2> QED BY <2>1, <2>2, <2>3
<1> QED BY <1>2, <1>3 DEF Resized

\* av_fifo_grow, which makes room when it returns 0.
LEMMA GrowStep ==
  ASSUME FifoTypeOK, Apart, NEW size \in 1 .. MaxBytes, Grow(size)
  PROVE  /\ FifoTypeOK' /\ ByteQueue!Next
         /\ returned' = Ret(0) => Space(fifo') >= size
<1>1. fifo # NoFifo
  BY DEF Grow
<1>2. size \in 0 .. (IndexModulus - 1)
  BY FifoAssumption, ByteFifoAssumption
<1>3. CASE GrowRefuses(fifo, size)
  <2>1. returned' = Refused /\ fifo' = fifo
    BY <1>3 DEF Grow
  <2>2. FifoTypeOK' /\ Stored' = Stored
    BY <2>1 DEF FifoTypeOK, Stored
  <2>3. ByteQueue!Next
    BY <2>1, <2>2, BytesLooking
  <2>4. returned' # Ret(0)
    BY <2>1 DEF Refused, Ret
  <2> QED BY <2>2, <2>3, <2>4
<1>4. CASE ~GrowRefuses(fifo, size)
  <2>1. PICK room : room = GrowSize(fifo, size)
    OBVIOUS
  <2>2. IsFifo(fifo, Bytes)
    BY <1>1, HeldIsSeq
  <2>3. /\ room \in 0 .. (IndexModulus - 1)
        /\ room >= fifo.end /\ room >= size + Size(fifo)
    BY <1>2, <1>4, <2>1, <2>2, GrowsEnough
  <2>4. Resized(room)
    BY <1>4, <2>1 DEF Grow
  <2>5. /\ FifoTypeOK' /\ ByteQueue!Next
        /\ returned' = Ret(0) => /\ Size(fifo') = Size(fifo)
                               /\ fifo'.end = IF fifo.end >= room THEN fifo.end ELSE room
    BY <1>1, <2>3, <2>4, ResizedStep
  <2>6. ASSUME returned' = Ret(0)  PROVE Space(fifo') >= size
    <3>1. fifo.end \in Nat /\ Size(fifo) \in Nat /\ room \in Int /\ size \in Int
      BY <1>2, <2>2, <2>3, FifoBounds, FifoAssumption
    <3>2. fifo'.end = room /\ Size(fifo') = Size(fifo)
      BY <2>3, <2>5, <2>6, <3>1
    <3> QED BY <2>3, <3>1, <3>2 DEF Space
  <2> QED BY <2>5, <2>6
<1> QED BY <1>3, <1>4

\* av_fifo_generic_read and av_fifo_drain.
LEMMA DrainedStep ==
  ASSUME FifoTypeOK, Apart, fifo # NoFifo, NEW n \in 0 .. MaxBytes, n <= Size(fifo),
         fifo' = Drain(fifo, n), returned' \in {Got(ReadOut(fifo, n)), Ret(0)}
  PROVE  FifoTypeOK' /\ ByteQueue!Next
<1>1. /\ IsFifo(fifo, Bytes) /\ Stored \in Seq(Bytes) /\ Stored = Contents(fifo)
      /\ Len(Stored) = Size(fifo) /\ Size(fifo) \in Nat
  BY HeldIsSeq
<1>2. n \in 0 .. Size(fifo)
  BY <1>1, ByteFifoAssumption
<1>3. IsFifo(fifo', Bytes)
  BY <1>1, <1>2, DrainDrops
<1>4. Contents(fifo') = SubSeq(Stored, n + 1, Len(Stored))
  BY <1>1, <1>2, DrainLeaves
<1>5. fifo' # NoFifo
  BY <1>3 DEF Apart
<1>6. Stored' = SubSeq(Stored, n + 1, Len(Stored))
  BY <1>4, <1>5 DEF Stored
<1>7. ReadOut(fifo, n) = SubSeq(Stored, 1, n)
  BY <1>1, <1>2, ReadsOldest
<1>8. Stored' \in Seq(Bytes) /\ ByteQueue!Next
  <2>1. n \in 0 .. Len(Stored) /\ returned' \in {Got(SubSeq(Stored, 1, n)), Ret(0)}
    BY <1>1, <1>2, <1>7
  <2> QED BY <1>1, <1>6, <2>1, BytesTaking
<1>9. FifoTypeOK'
  BY <1>3, <1>4, <1>6, <1>8 DEF FifoTypeOK
<1> QED BY <1>8, <1>9

\* av_fifo_generic_peek, av_fifo_generic_peek_at and av_fifo_peek2.
LEMMA PeekedStep ==
  ASSUME FifoTypeOK, Apart, fifo # NoFifo, UNCHANGED fifo,
         NEW from \in 0 .. MaxBytes, NEW n \in 0 .. MaxBytes,
         \/ Peeks(n)
         \/ PeeksAt(n, from)
         \/ PeeksByte(n)
  PROVE  FifoTypeOK' /\ ByteQueue!Next
<1>1. /\ IsFifo(fifo, Bytes) /\ Stored \in Seq(Bytes) /\ Stored = Contents(fifo)
      /\ Len(Stored) = Size(fifo) /\ Size(fifo) \in Nat
  BY HeldIsSeq
<1>2. FifoTypeOK' /\ Stored' = Stored
  BY DEF FifoTypeOK, Stored
<1>3. from \in Nat /\ n \in Nat
  BY ByteFifoAssumption
<1>4. CASE Peeks(n)
  <2>1. n \in 0 .. Size(fifo) /\ returned' = Got(ReadOut(fifo, n))
    BY <1>1, <1>3, <1>4 DEF Peeks, Peek
  <2>2. ReadOut(fifo, n) = SubSeq(Stored, 1, n)
    BY <1>1, <2>1, ReadsOldest
  <2>3. 0 + 1 = 1 /\ 0 + n = n /\ 0 \in Nat /\ 0 + n <= Len(Stored)
    BY <1>1, <1>3, <2>1
  <2>4. returned' = Got(SubSeq(Stored, 0 + 1, 0 + n))
    BY <2>1, <2>2, <2>3
  <2> QED BY <1>1, <1>2, <1>3, <2>3, <2>4, BytesLookingAt
<1>5. CASE PeeksAt(n, from)
  <2>1. from + n <= Size(fifo) /\ returned' = Got(PeekAt(fifo, from, n))
    BY <1>5 DEF PeeksAt
  <2>2. PeekAt(fifo, from, n) = SubSeq(Stored, from + 1, from + n)
    BY <1>1, <1>3, <2>1, PeeksPart
  <2> QED BY <1>1, <1>2, <1>3, <2>1, <2>2, BytesLookingAt
<1>6. CASE PeeksByte(n)
  <2>1. n < Size(fifo) /\ returned' = Got(<<fifo.buffer[Peek2(fifo, n)]>>)
    BY <1>6 DEF PeeksByte
  <2>2. fifo.buffer[Peek2(fifo, n)] = Stored[n + 1]
    BY <1>1, <1>3, <2>1, Peeks2
  <2>3. <<Stored[n + 1]>> = SubSeq(Stored, n + 1, n + 1)
    <3>1. n + 1 \in 1 .. Len(Stored) /\ n + 1 \in Int
      BY <1>1, <1>3, <2>1
    <3>2. Stored[n + 1] \in Bytes
      BY <1>1, <3>1, ElementOfSeq
    <3>3. \A i \in n + 1 .. n + 1 : Stored[i] \in Bytes
      BY <3>1, <3>2
    <3>4. /\ SubSeq(Stored, n + 1, n + 1) \in Seq(Bytes)
          /\ Len(SubSeq(Stored, n + 1, n + 1)) = 1
          /\ SubSeq(Stored, n + 1, n + 1)[1] = Stored[n + 1]
      <4>1. /\ SubSeq(Stored, n + 1, n + 1) \in Seq(Bytes)
            /\ Len(SubSeq(Stored, n + 1, n + 1))
                  = IF n + 1 <= n + 1 THEN n + 1 - (n + 1) + 1 ELSE 0
            /\ \A i \in 1 .. n + 1 - (n + 1) + 1 :
                  SubSeq(Stored, n + 1, n + 1)[i] = Stored[n + 1 + i - 1]
        BY <3>1, <3>3, SubSeqProperties
      <4>2. n + 1 - (n + 1) + 1 = 1 /\ n + 1 + 1 - 1 = n + 1 /\ 1 \in 1 .. 1
        BY <1>3
      <4> QED BY <4>1, <4>2
    <3> QED BY <3>2, <3>4
  <2>4. n + 1 <= Len(Stored) /\ 1 \in Nat
    BY <1>1, <1>3, <2>1
  <2>5. returned' = Got(SubSeq(Stored, n + 1, n + 1))
    BY <2>1, <2>2, <2>3
  <2> QED BY <1>1, <1>2, <1>3, <2>4, <2>5, BytesLookingAt
<1> QED BY <1>4, <1>5, <1>6

\* Every step keeps the fifo well formed, is one of the queue or changes
\* nothing, and makes room where it says so.
LEMMA BytesStepsAreTheQueues ==
  ASSUME FifoTypeOK, Apart, [FifoNext]_fifoVars
  PROVE  /\ FifoTypeOK' /\ [ByteQueue!Next]_<<Stored, returned>>
         /\ \A size \in 1 .. MaxBytes :
               Grow(size) /\ returned' = Ret(0) => Space(fifo') >= size
<1>1. \A size \in 1 .. MaxBytes :
         Grow(size) /\ returned' = Ret(0) => Space(fifo') >= size
  BY GrowStep
<1>2. CASE UNCHANGED fifoVars
  BY <1>1, <1>2 DEF fifoVars, FifoTypeOK, Stored
<1>3. ASSUME NEW n \in 0 .. MaxBytes, NEW src \in [1 .. n -> Bytes],
             Puts(src) \/ \E answers \in Answers : PutsBy(src, answers)
      PROVE  FifoTypeOK' /\ ByteQueue!Next
  <2>1. src \in Seq(Bytes)
    <3>1. n \in Nat
      BY ByteFifoAssumption
    <3> QED BY <3>1, IsASeq
  <2>2. CASE Puts(src)
    BY <2>1, <2>2, PutsStep
  <2>3. ASSUME NEW answers \in Answers, PutsBy(src, answers)
        PROVE  FifoTypeOK' /\ ByteQueue!Next
    <3>1. PICK m \in 0 .. 2 : answers \in [1 .. m -> 0 .. MaxBytes]
      BY DEF Answers
    <3>2. answers \in [1 .. m -> Nat]
      BY <3>1, ByteFifoAssumption
    <3>3. answers \in Seq(Nat)
      BY <3>2, IsASeq
    <3> QED BY <2>1, <2>3, <3>3, PutsByStep
  <2> QED BY <1>3, <2>2, <2>3
<1>4. ASSUME FifoOthers  PROVE FifoTypeOK' /\ ByteQueue!Next
  <2>1. ASSUME NEW size \in 1 .. MaxBytes, New(size) \/ Resize(size) \/ Grow(size)
        PROVE  FifoTypeOK' /\ ByteQueue!Next
    <3>1. size \in 0 .. (IndexModulus - 1)
      BY FifoAssumption, ByteFifoAssumption
    <3>2. CASE Resize(size)
      BY <3>1, <3>2, ResizedStep DEF Resize
    <3> QED BY <2>1, <3>2, NewStep, GrowStep
  <2>2. ASSUME NEW n \in 0 .. MaxBytes, Gets(n) \/ Drains(n)
        PROVE  FifoTypeOK' /\ ByteQueue!Next
    BY <2>2, DrainedStep DEF Gets, Drains
  <2>3. ASSUME NEW n \in 0 .. MaxBytes, NEW from \in 0 .. MaxBytes,
               Peeks(n) \/ PeeksAt(n, from) \/ PeeksByte(n)
        PROVE  FifoTypeOK' /\ ByteQueue!Next
    <3>1. fifo # NoFifo /\ UNCHANGED fifo
      BY <2>3 DEF Peeks, PeeksAt, PeeksByte
    <3> QED BY <2>3, <3>1, PeekedStep
  <2>4. 0 \in 0 .. MaxBytes
    BY ByteFifoAssumption
  <2>5. CASE Clear \/ Free
    BY <2>5, ClearStep, BytesFreeStep
  <2> QED BY <1>4, <2>1, <2>2, <2>3, <2>4, <2>5 DEF FifoOthers
<1> QED BY <1>1, <1>2, <1>3, <1>4 DEF FifoNext

\* The fifo is well formed and holds what was put into it.
THEOREM FifoIsSound == ASSUME Apart PROVE FifoSpec => []FifoTypeOK
<1>1. FifoInit => FifoTypeOK
  BY DEF FifoInit, FifoTypeOK
<1>2. FifoTypeOK /\ [FifoNext]_fifoVars => FifoTypeOK'
  BY BytesStepsAreTheQueues
<1> QED BY <1>1, <1>2, PTL DEF FifoSpec

\* av_fifo_grow makes room for what it was asked, also where twice the old size
\* does not fit in an unsigned (line 116 of fifo.c).
THEOREM GrowingMakesRoom == ASSUME Apart PROVE FifoSpec => GrowMakesRoom
<1>1. FifoTypeOK /\ [FifoNext]_fifoVars =>
         [\A size \in 1 .. MaxBytes :
             Grow(size) /\ returned' = Ret(0) => Space(fifo') >= size]_fifoVars
  BY BytesStepsAreTheQueues
<1>2. FifoSpec => []FifoTypeOK
  BY FifoIsSound
<1> QED BY <1>1, <1>2, PTL DEF FifoSpec, GrowMakesRoom

\* The fifo is a queue of bytes: through the wrapping of its pointers and of its
\* indices, growing, allocations that fail and writes that fall short.
THEOREM FifoIsAQueue == ASSUME Apart PROVE FifoSpec => ImplementsByteQueue
<1>1. FifoInit => ByteQueue!Init
  BY DEF FifoInit, ByteQueue!Init, Stored, Ret, ByteQueue!Ret
<1>2. FifoTypeOK /\ [FifoNext]_fifoVars => [ByteQueue!Next]_<<Stored, returned>>
  BY BytesStepsAreTheQueues
<1>3. FifoSpec => []FifoTypeOK
  BY FifoIsSound
<1> QED BY <1>1, <1>2, <1>3, PTL DEF FifoSpec, ImplementsByteQueue, ByteQueue!Spec

\* What a caller of the fifo relies on, together.
THEOREM BytesQueue == ASSUME Apart PROVE FifoSpec => BytesAreAQueue
<1>1. FifoSpec => ImplementsByteQueue
  BY FifoIsAQueue
<1>2. FifoSpec => GrowMakesRoom
  BY GrowingMakesRoom
<1> QED BY <1>1, <1>2, PTL DEF BytesAreAQueue

-----------------------------------------------------------------------------
(***************************************************************************)
(* The queue of samples.                                                   *)
(***************************************************************************)

\* What stands for no audio fifo is not one.
NoneApart == \A buf, nb, room :
    [buf |-> buf, nb_samples |-> nb, allocated_samples |-> room] # None

-----------------------------------------------------------------------------
(* Numbers: positions inside samples.                                      *)

\* Multiples keep their order.
LEMMA Multiples ==
  ASSUME NEW s \in Nat, NEW a \in Int, NEW b \in Int, a <= b
  PROVE  a * s <= b * s
<1>1. PICK d \in Nat : d = b - a
  OBVIOUS
<1>2. d * s >= 0
  OBVIOUS
<1>3. b * s = a * s + d * s
  <2>1. b = a + d
    BY <1>1
  <2>2. (a + d) * s = a * s + d * s
    OBVIOUS
  <2> QED BY <2>1, <2>2
<1>4. PICK x \in Int, y \in Int, z \in Int : x = a * s /\ y = b * s /\ z = d * s
  OBVIOUS
<1> QED BY <1>2, <1>3, <1>4

\* A quotient and a remainder are the ones that division gives.
LEMMA Division ==
  ASSUME NEW s \in Nat \ {0}, NEW q \in Int, NEW r \in 0 .. s - 1
  PROVE  (q * s + r) \div s = q /\ (q * s + r) % s = r
<1>1. PICK a \in Int : a = q * s + r
  OBVIOUS
<1>2. a = ((a \div s) * s) + (a % s) /\ a % s \in 0 .. s - 1 /\ a \div s \in Int
  OBVIOUS
<1>3. PICK d \in Int, m \in 0 .. s - 1 : d = a \div s /\ m = a % s
  BY <1>2
<1>4. a = d * s + m
  BY <1>2, <1>3
<1>5. ~(d < q)
  <2>1. SUFFICES ASSUME d < q  PROVE FALSE
    OBVIOUS
  <2>2. (d + 1) * s <= q * s
    BY <2>1, Multiples
  <2>3. (d + 1) * s = d * s + s
    OBVIOUS
  <2> QED BY <1>1, <1>4, <2>2, <2>3
<1>6. ~(q < d)
  <2>1. SUFFICES ASSUME q < d  PROVE FALSE
    OBVIOUS
  <2>2. (q + 1) * s <= d * s
    BY <2>1, Multiples
  <2>3. (q + 1) * s = q * s + s
    OBVIOUS
  <2> QED BY <1>1, <1>4, <2>2, <2>3
<1>7. d = q
  BY <1>5, <1>6
<1>8. m = r
  BY <1>1, <1>4, <1>7
<1> QED BY <1>1, <1>3, <1>7, <1>8

\* Byte i of n samples is one of the bytes of one of them.
LEMMA Places ==
  ASSUME NEW s \in Nat \ {0}, NEW n \in Nat, NEW i \in 1 .. n * s
  PROVE  \E v \in 1 .. n, k \in 0 .. s - 1 : i = (v - 1) * s + k + 1
<1>1. PICK a \in Nat : a = i - 1
  OBVIOUS
<1>2. PICK q \in Int, k \in 0 .. s - 1 : a = q * s + k
  <2>1. a = ((a \div s) * s) + (a % s) /\ a % s \in 0 .. s - 1 /\ a \div s \in Int
    OBVIOUS
  <2> QED BY <2>1
<1>3. q >= 0
  <2>1. SUFFICES ASSUME q <= -1  PROVE FALSE
    OBVIOUS
  <2>2. q * s <= (-1) * s
    BY <2>1, Multiples
  <2> QED BY <1>1, <1>2, <2>2
<1>4. q < n
  <2>1. SUFFICES ASSUME n <= q  PROVE FALSE
    OBVIOUS
  <2>2. n * s <= q * s
    BY <2>1, Multiples
  <2> QED BY <1>1, <1>2, <2>2
<1>5. PICK v \in 1 .. n : v - 1 = q
  BY <1>3, <1>4
<1>6. i = (v - 1) * s + k + 1
  BY <1>1, <1>2, <1>5
<1> QED BY <1>6

\* And the other way round.
LEMMA PlaceOf ==
  ASSUME NEW s \in Nat \ {0}, NEW n \in Nat, NEW v \in 1 .. n, NEW k \in 0 .. s - 1
  PROVE  (v - 1) * s + k + 1 \in 1 .. n * s
<1>1. v * s <= n * s /\ 0 * s <= (v - 1) * s
  BY Multiples
<1>2. (v - 1) * s = v * s - s
  OBVIOUS
<1>3. PICK x \in Int, y \in Int, z \in Int : x = v * s /\ y = n * s /\ z = (v - 1) * s
  OBVIOUS
<1>4. 0 * s = 0
  OBVIOUS
<1> QED BY <1>1, <1>2, <1>3, <1>4

-----------------------------------------------------------------------------
(* Samples and their bytes.                                                *)

\* The constants, as the proofs use them.
LEMMA Constants ==
  /\ SampleSize \in Nat \ {0} /\ Planes \in Nat \ {0} /\ IntMax \in Nat
  /\ IndexModulus \in Nat \ {0} /\ Samples \subseteq Nat
  BY AudioFifoAssumption, FifoAssumption

\* A part of a sequence.
LEMMA PartOf ==
  ASSUME NEW V, NEW s \in Seq(V), NEW from \in Nat, NEW n \in Nat, from + n <= Len(s)
  PROVE  /\ SubSeq(s, from + 1, from + n) \in Seq(V)
         /\ Len(SubSeq(s, from + 1, from + n)) = n
         /\ \A i \in 1 .. n : SubSeq(s, from + 1, from + n)[i] = s[from + i]
<1>1. PICK l \in Nat : l = Len(s)
  BY LenProperties
<1>2. from + 1 \in Int /\ from + n \in Int
  OBVIOUS
<1>3. \A i \in from + 1 .. from + n : s[i] \in V
  <2>1. \A i \in from + 1 .. from + n : i \in 1 .. Len(s)
    BY <1>1
  <2> QED BY <2>1, ElementOfSeq
<1>4. /\ SubSeq(s, from + 1, from + n) \in Seq(V)
      /\ Len(SubSeq(s, from + 1, from + n))
            = IF from + 1 <= from + n THEN from + n - (from + 1) + 1 ELSE 0
      /\ \A i \in 1 .. from + n - (from + 1) + 1 :
            SubSeq(s, from + 1, from + n)[i] = s[from + 1 + i - 1]
  BY <1>2, <1>3, SubSeqProperties
<1>5. (IF from + 1 <= from + n THEN from + n - (from + 1) + 1 ELSE 0) = n
      /\ from + n - (from + 1) + 1 = n /\ \A i \in 1 .. n : from + 1 + i - 1 = from + i
  OBVIOUS
<1> QED BY <1>4, <1>5

\* e is the bytes of samples q in plane p.
Encodes(e, q, p) ==
    /\ e \in Seq(PlaneBytes(p)) /\ Len(e) = Len(q) * SampleSize
    /\ \A v \in 1 .. Len(q), k \in 0 .. SampleSize - 1 :
          e[(v - 1) * SampleSize + k + 1] = Byte(q[v], p, k)

\* Encode gives them.
LEMMA EncodeEncodes ==
  ASSUME NEW q \in Seq(Samples), NEW p
  PROVE  Encodes(Encode(q, p), q, p)
<1>1. PICK n \in Nat, s \in Nat \ {0} : n = Len(q) /\ s = SampleSize
  BY Constants, LenProperties
<1>2. n * s \in Nat
  OBVIOUS
<1> DEFINE E == Encode(q, p)
<1>3. E = [i \in 1 .. n * s |-> Byte(q[(i - 1) \div s + 1], p, (i - 1) % s)]
  BY <1>1 DEF Encode
<1> HIDE DEF E
<1>4. ASSUME NEW v \in 1 .. n, NEW k \in 0 .. s - 1
      PROVE  E[(v - 1) * s + k + 1] = Byte(q[v], p, k)
  <2>1. PICK i \in 1 .. n * s : i = (v - 1) * s + k + 1
    BY PlaceOf
  <2>2. PICK w \in Nat : w = v - 1
    OBVIOUS
  <2>3. (w * s + k) \div s = w /\ (w * s + k) % s = k
    BY Division
  <2>4. i - 1 = w * s + k
    BY <2>1, <2>2
  <2>5. E[i] = Byte(q[w + 1], p, k)
    BY <1>3, <2>3, <2>4
  <2>6. w + 1 = v
    BY <2>2
  <2> QED BY <2>1, <2>5, <2>6
<1>5. ASSUME NEW i \in 1 .. n * s  PROVE E[i] \in PlaneBytes(p)
  <2>1. PICK v \in 1 .. n, k \in 0 .. s - 1 : i = (v - 1) * s + k + 1
    BY Places
  <2>2. E[i] = Byte(q[v], p, k)
    BY <1>4, <2>1
  <2>3. q[v] \in Samples
    BY <1>1, ElementOfSeq
  <2> QED BY <1>1, <2>2, <2>3 DEF PlaneBytes
<1>6. E \in [1 .. n * s -> PlaneBytes(p)]
  BY <1>3, <1>5
<1>7. E \in Seq(PlaneBytes(p))
  BY <1>2, <1>6, IsASeq
<1>8. Len(E) = n * s
  <2>1. DOMAIN E = 1 .. n * s
    BY <1>6
  <2> QED BY <1>2, <1>7, <2>1, LenProperties
<1> QED BY <1>1, <1>4, <1>7, <1>8 DEF Encodes, E

\* And nothing else does.
LEMMA EncodesOnce ==
  ASSUME NEW q \in Seq(Samples), NEW p, NEW e, Encodes(e, q, p), NEW f, Encodes(f, q, p)
  PROVE  e = f
<1>1. PICK n \in Nat, s \in Nat \ {0} : n = Len(q) /\ s = SampleSize
  BY Constants, LenProperties
<1>2. /\ e \in Seq(PlaneBytes(p)) /\ Len(e) = n * s
      /\ f \in Seq(PlaneBytes(p)) /\ Len(f) = n * s
  BY <1>1 DEF Encodes
<1>3. ASSUME NEW i \in 1 .. n * s  PROVE e[i] = f[i]
  <2>1. PICK v \in 1 .. n, k \in 0 .. s - 1 : i = (v - 1) * s + k + 1
    BY Places
  <2>2. e[i] = Byte(q[v], p, k) /\ f[i] = Byte(q[v], p, k)
    BY <1>1, <2>1 DEF Encodes
  <2> QED BY <2>2
<1> QED BY <1>2, <1>3, SeqEqual

\* What is written after is encoded after.
LEMMA EncodeConcat ==
  ASSUME NEW q \in Seq(Samples), NEW r \in Seq(Samples), NEW p
  PROVE  Encode(q, p) \o Encode(r, p) = Encode(q \o r, p)
<1>1. PICK n \in Nat, m \in Nat, s \in Nat \ {0} :
         n = Len(q) /\ m = Len(r) /\ s = SampleSize
  BY Constants, LenProperties
<1> DEFINE E == Encode(q, p)
           F == Encode(r, p)
<1>2. /\ q \o r \in Seq(Samples) /\ Len(q \o r) = n + m
      /\ \A i \in 1 .. n + m : (q \o r)[i] = IF i <= n THEN q[i] ELSE r[i - n]
  BY <1>1, ConcatProperties
<1>3. Encodes(E, q, p) /\ Encodes(F, r, p)
  BY EncodeEncodes
<1> HIDE DEF E, F
<1>4. PICK a \in Nat, b \in Nat : a = n * s /\ b = m * s
  OBVIOUS
<1>5. /\ E \in Seq(PlaneBytes(p)) /\ Len(E) = a
      /\ F \in Seq(PlaneBytes(p)) /\ Len(F) = b
  BY <1>1, <1>3, <1>4 DEF Encodes
<1>6. /\ E \o F \in Seq(PlaneBytes(p)) /\ Len(E \o F) = a + b
      /\ \A i \in 1 .. a + b : (E \o F)[i] = IF i <= a THEN E[i] ELSE F[i - a]
  BY <1>5, ConcatProperties
<1>7. ASSUME NEW v \in 1 .. n + m, NEW k \in 0 .. s - 1
      PROVE  (E \o F)[(v - 1) * s + k + 1] = Byte((q \o r)[v], p, k)
  <2>1. PICK i \in 1 .. a + b : i = (v - 1) * s + k + 1
    <3>1. (n + m) * s = a + b
      <4>1. (n + m) * s = n * s + m * s
        OBVIOUS
      <4> QED BY <1>4, <4>1
    <3> QED BY <3>1, PlaceOf
  <2>2. CASE v <= n
    <3>1. v \in 1 .. n
      BY <2>2
    <3>2. i \in 1 .. a
      BY <1>4, <2>1, <3>1, PlaceOf
    <3>3. E[i] = Byte(q[v], p, k)
      BY <1>1, <1>3, <2>1, <3>1 DEF Encodes
    <3>4. (E \o F)[i] = E[i]
      BY <1>6, <2>1, <3>2
    <3> QED BY <1>2, <2>1, <2>2, <3>3, <3>4
  <2>3. CASE ~(v <= n)
    <3>1. PICK w \in 1 .. m : w = v - n
      BY <2>3
    <3>2. PICK j \in 1 .. b : j = (w - 1) * s + k + 1
      BY <1>4, PlaceOf
    <3>3. i = a + j
      <4>1. v - 1 = n + (w - 1)
        BY <3>1
      <4>2. (n + (w - 1)) * s = n * s + (w - 1) * s
        OBVIOUS
      <4>3. (v - 1) * s = a + (w - 1) * s
        BY <1>4, <4>1, <4>2
      <4>4. PICK x \in Int, y \in Int : x = (v - 1) * s /\ y = (w - 1) * s
        OBVIOUS
      <4> QED BY <2>1, <3>2, <4>3, <4>4
    <3>4. F[j] = Byte(r[w], p, k)
      BY <1>1, <1>3, <3>2 DEF Encodes
    <3>5. (E \o F)[i] = F[j]
      <4>1. ~(i <= a) /\ i - a = j
        BY <3>3
      <4> QED BY <1>6, <2>1, <4>1
    <3> QED BY <1>2, <2>1, <2>3, <3>1, <3>4, <3>5
  <2> QED BY <2>2, <2>3
<1>8. Encodes(E \o F, q \o r, p)
  <2>1. (n + m) * s = a + b
    <3>1. (n + m) * s = n * s + m * s
      OBVIOUS
    <3> QED BY <1>4, <3>1
  <2> QED BY <1>1, <1>2, <1>6, <1>7, <2>1 DEF Encodes
<1> QED BY <1>2, <1>8, EncodeEncodes, EncodesOnce DEF E, F

\* A part of samples, aligned as samples are, is encoded by that part of the bytes.
LEMMA EncodeSub ==
  ASSUME NEW q \in Seq(Samples), NEW p, NEW from \in Nat, NEW n \in Nat, from + n <= Len(q)
  PROVE  SubSeq(Encode(q, p), from * SampleSize + 1, from * SampleSize + n * SampleSize)
            = Encode(SubSeq(q, from + 1, from + n), p)
<1>1. PICK l \in Nat, s \in Nat \ {0} : l = Len(q) /\ s = SampleSize
  BY Constants, LenProperties
<1> DEFINE E == Encode(q, p)
           part == SubSeq(q, from + 1, from + n)
<1>2. /\ part \in Seq(Samples) /\ Len(part) = n
      /\ \A i \in 1 .. n : part[i] = q[from + i]
  BY <1>1, PartOf
<1>3. Encodes(E, q, p)
  BY EncodeEncodes
<1>4. PICK a \in Nat, b \in Nat, c \in Nat : a = from * s /\ b = n * s /\ c = l * s
  OBVIOUS
<1>5. E \in Seq(PlaneBytes(p)) /\ Len(E) = c
  BY <1>1, <1>3, <1>4 DEF Encodes
<1>6. a + b <= c
  <2>1. (from + n) * s <= l * s
    BY <1>1, Multiples
  <2>2. (from + n) * s = from * s + n * s
    OBVIOUS
  <2> QED BY <1>4, <2>1, <2>2
<1> HIDE DEF E
<1> DEFINE D == SubSeq(E, a + 1, a + b)
<1>7. /\ D \in Seq(PlaneBytes(p)) /\ Len(D) = b
      /\ \A i \in 1 .. b : D[i] = E[a + i]
  BY <1>5, <1>6, PartOf
<1> HIDE DEF D, part
<1>8. ASSUME NEW v \in 1 .. n, NEW k \in 0 .. s - 1
      PROVE  D[(v - 1) * s + k + 1] = Byte(part[v], p, k)
  <2>1. PICK i \in 1 .. b : i = (v - 1) * s + k + 1
    BY <1>4, PlaceOf
  <2>2. PICK w \in 1 .. l : w = from + v
    BY <1>1
  <2>3. a + i = (w - 1) * s + k + 1
    <3>1. w - 1 = from + (v - 1)
      BY <2>2
    <3>2. (from + (v - 1)) * s = from * s + (v - 1) * s
      OBVIOUS
    <3>3. (w - 1) * s = a + (v - 1) * s
      BY <1>4, <3>1, <3>2
    <3>4. PICK x \in Int, y \in Int : x = (v - 1) * s /\ y = (w - 1) * s
      OBVIOUS
    <3> QED BY <2>1, <3>3, <3>4
  <2>4. E[a + i] = Byte(q[w], p, k)
    BY <1>1, <1>3, <2>3 DEF Encodes
  <2> QED BY <1>2, <1>7, <2>1, <2>2, <2>4
<1>9. Encodes(D, part, p)
  BY <1>1, <1>2, <1>4, <1>7, <1>8 DEF Encodes
<1>10. D = Encode(part, p)
  BY <1>2, <1>9, EncodeEncodes, EncodesOnce
<1> QED BY <1>1, <1>4, <1>10 DEF D, E, part


\* The sample that a byte in plane 1 tells.
LEMMA ByteTells ==
  ASSUME NEW v \in Samples
  PROVE  Byte(v, 1, 0) \div (Planes * SampleSize) = v
<1>1. PICK x \in Nat, m \in Nat \ {0}, s \in Nat \ {0} : x = v /\ m = Planes /\ s = SampleSize
  BY Constants
<1>2. PICK d \in Nat \ {0} : d = m * s
  OBVIOUS
<1>3. (x * m + 1 - 1) * s + 0 = x * d + 0
  <2>1. (x * m) * s = x * (m * s)
    OBVIOUS
  <2>2. x * m + 1 - 1 = x * m
    OBVIOUS
  <2> QED BY <1>2, <2>1, <2>2
<1>4. (x * d + 0) \div d = x
  BY Division
<1> QED BY <1>1, <1>2, <1>3, <1>4 DEF Byte

\* Samples that all planes agree on are told by their bytes.
LEMMA DecodeEncode ==
  ASSUME NEW q \in Seq(Samples), NEW bytes, bytes = [p \in 1 .. Planes |-> Encode(q, p)]
  PROVE  Decode(bytes) = q
<1>1. PICK n \in Nat, s \in Nat \ {0} : n = Len(q) /\ s = SampleSize
  BY Constants, LenProperties
<1>2. 1 \in 1 .. Planes
  BY Constants
<1>3. \A p \in 1 .. Planes : Encodes(bytes[p], q, p)
  BY EncodeEncodes
<1>4. Len(bytes[1]) = n * s
  BY <1>1, <1>2, <1>3 DEF Encodes
<1>5. (n * s) \div s = n
  <2>1. 0 \in 0 .. s - 1 /\ n * s + 0 = n * s
    OBVIOUS
  <2>2. (n * s + 0) \div s = n
    BY <2>1, Division
  <2> QED BY <2>1, <2>2
<1> DEFINE told == [i \in 1 .. n |-> SampleAt(bytes, (i - 1) * SampleSize + 1)]
<1>6. Decode(bytes) = told
  <2>1. 1 .. Len(bytes[1]) \div SampleSize = 1 .. n
    BY <1>1, <1>4, <1>5
  <2> QED BY <2>1, Zenon DEF Decode
<1>7. ASSUME NEW i \in 1 .. n  PROVE told[i] = q[i]
  <2>1. PICK first \in Nat : first = (i - 1) * s + 1
    OBVIOUS
  <2>2. PICK v \in Samples : v = q[i]
    BY <1>1, ElementOfSeq
  <2>3. ASSUME NEW p \in 1 .. Planes, NEW k \in 0 .. s - 1
        PROVE  bytes[p][first + k] = Byte(v, p, k)
    <3>1. (i - 1) * s + k + 1 = first + k
      <4>1. PICK x \in Int : x = (i - 1) * s
        OBVIOUS
      <4> QED BY <2>1, <4>1
    <3>2. bytes[p][(i - 1) * s + k + 1] = Byte(q[i], p, k)
      BY <1>1, <1>3 DEF Encodes
    <3> QED BY <2>2, <3>1, <3>2
  <2>4. bytes[1][first] \div (Planes * s) = v
    <3>1. 0 \in 0 .. s - 1 /\ first + 0 = first
      OBVIOUS
    <3>2. bytes[1][first] = Byte(v, 1, 0)
      BY <1>2, <2>3, <3>1
    <3> QED BY <1>1, <3>2, ByteTells
  <2>5. SampleAt(bytes, first) = v
    BY <1>1, <2>3, <2>4 DEF SampleAt
  <2>6. (i - 1) * SampleSize + 1 = first
    BY <1>1, <2>1
  <2> QED BY <2>2, <2>5, <2>6
<1>8. told = q
  <2>1. q = [i \in 1 .. n |-> q[i]]
    BY <1>1, LenProperties
  <2>2. told = [i \in 1 .. n |-> told[i]]
    OBVIOUS
  <2> HIDE DEF told
  <2> QED BY <1>7, <2>1, <2>2
<1> QED BY <1>6, <1>8

-----------------------------------------------------------------------------
(* One plane.                                                              *)

\* Fifo f has the bytes of samples q in plane p, and a buffer of room bytes.
Plane(f, q, p, room) ==
    /\ IsFifo(f, PlaneBytes(p)) /\ Contents(f) = Encode(q, p)
    /\ f.end \in Nat /\ f.end >= room

\* Its size.
LEMMA PlaneSize ==
  ASSUME NEW f, NEW q \in Seq(Samples), NEW p, NEW room, Plane(f, q, p, room)
  PROVE  Size(f) = Len(q) * SampleSize /\ Size(f) \in Nat /\ Size(f) <= f.end
<1>1. IsFifo(f, PlaneBytes(p)) /\ Contents(f) = Encode(q, p)
  BY DEF Plane
<1>2. Len(Contents(f)) = Size(f) /\ Size(f) \in Nat /\ Size(f) <= f.end
  BY <1>1, ContentsIsSeq, FifoBounds
<1>3. Len(Encode(q, p)) = Len(q) * SampleSize
  BY EncodeEncodes DEF Encodes
<1> QED BY <1>1, <1>2, <1>3

\* No samples, no bytes.
LEMMA EncodeEmpty ==
  ASSUME NEW p
  PROVE  <<>> \in Seq(Samples) /\ Encode(<<>>, p) = <<>>
<1>1. <<>> \in Seq(Samples) /\ Len(<<>>) = 0
  BY EmptySeq
<1>2. Encode(<<>>, p) \in Seq(PlaneBytes(p)) /\ Len(Encode(<<>>, p)) = 0 * SampleSize
  BY <1>1, EncodeEncodes DEF Encodes
<1>3. 0 * SampleSize = 0
  BY Constants
<1> QED BY <1>1, <1>2, <1>3, EmptySeq

LEMMA PlaneAlloc ==
  ASSUME NEW p, NEW size \in 0 .. IndexModulus - 1
  PROVE  Plane(Alloc(size), <<>>, p, size)
<1>1. /\ IsFifo(Alloc(size), PlaneBytes(p)) /\ Alloc(size).end = size
      /\ Size(Alloc(size)) = 0
  BY AllocIsFifo
<1>2. Contents(Alloc(size)) = <<>>
  BY <1>1, ContentsIsSeq, EmptySeq
<1>3. size \in Nat
  BY Constants
<1> QED BY <1>1, <1>2, <1>3, EncodeEmpty DEF Plane

LEMMA PlaneReset ==
  ASSUME NEW f, NEW q \in Seq(Samples), NEW p, NEW room, Plane(f, q, p, room)
  PROVE  Plane(Reset(f), <<>>, p, room)
<1>1. /\ IsFifo(Reset(f), PlaneBytes(p)) /\ Reset(f).end = f.end
      /\ Contents(Reset(f)) = <<>>
  BY ResetEmpties DEF Plane
<1> QED BY <1>1, EncodeEmpty DEF Plane

\* A larger buffer for a plane, or the one that it has.
LEMMA PlaneRealloc ==
  ASSUME NEW f, NEW q \in Seq(Samples), NEW p, NEW room \in Int, Plane(f, q, p, room),
         NEW n \in 0 .. IndexModulus - 1
  PROVE  Plane(Realloc2(f, n), q, p, n) /\ Plane(Realloc2(f, n), q, p, room)
<1>1. PICK g : g = Realloc2(f, n)
  OBVIOUS
<1>2. /\ IsFifo(g, PlaneBytes(p)) /\ Contents(g) = Contents(f)
      /\ g.end = IF f.end >= n THEN f.end ELSE n
  BY <1>1, ReallocKeeps DEF Plane
<1>3. n \in Nat /\ f.end \in Nat /\ f.end >= room
  BY Constants DEF Plane
<1>4. g.end \in Nat /\ g.end >= n /\ g.end >= room
  BY <1>2, <1>3
<1> QED BY <1>1, <1>2, <1>4 DEF Plane

LEMMA PlaneWrite ==
  ASSUME NEW f, NEW q \in Seq(Samples), NEW p, NEW room, Plane(f, q, p, room),
         NEW r \in Seq(Samples), (Len(q) + Len(r)) * SampleSize <= f.end
  PROVE  Plane(Write(f, Encode(r, p)), q \o r, p, room)
<1>1. /\ Encode(r, p) \in Seq(PlaneBytes(p)) /\ Len(Encode(r, p)) = Len(r) * SampleSize
  BY EncodeEncodes DEF Encodes
<1>2. Size(f) + Len(Encode(r, p)) <= f.end
  <2>1. PICK a \in Nat, b \in Nat, s \in Nat : a = Len(q) /\ b = Len(r) /\ s = SampleSize
    BY Constants, LenProperties
  <2>2. (a + b) * s = a * s + b * s
    OBVIOUS
  <2> QED BY <1>1, <2>1, <2>2, PlaneSize
<1>3. PICK src, g : src \in Seq(PlaneBytes(p)) /\ src = Encode(r, p) /\ g = Write(f, src)
  BY <1>1
<1>4. /\ IsFifo(g, PlaneBytes(p)) /\ g.end = f.end /\ Contents(g) = Contents(f) \o src
  BY <1>2, <1>3, WriteAll DEF Plane
<1>5. Contents(g) = Encode(q \o r, p)
  <2>1. Contents(f) = Encode(q, p)
    BY DEF Plane
  <2>2. Encode(q, p) \o Encode(r, p) = Encode(q \o r, p)
    BY EncodeConcat
  <2> QED BY <1>3, <1>4, <2>1, <2>2, Zenon
<1> QED BY <1>3, <1>4, <1>5 DEF Plane

\* What is read or peeked are the bytes of the oldest samples.
LEMMA PlaneRead ==
  ASSUME NEW f, NEW q \in Seq(Samples), NEW p, NEW room, Plane(f, q, p, room),
         NEW n \in 0 .. Len(q)
  PROVE  /\ n * SampleSize \in 0 .. Size(f)
         /\ ReadOut(f, n * SampleSize) = Encode(SubSeq(q, 1, n), p)
<1>1. PICK l \in Nat, s \in Nat \ {0}, b \in Nat :
         l = Len(q) /\ s = SampleSize /\ b = n * s
  BY Constants, LenProperties
<1>2. n * s <= l * s
  BY <1>1, Multiples
<1>3. b \in 0 .. Size(f)
  BY <1>1, <1>2, PlaneSize
<1>4. ReadOut(f, b) = SubSeq(Encode(q, p), 1, b)
  BY <1>3, ReadsOldest DEF Plane
<1>5. SubSeq(Encode(q, p), 1, b) = Encode(SubSeq(q, 1, n), p)
  <2>1. 0 \in Nat /\ n \in Nat /\ 0 + n <= Len(q)
    BY <1>1
  <2>2. SubSeq(Encode(q, p), 0 * SampleSize + 1, 0 * SampleSize + n * SampleSize)
           = Encode(SubSeq(q, 0 + 1, 0 + n), p)
    BY <2>1, EncodeSub
  <2>3. 0 * SampleSize + 1 = 1 /\ 0 * SampleSize + n * SampleSize = b /\ 0 + 1 = 1 /\ 0 + n = n
    BY <1>1
  <2> QED BY <2>2, <2>3
<1> QED BY <1>1, <1>3, <1>4, <1>5

\* What is peeked at an offset are the bytes of the samples from there.
LEMMA PlanePeek ==
  ASSUME NEW f, NEW q \in Seq(Samples), NEW p, NEW room, Plane(f, q, p, room),
         NEW from \in Nat, NEW n \in Nat, from + n <= Len(q)
  PROVE  PeekAt(f, from * SampleSize, n * SampleSize)
            = Encode(SubSeq(q, from + 1, from + n), p)
<1>1. PICK l \in Nat, s \in Nat \ {0}, a \in Nat, b \in Nat :
         l = Len(q) /\ s = SampleSize /\ a = from * s /\ b = n * s
  BY Constants, LenProperties
<1>2. a + b <= Size(f)
  <2>1. (from + n) * s <= l * s
    BY <1>1, Multiples
  <2>2. (from + n) * s = from * s + n * s
    OBVIOUS
  <2> QED BY <1>1, <2>1, <2>2, PlaneSize
<1>3. PeekAt(f, a, b) = SubSeq(Encode(q, p), a + 1, a + b)
  BY <1>2, PeeksPart DEF Plane
<1>4. SubSeq(Encode(q, p), from * SampleSize + 1, from * SampleSize + n * SampleSize)
         = Encode(SubSeq(q, from + 1, from + n), p)
  BY EncodeSub
<1> QED BY <1>1, <1>3, <1>4

LEMMA PlaneDrain ==
  ASSUME NEW f, NEW q \in Seq(Samples), NEW p, NEW room, Plane(f, q, p, room),
         NEW n \in 0 .. Len(q)
  PROVE  Plane(Drain(f, n * SampleSize), SubSeq(q, n + 1, Len(q)), p, room)
<1>1. PICK l \in Nat, s \in Nat \ {0}, b \in Nat :
         l = Len(q) /\ s = SampleSize /\ b = n * s
  BY Constants, LenProperties
<1>2. b \in 0 .. Size(f)
  BY <1>1, PlaneRead
<1>3. PICK g : g = Drain(f, b)
  OBVIOUS
<1>4. IsFifo(g, PlaneBytes(p)) /\ g.end = f.end
  BY <1>2, <1>3, DrainDrops DEF Plane
<1>5. Contents(g) = SubSeq(Encode(q, p), b + 1, Size(f))
  BY <1>2, <1>3, DrainLeaves DEF Plane
<1>6. SubSeq(Encode(q, p), b + 1, Size(f)) = Encode(SubSeq(q, n + 1, l), p)
  <2>1. PICK m \in Nat : m = l - n
    <3>1. n \in 0 .. l
      BY <1>1
    <3> QED BY <3>1
  <2>2. n \in Nat /\ n + m <= Len(q) /\ n + m = l
    BY <1>1, <2>1
  <2>3. SubSeq(Encode(q, p), n * SampleSize + 1, n * SampleSize + m * SampleSize)
           = Encode(SubSeq(q, n + 1, n + m), p)
    BY <2>1, <2>2, EncodeSub
  <2>4. n * SampleSize = b /\ n * SampleSize + m * SampleSize = Size(f)
    <3>1. n * s + m * s = (n + m) * s
      OBVIOUS
    <3> QED BY <1>1, <2>2, <3>1, PlaneSize
  <2> QED BY <2>2, <2>3, <2>4
<1> QED BY <1>1, <1>3, <1>4, <1>5, <1>6 DEF Plane

-----------------------------------------------------------------------------
(* The audio fifo.                                                         *)

\* Audio fifo a holds the samples q.
Audio(a, q) ==
    /\ a = [buf |-> a.buf, nb_samples |-> a.nb_samples,
            allocated_samples |-> a.allocated_samples]
    /\ q \in Seq(Samples) /\ a.nb_samples = Len(q) /\ a.nb_samples \in 0 .. IntMax
    /\ a.allocated_samples \in 1 .. IntMax
    /\ \A p \in 1 .. Planes :
          Plane(a.buf[p], q, p, a.allocated_samples * SampleSize)

AudioInv == af # None => \E q : Audio(af, q)

\* What all planes tell are the samples that it holds.
LEMMA AudioHolds ==
  ASSUME NEW a, NEW q, Audio(a, q)
  PROVE  Decode([p \in 1 .. Planes |-> Contents(a.buf[p])]) = q
<1>1. q \in Seq(Samples)
  BY DEF Audio
<1>2. [p \in 1 .. Planes |-> Contents(a.buf[p])] = [p \in 1 .. Planes |-> Encode(q, p)]
  BY DEF Audio, Plane
<1> QED BY <1>1, <1>2, DecodeEncode

\* The next audio fifo, and what it holds then.
LEMMA NextHolds ==
  ASSUME NoneApart, NEW q, Audio(af', q)
  PROVE  af' # None /\ Held' = q /\ AudioInv'
<1>1. af' # None
  BY DEF NoneApart, Audio
<1>2. Held' = q
  BY <1>1, AudioHolds DEF Held
<1> QED BY <1>1, <1>2 DEF AudioInv

\* The samples held now.
LEMMA NowHolds ==
  ASSUME AudioInv, af # None
  PROVE  Audio(af, Held) /\ Held \in Seq(Samples)
<1>1. PICK q : Audio(af, q)
  BY DEF AudioInv
<1>2. Held = q
  BY <1>1, AudioHolds DEF Held
<1> QED BY <1>1, <1>2 DEF Audio

\* A size that av_samples_get_buffer_size lets pass fits an int, and the bytes of
\* a plane the indices.
LEMMA BufferFits ==
  ASSUME NEW nb \in Int, ~BufferSizeRefuses(nb)
  PROVE  nb \in 1 .. IntMax /\ BufferSize(nb) \in 0 .. IndexModulus - 1
<1>1. PICK m \in Nat \ {0}, s \in Nat \ {0}, x \in Nat, i \in Nat \ {0} :
         m = Planes /\ s = SampleSize /\ x = IntMax /\ i = IndexModulus
  BY Constants
<1>2. nb > 0 /\ m * nb <= (x - m) \div s /\ x <= i * m
  BY <1>1, AudioFifoAssumption DEF BufferSizeRefuses
<1>3. PICK d \in Int : d = (x - m) \div s /\ d * s <= x - m
  <2>1. x - m = (((x - m) \div s) * s) + ((x - m) % s) /\ (x - m) % s \in 0 .. s - 1
        /\ (x - m) \div s \in Int
    OBVIOUS
  <2>2. PICK d \in Int, r \in 0 .. s - 1 : d = (x - m) \div s /\ r = (x - m) % s
    BY <2>1
  <2> QED BY <2>1, <2>2
<1>4. PICK b \in Nat : b = nb * s
  BY <1>2
<1>5. b * m <= d * s
  <2>1. (m * nb) * s <= d * s
    <3>1. m * nb \in Int
      OBVIOUS
    <3> QED BY <1>2, <1>3, <3>1, Multiples
  <2>2. (m * nb) * s = (nb * s) * m
    OBVIOUS
  <2> QED BY <1>4, <2>1, <2>2
<1>6. b < i
  <2>1. SUFFICES ASSUME i <= b  PROVE FALSE
    OBVIOUS
  <2>2. i * m <= b * m
    BY <2>1, Multiples
  <2>3. PICK y \in Int, z \in Int, w \in Int : y = i * m /\ z = b * m /\ w = d * s
    OBVIOUS
  <2> QED BY <1>2, <1>3, <1>5, <2>2, <2>3
<1>7. nb <= x
  <2>1. 1 * nb <= b /\ 1 * b <= b * m
    <3>1. 1 * nb <= s * nb
      BY <1>2, Multiples
    <3>2. 1 * b <= m * b
      BY Multiples
    <3>3. s * nb = nb * s /\ m * b = b * m
      OBVIOUS
    <3> QED BY <1>4, <3>1, <3>2, <3>3
  <2>2. PICK z \in Int, w \in Int : z = b * m /\ w = d * s
    OBVIOUS
  <2> QED BY <1>3, <1>5, <2>1, <2>2
<1> QED BY <1>1, <1>2, <1>4, <1>6, <1>7 DEF BufferSize

\* The bytes that a plane has beyond the room for n samples.
LEMMA RoomFor ==
  ASSUME NEW n \in Int, NEW m \in Int, n <= m, NEW end \in Int, end >= m * SampleSize
  PROVE  n * SampleSize <= end
<1>1. PICK s \in Nat : s = SampleSize
  BY Constants
<1>2. n * s <= m * s
  BY Multiples
<1>3. PICK x \in Int, y \in Int : x = n * s /\ y = m * s
  OBVIOUS
<1> QED BY <1>1, <1>2, <1>3

\* Writing what there is room for.
LEMMA WrittenHolds ==
  ASSUME NEW a, NEW q, Audio(a, q), NEW samples \in Seq(Samples),
         Len(q) + Len(samples) <= a.allocated_samples
  PROVE  Audio(Written(a, samples), q \o samples)
<1>1. PICK n \in Nat, m \in Nat, room \in 1 .. IntMax :
         n = Len(q) /\ m = Len(samples) /\ room = a.allocated_samples
  BY LenProperties DEF Audio
<1>2. PICK x : x = Written(a, samples)
  OBVIOUS
<1>3. x = [buf |-> [p \in 1 .. Planes |-> Write(a.buf[p], Encode(samples, p))],
           nb_samples |-> n + m, allocated_samples |-> room]
  <2>1. PICK buf : a = [buf |-> buf, nb_samples |-> n, allocated_samples |-> room]
    BY <1>1 DEF Audio
  <2>3. PICK new : new = [p \in 1 .. Planes |-> Write(a.buf[p], Encode(samples, p))]
    OBVIOUS
  <2>4. x = [a EXCEPT !.buf = new, !.nb_samples = @ + m]
    BY <1>1, <1>2, <2>3, Zenon DEF Written
  <2>5. x = [buf |-> new, nb_samples |-> n + m, allocated_samples |-> room]
    BY <2>1, <2>4
  <2> QED BY <2>3, <2>5
<1>4. /\ q \o samples \in Seq(Samples) /\ Len(q \o samples) = n + m
  BY <1>1, ConcatProperties DEF Audio
<1>5. n + m \in 0 .. IntMax
  BY <1>1, Constants
<1>6. ASSUME NEW p \in 1 .. Planes
      PROVE  Plane(x.buf[p], q \o samples, p, room * SampleSize)
  <2>1. PICK f : f = a.buf[p]
    OBVIOUS
  <2>2. Plane(f, q, p, room * SampleSize) /\ q \in Seq(Samples)
    BY <1>1, <2>1 DEF Audio
  <2>3. f.end \in Nat /\ f.end >= room * SampleSize
    BY <2>2 DEF Plane
  <2>4. (Len(q) + Len(samples)) * SampleSize <= f.end
    BY <1>1, <2>3, RoomFor
  <2>5. Plane(Write(f, Encode(samples, p)), q \o samples, p, room * SampleSize)
    BY <2>2, <2>4, PlaneWrite
  <2> QED BY <1>3, <2>1, <2>5
<1> QED BY <1>2, <1>3, <1>4, <1>5, <1>6 DEF Audio

\* Reallocation, whichever plane it fails at.
LEMMA ReallocedHolds ==
  ASSUME NEW q, Audio(af, q), NEW nb \in Int, ~BufferSizeRefuses(nb),
         NEW failing \in 1 .. Planes + 1
  PROVE  /\ Audio(Realloced(nb, failing), q)
         /\ failing > Planes => Realloced(nb, failing).allocated_samples = nb
<1>1. nb \in 1 .. IntMax /\ BufferSize(nb) \in 0 .. IndexModulus - 1
  BY BufferFits
<1>2. PICK n \in 0 .. IntMax, room \in 1 .. IntMax :
         n = af.nb_samples /\ room = af.allocated_samples
  BY DEF Audio
<1>3. PICK x : x = Realloced(nb, failing)
  OBVIOUS
<1>4. PICK now \in 1 .. IntMax : now = IF failing > Planes THEN nb ELSE room
  BY <1>1
<1>5. x = [buf |-> [p \in 1 .. Planes |->
                      IF p < failing THEN Realloc2(af.buf[p], BufferSize(nb)) ELSE af.buf[p]],
           nb_samples |-> n, allocated_samples |-> now]
  <2>1. PICK buf : af = [buf |-> buf, nb_samples |-> n, allocated_samples |-> room]
    BY <1>2 DEF Audio
  <2>2. af.buf = buf
    BY <2>1
  <2> QED BY <1>2, <1>3, <1>4, <2>1, <2>2 DEF Realloced, OnPlanes
<1>6. ASSUME NEW p \in 1 .. Planes  PROVE Plane(x.buf[p], q, p, now * SampleSize)
  <2>1. PICK f : f = af.buf[p]
    OBVIOUS
  <2>2. Plane(f, q, p, room * SampleSize) /\ q \in Seq(Samples) /\ room * SampleSize \in Int
    BY <1>2, <2>1, Constants DEF Audio
  <2>3. PICK g : g = Realloc2(f, BufferSize(nb))
    OBVIOUS
  <2>4. Plane(g, q, p, BufferSize(nb)) /\ Plane(g, q, p, room * SampleSize)
    BY <1>1, <2>2, <2>3, PlaneRealloc
  <2>5. x.buf[p] = IF p < failing THEN g ELSE f
    BY <1>5, <2>1, <2>3
  <2>6. CASE failing > Planes
    <3>1. p < failing
      BY <2>6, Constants
    <3>2. now * SampleSize = BufferSize(nb)
      BY <1>4, <2>6 DEF BufferSize
    <3> QED BY <2>4, <2>5, <3>1, <3>2
  <2>7. CASE ~(failing > Planes)
    BY <1>4, <2>2, <2>4, <2>5, <2>7
  <2> QED BY <2>6, <2>7
<1>7. Audio(x, q)
  BY <1>2, <1>5, <1>6 DEF Audio
<1>8. failing > Planes => x.allocated_samples = nb
  BY <1>4, <1>5
<1> QED BY <1>3, <1>7, <1>8

\* Draining the oldest samples.
LEMMA DrainedHolds ==
  ASSUME NEW q, Audio(af, q), NEW nb \in 0 .. Len(q)
  PROVE  Audio(Drained(nb), SubSeq(q, nb + 1, Len(q)))
<1>1. PICK n \in 0 .. IntMax, room \in 1 .. IntMax :
         n = af.nb_samples /\ room = af.allocated_samples /\ n = Len(q)
  BY DEF Audio
<1>2. PICK x : x = Drained(nb)
  OBVIOUS
<1>3. x = [buf |-> [p \in 1 .. Planes |-> Drain(af.buf[p], nb * SampleSize)],
           nb_samples |-> n - nb, allocated_samples |-> room]
  <2>1. PICK buf : af = [buf |-> buf, nb_samples |-> n, allocated_samples |-> room]
    BY <1>1 DEF Audio
  <2>2. af.buf = buf
    BY <2>1
  <2> QED BY <1>1, <1>2, <2>1, <2>2 DEF Drained, OnPlanes
<1>4. PICK rest \in Seq(Samples) : rest = SubSeq(q, nb + 1, Len(q)) /\ Len(rest) = n - nb
  <2>1. q \in Seq(Samples)
    BY DEF Audio
  <2>2. /\ SubSeq(q, nb + 1, Len(q)) \in Seq(Samples)
        /\ Len(SubSeq(q, nb + 1, Len(q))) = Len(q) - nb
    BY <2>1, SplitAt
  <2> QED BY <1>1, <2>2
<1>5. n - nb \in 0 .. IntMax
  <2>1. nb \in 0 .. n
    BY <1>1
  <2> QED BY <2>1, Constants
<1>6. ASSUME NEW p \in 1 .. Planes
      PROVE  Plane(x.buf[p], rest, p, room * SampleSize)
  <2>1. Plane(af.buf[p], q, p, room * SampleSize) /\ q \in Seq(Samples)
    BY <1>1 DEF Audio
  <2>2. Plane(Drain(af.buf[p], nb * SampleSize), rest, p, room * SampleSize)
    BY <1>4, <2>1, PlaneDrain
  <2> QED BY <1>3, <2>2
<1> QED BY <1>2, <1>3, <1>4, <1>5, <1>6 DEF Audio

-----------------------------------------------------------------------------
(* The steps, as steps of the queue.                                       *)

\* Samples are put at the end.
LEMMA Putting ==
  ASSUME Held \in Seq(Samples), NEW samples \in Seq(Samples),
         Held' = Held \o samples, result' = Ret(Len(samples))
  PROVE  Queue!Next
<1>1. PICK old, new : old = Held /\ new = Held'
  OBVIOUS
<1>2. PICK n \in Nat, m \in Nat : n = Len(old) /\ m = Len(samples)
  BY <1>1, LenProperties
<1>3. /\ old \in Seq(Samples) /\ new = old \o samples
      /\ new \in Seq(Samples) /\ Len(new) = n + m
      /\ \A i \in 1 .. n + m : new[i] = IF i <= n THEN old[i] ELSE samples[i - n]
  BY <1>1, <1>2, ConcatProperties
<1>4. SubSeq(new, 1, n) = old
  <2>1. 0 \in Nat /\ 0 + n <= Len(new) /\ 0 + 1 = 1 /\ 0 + n = n
    BY <1>3
  <2>2. /\ SubSeq(new, 0 + 1, 0 + n) \in Seq(Samples)
        /\ Len(SubSeq(new, 0 + 1, 0 + n)) = n
        /\ \A i \in 1 .. n : SubSeq(new, 0 + 1, 0 + n)[i] = new[0 + i]
    BY <1>3, <2>1, PartOf
  <2>3. \A i \in 1 .. n : SubSeq(new, 1, n)[i] = old[i]
    BY <1>3, <2>1, <2>2
  <2> QED BY <1>2, <1>3, <2>1, <2>2, <2>3, SeqEqual
<1>5. Len(new) >= Len(old) /\ Len(new) - Len(old) = Len(samples)
  BY <1>2, <1>3
<1>6. result' = Queue!Ret(Len(new) - Len(old))
  BY <1>5 DEF Ret, Queue!Ret
<1>7. Queue!Put(old, new)
  BY <1>2, <1>3, <1>4, <1>5, <1>6 DEF Queue!Put
<1> QED BY <1>1, <1>7 DEF Queue!Next

\* The oldest samples are taken, handed out or not.
LEMMA Taking ==
  ASSUME Held \in Seq(Samples), NEW n \in 0 .. Len(Held),
         Held' = SubSeq(Held, n + 1, Len(Held)),
         result' \in {Got(SubSeq(Held, 1, n)), Ret(0)}
  PROVE  Queue!Next
<1>1. PICK old, new : old = Held /\ new = Held'
  OBVIOUS
<1>2. Len(SubSeq(old, n + 1, Len(old))) = Len(old) - n
  BY <1>1, SplitAt
<1>3. Len(new) = Len(old) - n /\ new = SubSeq(old, n + 1, Len(old))
  BY <1>1, <1>2
<1>4. Len(old) - Len(new) = n /\ n >= 0
  <2>1. Len(old) \in Nat
    BY <1>1, LenProperties
  <2> QED BY <1>1, <1>3, <2>1
<1>5. result' \in {Queue!Got(SubSeq(old, 1, n)), Queue!Ret(0)}
  BY <1>1 DEF Got, Ret, Queue!Got, Queue!Ret
<1>6. Queue!Take(old, new)
  BY <1>3, <1>4, <1>5, Zenon DEF Queue!Take
<1> QED BY <1>1, <1>6 DEF Queue!Next

\* Nothing but the room changes.
LEMMA Looking ==
  ASSUME Held' = Held, result' \in {Ret(0), Refused}
  PROVE  Queue!Next
<1>1. result' \in {Queue!Ret(0), Queue!Refused}
  BY DEF Ret, Refused, Queue!Ret, Queue!Refused
<1>2. PICK old, new : old = Held /\ new = Held'
  OBVIOUS
<1>3. Queue!Look(old, new)
  BY <1>1, <1>2 DEF Queue!Look
<1> QED BY <1>2, <1>3 DEF Queue!Next

\* A look at some of the samples.
LEMMA LookingAt ==
  ASSUME Held \in Seq(Samples), Held' = Held, NEW from \in Nat, NEW n \in Nat,
         from + n <= Len(Held), result' = Got(SubSeq(Held, from + 1, from + n))
  PROVE  Queue!Next
<1>1. PICK old, new : old = Held /\ new = Held'
  OBVIOUS
<1>2. result' = Queue!Got(SubSeq(old, from + 1, from + n))
  BY <1>1 DEF Got, Queue!Got
<1>3. from \in 0 .. Len(old) /\ n \in 0 .. Len(old) /\ from + n <= Len(old)
  <2>1. Len(old) \in Nat
    BY <1>1, LenProperties
  <2> QED BY <1>1, <2>1
<1>4. Queue!Look(old, new)
  BY <1>1, <1>2, <1>3, Zenon DEF Queue!Look
<1> QED BY <1>1, <1>4 DEF Queue!Next

\* What a call of nb samples works on, at most what there is.
LEMMA SizeNow ==
  ASSUME AudioInv, af # None, NEW n \in Nat
  PROVE  /\ AvSize = Len(Held) /\ AvSize \in 0 .. IntMax /\ AvSize \in Nat
         /\ Smaller(n, AvSize) \in 0 .. Len(Held)
<1>1. PICK l \in 0 .. IntMax : l = af.nb_samples /\ l = Len(Held)
  BY NowHolds DEF Audio
<1>2. l \in Nat
  BY Constants
<1>3. Smaller(n, l) \in 0 .. l
  BY <1>2 DEF Smaller
<1> QED BY <1>1, <1>2, <1>3 DEF AvSize

\* av_audio_fifo_alloc.
LEMMA AllocStep ==
  ASSUME AudioInv, NoneApart, NEW nb \in Nat, AudioAlloc(nb)
  PROVE  AudioInv' /\ Queue!Next
<1>1. CASE result' = Refused /\ UNCHANGED af
  <2>1. AudioInv' /\ Held' = Held
    BY <1>1 DEF AudioInv, Held
  <2> QED BY <1>1, <2>1, Looking
<1>2. CASE /\ ~BufferSizeRefuses(nb)
           /\ af' = [buf |-> [p \in 1 .. Planes |-> Alloc(BufferSize(nb))],
                     nb_samples |-> 0, allocated_samples |-> nb]
           /\ result' = Ret(0)
  <2>1. nb \in 1 .. IntMax /\ BufferSize(nb) \in 0 .. IndexModulus - 1
    BY <1>2, BufferFits
  <2>2. \A p \in 1 .. Planes : Plane(af'.buf[p], <<>>, p, nb * SampleSize)
    <3>1. \A p \in 1 .. Planes : Plane(Alloc(BufferSize(nb)), <<>>, p, BufferSize(nb))
      BY <2>1, PlaneAlloc
    <3> QED BY <1>2, <3>1 DEF BufferSize
  <2>3. Audio(af', <<>>)
    <3>1. <<>> \in Seq(Samples) /\ Len(<<>>) = 0 /\ 0 \in 0 .. IntMax
      BY EmptySeq, Constants
    <3> QED BY <1>2, <2>1, <2>2, <3>1 DEF Audio
  <2>4. AudioInv' /\ Held' = <<>>
    BY <2>3, NextHolds
  <2>5. Held = <<>>
    BY DEF AudioAlloc, Held
  <2> QED BY <1>2, <2>4, <2>5, Looking
<1> QED BY <1>1, <1>2, Zenon DEF AudioAlloc

\* av_audio_fifo_free.
LEMMA FreeStep ==
  ASSUME AudioInv, AudioFree
  PROVE  AudioInv' /\ Queue!Next
<1>1. af # None /\ af' = None /\ result' = Ret(0)
  BY DEF AudioFree
<1>2. Held \in Seq(Samples) /\ Len(Held) \in Nat
  BY <1>1, NowHolds, LenProperties
<1>3. Held' = SubSeq(Held, Len(Held) + 1, Len(Held))
  <2>1. Held' = <<>>
    BY <1>1 DEF Held
  <2>2. SubSeq(Held, Len(Held) + 1, Len(Held)) = <<>>
    BY <1>2, SubSeqEmpty
  <2> QED BY <2>1, <2>2
<1>4. Len(Held) \in 0 .. Len(Held)
  BY <1>2
<1>5. AudioInv'
  BY <1>1 DEF AudioInv
<1> QED BY <1>1, <1>2, <1>3, <1>4, <1>5, Taking

\* av_audio_fifo_reset.
LEMMA ResetStep ==
  ASSUME AudioInv, NoneApart, AudioReset
  PROVE  AudioInv' /\ Queue!Next
<1>1. af # None /\ result' = Ret(0)
  BY DEF AudioReset
<1>2. Audio(af, Held) /\ Held \in Seq(Samples) /\ Len(Held) \in Nat
  BY <1>1, NowHolds, LenProperties
<1>3. PICK room \in 1 .. IntMax : room = af.allocated_samples
  BY <1>2 DEF Audio
<1>4. af' = [buf |-> [p \in 1 .. Planes |-> Reset(af.buf[p])],
             nb_samples |-> 0, allocated_samples |-> room]
  <2>1. PICK buf, n : af = [buf |-> buf, nb_samples |-> n, allocated_samples |-> room]
    BY <1>2, <1>3 DEF Audio
  <2>2. PICK new : new = [p \in 1 .. Planes |-> Reset(af.buf[p])]
    OBVIOUS
  <2>3. af' = [af EXCEPT !.buf = new, !.nb_samples = 0]
    BY <2>2 DEF AudioReset, OnPlanes
  <2>4. af' = [buf |-> new, nb_samples |-> 0, allocated_samples |-> room]
    BY <2>1, <2>3
  <2> QED BY <2>2, <2>4
<1>5. \A p \in 1 .. Planes : Plane(af'.buf[p], <<>>, p, room * SampleSize)
  BY <1>2, <1>3, <1>4, PlaneReset DEF Audio
<1>6. Audio(af', <<>>)
  <2>1. <<>> \in Seq(Samples) /\ Len(<<>>) = 0 /\ 0 \in 0 .. IntMax
    BY EmptySeq, Constants
  <2> QED BY <1>4, <1>5, <2>1 DEF Audio
<1>7. AudioInv' /\ Held' = <<>>
  BY <1>6, NextHolds
<1>8. Held' = SubSeq(Held, Len(Held) + 1, Len(Held)) /\ Len(Held) \in 0 .. Len(Held)
  BY <1>2, <1>7, SubSeqEmpty
<1> QED BY <1>1, <1>2, <1>7, <1>8, Taking

\* A plane that allocation failed for is one of the planes.
LEMMA FailingPlane ==
  ASSUME NEW nb, NEW failing \in MayFail(nb) \union {Planes + 1}
  PROVE  failing \in 1 .. Planes + 1
  BY Constants DEF MayFail

\* av_audio_fifo_realloc.
LEMMA ReallocStep ==
  ASSUME AudioInv, NoneApart, NEW nb \in Nat, AudioRealloc(nb)
  PROVE  AudioInv' /\ Queue!Next
<1>1. af # None
  BY DEF AudioRealloc
<1>2. CASE BufferSizeRefuses(nb)
  <2>1. result' = Refused /\ UNCHANGED af
    BY <1>2 DEF AudioRealloc
  <2>2. AudioInv' /\ Held' = Held
    BY <2>1 DEF AudioInv, Held
  <2> QED BY <2>1, <2>2, Looking
<1>3. CASE ~BufferSizeRefuses(nb)
  <2>1. PICK failing \in MayFail(nb) \union {Planes + 1} :
           /\ af' = Realloced(nb, failing)
           /\ result' = IF failing > Planes THEN Ret(0) ELSE Refused
    BY <1>3, Zenon DEF AudioRealloc
  <2>2. Audio(af', Held)
    BY <1>1, <1>3, <2>1, FailingPlane, NowHolds, ReallocedHolds
  <2>3. AudioInv' /\ Held' = Held
    BY <2>2, NextHolds
  <2> QED BY <2>1, <2>3, Looking
<1> QED BY <1>2, <1>3

\* av_audio_fifo_write, growing where there is no room.
LEMMA WriteStep ==
  ASSUME AudioInv, NoneApart, NEW samples \in Seq(Samples), AudioWrite(samples)
  PROVE  AudioInv' /\ Queue!Next
<1>1. af # None
  BY DEF AudioWrite
<1>2. Audio(af, Held) /\ Held \in Seq(Samples)
  BY <1>1, NowHolds
<1>3. PICK n \in Nat, l \in 0 .. IntMax, room \in 1 .. IntMax, max \in Nat :
         /\ n = Len(samples) /\ l = AvSize /\ l = Len(Held)
         /\ room = af.allocated_samples /\ max = IntMax
  BY <1>1, <1>2, Constants, LenProperties DEF Audio, AvSize
<1>4. ASSUME af' = af \/ \E nb \in Int, failing \in 1 .. Planes + 1 :
                            ~BufferSizeRefuses(nb) /\ af' = Realloced(nb, failing),
             result' = Refused
      PROVE  AudioInv' /\ Queue!Next
  <2>1. Audio(af', Held)
    BY <1>2, <1>4, ReallocedHolds
  <2>2. AudioInv' /\ Held' = Held
    BY <2>1, NextHolds
  <2> QED BY <1>4, <2>2, Looking
<1>5. ASSUME NEW a, Audio(a, Held), l + n <= a.allocated_samples,
             af' = Written(a, samples), result' = Ret(n)
      PROVE  AudioInv' /\ Queue!Next
  <2>1. Audio(af', Held \o samples)
    BY <1>3, <1>5, WrittenHolds
  <2>2. AudioInv' /\ Held' = Held \o samples
    BY <2>1, NextHolds
  <2> QED BY <1>2, <1>3, <1>5, <2>2, Putting
<1>6. CASE AvSpace >= n
  <2>1. af' = Written(af, samples) /\ result' = Ret(n)
    BY <1>3, <1>6, Zenon DEF AudioWrite
  <2>2. l + n <= af.allocated_samples
    BY <1>3, <1>6 DEF AvSpace, AvSize
  <2> QED BY <1>2, <1>5, <2>1, <2>2
<1>7. CASE ~(AvSpace >= n)
  <2> DEFINE wanted == 2 * (AvSize + n)
  <2>1. CASE IntMax \div 2 - AvSize < n \/ BufferSizeRefuses(wanted)
    <3>1. result' = Refused /\ UNCHANGED af
      BY <1>3, <1>7, <2>1, Zenon DEF AudioWrite
    <3> QED BY <1>4, <3>1
  <2>2. CASE ~(IntMax \div 2 - AvSize < n \/ BufferSizeRefuses(wanted))
    <3>1. PICK failing \in MayFail(wanted) \union {Planes + 1} :
             IF failing > Planes
             THEN af' = Written(Realloced(wanted, failing), samples) /\ result' = Ret(n)
             ELSE af' = Realloced(wanted, failing) /\ result' = Refused
      BY <1>3, <1>7, <2>2, Zenon DEF AudioWrite
    <3>2. PICK nb \in Int : nb = wanted /\ nb = 2 * (l + n)
      BY <1>3
    <3>3. failing \in 1 .. Planes + 1 /\ ~BufferSizeRefuses(nb)
      BY <2>2, <3>2, FailingPlane
    <3>4. CASE failing > Planes
      <4>1. PICK a : a = Realloced(nb, failing)
        OBVIOUS
      <4>2. Audio(a, Held) /\ a.allocated_samples = nb
        BY <1>2, <3>3, <3>4, <4>1, ReallocedHolds
      <4>3. l + n <= a.allocated_samples
        BY <1>3, <3>2, <4>2
      <4>4. af' = Written(a, samples) /\ result' = Ret(n)
        BY <3>1, <3>2, <3>4, <4>1
      <4> QED BY <1>5, <4>2, <4>3, <4>4
    <3>5. CASE ~(failing > Planes)
      BY <1>4, <3>1, <3>2, <3>3, <3>5
    <3> QED BY <3>4, <3>5
  <2> QED BY <2>1, <2>2
<1> QED BY <1>6, <1>7

\* What all planes give of some samples are those samples.
LEMMA Told ==
  ASSUME AudioInv, af # None, NEW q \in Seq(Samples), NEW bytes,
         bytes = [p \in 1 .. Planes |-> Encode(q, p)]
  PROVE  Got(Decode(bytes)) = Got(q)
  BY DecodeEncode

\* av_audio_fifo_read and av_audio_fifo_drain.
LEMMA DrainStep ==
  ASSUME AudioInv, NoneApart, NEW n \in Nat, AudioRead(n) \/ AudioDrain(n)
  PROVE  AudioInv' /\ Queue!Next
<1>1. af # None
  BY DEF AudioRead, AudioDrain
<1>2. Audio(af, Held) /\ Held \in Seq(Samples)
  BY <1>1, NowHolds
<1>3. PICK nb \in 0 .. Len(Held) : nb = Smaller(n, AvSize)
  BY <1>1, SizeNow
<1>4. af' = Drained(nb)
  BY <1>3 DEF AudioRead, AudioDrain
<1>5. AudioInv' /\ Held' = SubSeq(Held, nb + 1, Len(Held))
  <2>1. Audio(af', SubSeq(Held, nb + 1, Len(Held)))
    BY <1>2, <1>4, DrainedHolds
  <2> QED BY <2>1, NextHolds
<1>6. result' \in {Got(SubSeq(Held, 1, nb)), Ret(0)}
  <2>1. CASE AudioDrain(n)
    BY <2>1 DEF AudioDrain
  <2>2. CASE AudioRead(n)
    <3>1. result' = Got(Decode([p \in 1 .. Planes |-> ReadOut(af.buf[p], nb * SampleSize)]))
      BY <1>3, <2>2 DEF AudioRead, OnPlanes
    <3>2. \A p \in 1 .. Planes :
             ReadOut(af.buf[p], nb * SampleSize) = Encode(SubSeq(Held, 1, nb), p)
      BY <1>2, PlaneRead DEF Audio
    <3>3. SubSeq(Held, 1, nb) \in Seq(Samples)
      BY <1>2, SplitAt
    <3>4. PICK bytes : /\ bytes = [p \in 1 .. Planes |-> ReadOut(af.buf[p], nb * SampleSize)]
                       /\ bytes = [p \in 1 .. Planes |-> Encode(SubSeq(Held, 1, nb), p)]
      BY <3>2
    <3>5. Got(Decode(bytes)) = Got(SubSeq(Held, 1, nb))
      BY <1>1, <3>3, <3>4, Told
    <3> QED BY <3>1, <3>4, <3>5
  <2> QED BY <2>1, <2>2
<1> QED BY <1>2, <1>5, <1>6, Taking

\* av_audio_fifo_peek and av_audio_fifo_peek_at.
LEMMA PeekStep ==
  ASSUME AudioInv, NoneApart, NEW n \in Nat, NEW offset \in Nat,
         AudioPeek(n) \/ AudioPeekAt(n, offset)
  PROVE  AudioInv' /\ Queue!Next
<1>1. af # None /\ UNCHANGED af
  BY DEF AudioPeek, AudioPeekAt
<1>2. Audio(af, Held) /\ Held \in Seq(Samples)
  BY <1>1, NowHolds
<1>3. AudioInv' /\ Held' = Held
  BY <1>1 DEF AudioInv, Held
<1>4. PICK l \in Nat, nb \in 0 .. Len(Held) :
         l = Len(Held) /\ l = AvSize /\ nb = Smaller(n, AvSize)
  BY <1>1, SizeNow
<1>5. CASE AudioPeek(n)
  <2>1. result' = Got(Decode([p \in 1 .. Planes |-> ReadOut(af.buf[p], nb * SampleSize)]))
    BY <1>4, <1>5 DEF AudioPeek, OnPlanes, Peek
  <2>2. \A p \in 1 .. Planes :
           ReadOut(af.buf[p], nb * SampleSize) = Encode(SubSeq(Held, 1, nb), p)
    BY <1>2, <1>4, PlaneRead DEF Audio
  <2>3. SubSeq(Held, 1, nb) \in Seq(Samples)
    BY <1>2, <1>4, SplitAt
  <2>4. PICK bytes : /\ bytes = [p \in 1 .. Planes |-> ReadOut(af.buf[p], nb * SampleSize)]
                     /\ bytes = [p \in 1 .. Planes |-> Encode(SubSeq(Held, 1, nb), p)]
    BY <2>2
  <2>5. Got(Decode(bytes)) = Got(SubSeq(Held, 1, nb))
    BY <1>1, <2>3, <2>4, Told
  <2>6. 0 + 1 = 1 /\ 0 + nb = nb /\ 0 \in Nat /\ nb \in Nat /\ 0 + nb <= Len(Held)
    BY <1>4
  <2>7. result' = Got(SubSeq(Held, 0 + 1, 0 + nb))
    BY <2>1, <2>4, <2>5, <2>6
  <2> QED BY <1>2, <1>3, <2>6, <2>7, LookingAt
<1>6. CASE AudioPeekAt(n, offset)
  <2>1. CASE offset >= AvSize \/ offset > AvSize - nb
    <3>1. result' = Refused
      BY <1>4, <1>6, <2>1, Zenon DEF AudioPeekAt
    <3> QED BY <1>3, <3>1, Looking
  <2>2. CASE ~(offset >= AvSize \/ offset > AvSize - nb)
    <3>1. result' = Got(Decode([p \in 1 .. Planes |->
                            PeekAt(af.buf[p], offset * SampleSize, nb * SampleSize)]))
      BY <1>4, <1>6, <2>2 DEF AudioPeekAt, OnPlanes
    <3>2. offset + nb <= Len(Held) /\ nb \in Nat
      BY <1>4, <2>2
    <3>3. \A p \in 1 .. Planes :
             PeekAt(af.buf[p], offset * SampleSize, nb * SampleSize)
                = Encode(SubSeq(Held, offset + 1, offset + nb), p)
      BY <1>2, <3>2, PlanePeek DEF Audio
    <3>4. SubSeq(Held, offset + 1, offset + nb) \in Seq(Samples)
      BY <1>2, <3>2, PartOf
    <3>5. PICK bytes :
             /\ bytes = [p \in 1 .. Planes |->
                           PeekAt(af.buf[p], offset * SampleSize, nb * SampleSize)]
             /\ bytes = [p \in 1 .. Planes |-> Encode(SubSeq(Held, offset + 1, offset + nb), p)]
      BY <3>3
    <3>6. Got(Decode(bytes)) = Got(SubSeq(Held, offset + 1, offset + nb))
      BY <1>1, <3>4, <3>5, Told
    <3>7. result' = Got(SubSeq(Held, offset + 1, offset + nb))
      BY <3>1, <3>5, <3>6
    <3> QED BY <1>2, <1>3, <3>2, <3>7, LookingAt
  <2> QED BY <2>1, <2>2
<1> QED BY <1>5, <1>6

\* Every step keeps the invariant, and is one of the queue or changes nothing.
LEMMA StepsAreTheQueues ==
  ASSUME AudioInv, NoneApart, [Next]_vars
  PROVE  AudioInv' /\ [Queue!Next]_<<Held, result>>
<1>1. CASE UNCHANGED vars
  BY <1>1 DEF vars, AudioInv, Held
<1>2. ASSUME NEW nb \in 0 .. MaxCall, NEW samples \in [1 .. nb -> Samples], AudioWrite(samples)
      PROVE  AudioInv' /\ Queue!Next
  <2>1. nb \in Nat
    BY AudioFifoAssumption
  <2>2. samples \in Seq(Samples)
    BY <2>1, IsASeq
  <2> QED BY <1>2, <2>2, WriteStep
<1>3. ASSUME Others  PROVE AudioInv' /\ Queue!Next
  <2>1. ASSUME NEW nb \in 0 .. MaxAlloc, AudioAlloc(nb) \/ AudioRealloc(nb)
        PROVE  AudioInv' /\ Queue!Next
    <3>1. nb \in Nat
      BY AudioFifoAssumption
    <3> QED BY <2>1, <3>1, AllocStep, ReallocStep
  <2>2. ASSUME NEW nb \in 0 .. MaxCall, AudioRead(nb) \/ AudioDrain(nb)
        PROVE  AudioInv' /\ Queue!Next
    <3>1. nb \in Nat
      BY AudioFifoAssumption
    <3> QED BY <2>2, <3>1, DrainStep
  <2>3. ASSUME NEW nb \in 0 .. MaxCall, NEW offset \in 0 .. MaxCall,
               AudioPeek(nb) \/ AudioPeekAt(nb, offset)
        PROVE  AudioInv' /\ Queue!Next
    <3>1. nb \in Nat /\ offset \in Nat
      BY AudioFifoAssumption
    <3> QED BY <2>3, <3>1, PeekStep
  <2>4. 0 \in 0 .. MaxCall
    BY AudioFifoAssumption
  <2>5. CASE AudioReset \/ AudioFree
    BY <2>5, ResetStep, FreeStep
  <2> QED BY <1>3, <2>1, <2>2, <2>3, <2>4, <2>5 DEF Others
<1> QED BY <1>1, <1>2, <1>3 DEF Next

\* Some sequence of samples is what every plane holds, and every plane has the
\* room that the fifo says it has.
THEOREM PlanesInductive == ASSUME NoneApart PROVE Spec => []AudioInv
<1>1. Init => AudioInv
  BY DEF Init, AudioInv
<1>2. AudioInv /\ [Next]_vars => AudioInv'
  BY StepsAreTheQueues
<1> QED BY <1>1, <1>2, PTL DEF Spec

\* The invariant is what a run checks, with what is held named.
LEMMA InvariantSays ==
  ASSUME AudioInv
  PROVE  PlanesStayInStep
<1> SUFFICES ASSUME af # None  PROVE PlanesStayInStep
  BY DEF PlanesStayInStep, TypeOK, PlanesInStep
<1>1. Audio(af, Held) /\ Held \in Seq(Samples)
  BY NowHolds
<1>2. PICK l \in 0 .. IntMax, room \in 1 .. IntMax :
         /\ l = af.nb_samples /\ l = Len(Held) /\ room = af.allocated_samples
  BY <1>1 DEF Audio
<1>3. ASSUME NEW p \in 1 .. Planes
      PROVE  /\ IsFifo(af.buf[p], PlaneBytes(p)) /\ Size(af.buf[p]) = l * SampleSize
             /\ Contents(af.buf[p]) = Encode(Held, p)
             /\ Space(af.buf[p]) >= (room - l) * SampleSize
  <2>1. PICK f : f = af.buf[p]
    OBVIOUS
  <2>2. Plane(f, Held, p, room * SampleSize)
    BY <1>1, <1>2, <2>1 DEF Audio
  <2>3. IsFifo(f, PlaneBytes(p)) /\ Contents(f) = Encode(Held, p)
        /\ f.end \in Nat /\ f.end >= room * SampleSize
    BY <2>2 DEF Plane
  <2>4. Size(f) = l * SampleSize /\ Size(f) \in Nat
    BY <1>1, <1>2, <2>2, PlaneSize
  <2>5. f.end - Size(f) >= (room - l) * SampleSize
    <3>1. PICK s \in Nat : s = SampleSize
      BY Constants
    <3>2. (room - l) * s = room * s - l * s
      BY Constants
    <3>3. PICK x \in Int, y \in Int : x = room * s /\ y = l * s
      BY Constants
    <3> QED BY <2>3, <2>4, <3>1, <3>2, <3>3
  <2> QED BY <2>1, <2>3, <2>4, <2>5 DEF Space
<1>4. TypeOK
  BY <1>2, <1>3 DEF TypeOK, AvSize
<1>5. PlanesInStep
  <2>1. Decode([q \in 1 .. Planes |-> Contents(af.buf[q])]) = Held
    BY DEF Held
  <2>2. AvSpace = room - l
    BY <1>2 DEF AvSpace
  <2> QED BY <1>3, <2>1, <2>2 DEF PlanesInStep
<1> QED BY <1>4, <1>5 DEF PlanesStayInStep

\* The planes hold the same samples, wherever a reallocation failed, and each has
\* the room that av_audio_fifo_space promises.
THEOREM PlanesAreInStep == ASSUME NoneApart PROVE Spec => []PlanesStayInStep
<1>1. AudioInv => PlanesStayInStep
  BY InvariantSays
<1>2. Spec => []AudioInv
  BY PlanesInductive
<1> QED BY <1>1, <1>2, PTL

\* The audio fifo is a queue of samples.
THEOREM SamplesQueue == ASSUME NoneApart PROVE Spec => SamplesAreAQueue
<1>1. Init => Queue!Init
  BY DEF Init, Queue!Init, Held, Ret, Queue!Ret
<1>2. AudioInv /\ [Next]_vars => [Queue!Next]_<<Held, result>>
  BY StepsAreTheQueues
<1>3. Spec => []AudioInv
  BY PlanesInductive
<1> QED BY <1>1, <1>2, <1>3, PTL DEF Spec, SamplesAreAQueue, Queue!Spec
=============================================================================
