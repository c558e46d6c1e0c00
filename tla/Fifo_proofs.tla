---------------------------- MODULE Fifo_proofs ----------------------------
(***************************************************************************)
(* What the operators of Fifo return, for every buffer size and modulus:   *)
(* the ring of fifo.c is a queue, also when its indices overflow.          *)
(***************************************************************************)
EXTENDS Fifo, SequenceTheorems, FiniteSetTheorems, TLAPS

\* Adding to the later of two indices modulo m adds to their distance.
LEMMA Advance ==
  ASSUME NEW m \in Nat \ {0}, NEW r \in 0 .. (m - 1), NEW w \in 0 .. (m - 1),
         NEW n \in Nat, ((w - r) % m) + n < m
  PROVE  (((w + n) % m) - r) % m = ((w - r) % m) + n
<1>1. (w - r) % m = IF w < r THEN w - r + m ELSE w - r
  OBVIOUS
<1>2. n < m
  BY <1>1
<1>3. (w + n) % m = IF w + n < m THEN w + n ELSE w + n - m
  BY <1>2
<1> DEFINE v == (w + n) % m
<1>4. v \in 0 .. (m - 1)
  BY <1>2, <1>3
<1>5. (v - r) % m = IF v < r THEN v - r + m ELSE v - r
  <2> HIDE DEF v
  <2> QED BY <1>4
<1> QED BY <1>1, <1>2, <1>3, <1>5

\* Adding to the earlier one, up to the later, subtracts from it.
LEMMA Retreat ==
  ASSUME NEW m \in Nat \ {0}, NEW r \in 0 .. (m - 1), NEW w \in 0 .. (m - 1),
         NEW n \in Nat, n <= (w - r) % m
  PROVE  (w - ((r + n) % m)) % m = ((w - r) % m) - n
<1>1. (w - r) % m = IF w < r THEN w - r + m ELSE w - r
  OBVIOUS
<1>2. n < m
  BY <1>1
<1>3. (r + n) % m = IF r + n < m THEN r + n ELSE r + n - m
  BY <1>2
<1> DEFINE v == (r + n) % m
<1>4. v \in 0 .. (m - 1)
  BY <1>2, <1>3
<1>5. (w - v) % m = IF w < v THEN w - v + m ELSE w - v
  <2> HIDE DEF v
  <2> QED BY <1>4
<1> QED BY <1>1, <1>2, <1>3, <1>5

\* A remainder is below the modulus.
LEMMA ModRange ==
  ASSUME NEW m \in Nat \ {0}, NEW x \in Int
  PROVE  x % m \in 0 .. (m - 1)
  OBVIOUS

\* The facts of IsFifo that arithmetic needs.
LEMMA FifoBounds ==
  ASSUME NEW V, NEW f, IsFifo(f, V)
  PROVE  /\ f.end \in Nat /\ f.end < IndexModulus
         /\ Size(f) \in Nat /\ Size(f) <= f.end
         /\ f.rptr \in Nat /\ (f.rptr < f.end \/ f.rptr = 0)
         /\ f.wptr \in Nat
         /\ f.wptr = IF f.rptr + Size(f) >= f.end
                       THEN f.rptr + Size(f) - f.end ELSE f.rptr + Size(f)
<1>1. Size(f) \in Nat
  BY FifoAssumption DEF IsFifo, Size
<1> QED BY <1>1, FifoAssumption DEF IsFifo, Wrapped

\* A new fifo is empty.
LEMMA AllocIsFifo ==
  ASSUME NEW V, NEW n \in 0 .. (IndexModulus - 1)
  PROVE  /\ IsFifo(Alloc(n), V)
         /\ Alloc(n).end = n
         /\ Size(Alloc(n)) = 0
<1> DEFINE f == Alloc(n)
<1>1. f = [buffer |-> [k \in 0 .. (n - 1) |-> Garbage], end |-> n,
           rptr |-> 0, wptr |-> 0, rndx |-> 0, wndx |-> 0]
  BY DEF Alloc
<1>2. Size(f) = 0
  BY <1>1, FifoAssumption DEF Size
<1>3. f.buffer \in [0 .. (n - 1) -> V \union {Garbage}]
  BY <1>1
<1> QED BY <1>1, <1>2, <1>3, FifoAssumption DEF IsFifo, Wrapped

\* Contents is a sequence of Size(f) values of the ring.
LEMMA ContentsIsSeq ==
  ASSUME NEW V, NEW f, IsFifo(f, V)
  PROVE  /\ Contents(f) \in Seq(V \union {Garbage})
         /\ Len(Contents(f)) = Size(f)
         /\ \A k \in 1 .. Size(f) :
               /\ Wrapped(f, f.rptr + k - 1) \in 0 .. (f.end - 1)
               /\ Contents(f)[k] = f.buffer[Wrapped(f, f.rptr + k - 1)]
<1>0. /\ f.end \in Nat /\ Size(f) \in 0 .. f.end
      /\ f.rptr \in Nat /\ (f.rptr < f.end \/ f.rptr = 0)
  BY FifoBounds
<1>1. \A k \in 1 .. Size(f) : Wrapped(f, f.rptr + k - 1) \in 0 .. (f.end - 1)
  BY <1>0 DEF Wrapped
<1>2. \A k \in 1 .. Size(f) :
         f.buffer[Wrapped(f, f.rptr + k - 1)] \in V \union {Garbage}
  BY <1>1 DEF IsFifo
<1> QED BY <1>0, <1>1, <1>2 DEF Contents

\* Writing one unit to a fifo that has room appends it.
LEMMA WriteOne ==
  ASSUME NEW V, NEW m \in V, NEW f, IsFifo(f, V), Size(f) < f.end
  PROVE  LET g == Write(f, <<m>>)
         IN  /\ IsFifo(g, V)
             /\ g.end = f.end
             /\ Size(g) = Size(f) + 1
             /\ Contents(g) = Append(Contents(f), m)
<1> DEFINE g == Write(f, <<m>>)
           n == Size(f)
           at == f.rptr + n
<1>1. /\ f.end \in Nat \ {0} /\ f.end < IndexModulus
      /\ n \in Nat /\ n < f.end
      /\ f.rptr \in Nat /\ f.rptr < f.end
      /\ f.wptr \in Nat /\ f.wptr < f.end
      /\ f.wptr = IF at >= f.end THEN at - f.end ELSE at
  BY FifoBounds
<1>2. /\ Len(<<m>>) = 1 /\ Smaller(f.end - f.wptr, 1) = 1
  BY <1>1 DEF Smaller
<1>3. /\ g.end = f.end /\ g.rptr = f.rptr /\ g.rndx = f.rndx
      /\ g.wptr = IF f.wptr + 1 >= f.end THEN 0 ELSE f.wptr + 1
      /\ g.buffer = [f.buffer EXCEPT ![f.wptr] = m]
  <2>1. g.buffer = [k \in 0 .. (f.end - 1) |->
                      IF k = f.wptr THEN m ELSE f.buffer[k]]
    BY <1>1, <1>2 DEF Write
  <2>2. f.buffer \in [0 .. (f.end - 1) -> V \union {Garbage}]
    BY DEF IsFifo
  <2>3. g.buffer = [f.buffer EXCEPT ![f.wptr] = m]
    BY <2>1, <2>2
  <2> QED BY <1>1, <1>2, <2>3 DEF Write
<1>w. g.wndx = (f.wndx + 1) % IndexModulus
  BY DEF Write
<1> HIDE DEF g
<1>i. f.rndx \in 0 .. (IndexModulus - 1) /\ f.wndx \in 0 .. (IndexModulus - 1)
  BY DEF IsFifo
<1>4. g.wndx \in 0 .. (IndexModulus - 1) /\ Size(g) = n + 1
  <2>1. g.wndx \in 0 .. (IndexModulus - 1)
    BY <1>w, <1>i, FifoAssumption
  <2>2. ((f.wndx - f.rndx) % IndexModulus) + 1 < IndexModulus
    BY <1>1, FifoAssumption DEF Size
  <2>3. (((f.wndx + 1) % IndexModulus) - f.rndx) % IndexModulus
          = ((f.wndx - f.rndx) % IndexModulus) + 1
    <3>1. IndexModulus \in Nat \ {0} /\ 1 \in Nat
      BY FifoAssumption
    <3> QED BY ONLY <1>i, <2>2, <3>1, Advance, Zenon
  <2> QED BY <1>3, <1>w, <2>1, <2>3 DEF Size
<1>5. IsFifo(g, V)
  <2>1. g.buffer \in [0 .. (f.end - 1) -> V \union {Garbage}]
    BY <1>1, <1>3 DEF IsFifo
  <2>3. g.wptr = Wrapped(g, g.rptr + Size(g))
    BY <1>1, <1>3, <1>4 DEF Wrapped
  <2>4. /\ g.end \in 0 .. (IndexModulus - 1)
        /\ g.rptr \in Nat /\ g.wptr \in Nat /\ g.rptr < g.end
        /\ g.rndx \in 0 .. (IndexModulus - 1) /\ g.wndx \in 0 .. (IndexModulus - 1)
        /\ Size(g) <= g.end
    BY <1>1, <1>3, <1>4, <1>i, FifoAssumption
  <2> QED BY <1>3, <2>1, <2>3, <2>4 DEF IsFifo
<1>6. Contents(g) = Append(Contents(f), m)
  <2>1. \A k \in 1 .. n : /\ Wrapped(f, f.rptr + k - 1) \in 0 .. (f.end - 1)
                          /\ Wrapped(f, f.rptr + k - 1) # f.wptr
    BY <1>1 DEF Wrapped
  <2>2. \A k \in 1 .. n : g.buffer[Wrapped(g, g.rptr + k - 1)]
                            = f.buffer[Wrapped(f, f.rptr + k - 1)]
    <3> SUFFICES ASSUME NEW k \in 1 .. n
                 PROVE  g.buffer[Wrapped(g, g.rptr + k - 1)]
                          = f.buffer[Wrapped(f, f.rptr + k - 1)]
      OBVIOUS
    <3> DEFINE i == Wrapped(f, f.rptr + k - 1)
    <3>1. Wrapped(g, g.rptr + k - 1) = i
      BY <1>3 DEF Wrapped
    <3>2. i \in 0 .. (f.end - 1) /\ i # f.wptr
      BY <2>1
    <3>3. f.buffer \in [0 .. (f.end - 1) -> V \union {Garbage}]
      BY DEF IsFifo
    <3>4. g.buffer[i] = f.buffer[i]
      <4> HIDE DEF i, n
      <4> QED BY <1>3, <3>2, <3>3
    <3> QED BY <3>1, <3>4
  <2>3. g.buffer[Wrapped(g, g.rptr + (n + 1) - 1)] = m
    BY <1>1, <1>3 DEF IsFifo, Wrapped
  <2> DEFINE c == Contents(f)
             d == Contents(g)
             W == V \union {Garbage}
  <2>4. /\ c \in Seq(W) /\ Len(c) = n
        /\ \A k \in 1 .. n : c[k] = f.buffer[Wrapped(f, f.rptr + k - 1)]
    BY ContentsIsSeq
  <2>5. /\ d \in Seq(W) /\ Len(d) = n + 1
        /\ \A k \in 1 .. (n + 1) : d[k] = g.buffer[Wrapped(g, g.rptr + k - 1)]
    BY <1>4, <1>5, ContentsIsSeq
  <2> HIDE DEF c, d, n
  <2>6. /\ Append(c, m) \in Seq(W) /\ Len(Append(c, m)) = n + 1
        /\ \A k \in 1 .. n : Append(c, m)[k] = c[k]
        /\ Append(c, m)[n + 1] = m
    BY <1>1, <2>4
  <2>7. \A k \in 1 .. (n + 1) : d[k] = Append(c, m)[k]
    <3>1. \A k \in 1 .. n : d[k] = Append(c, m)[k]
      <4> SUFFICES ASSUME NEW k \in 1 .. n
                   PROVE  d[k] = Append(c, m)[k]
        OBVIOUS
      <4>1. k \in 1 .. (n + 1)
        BY <1>1
      <4> QED BY <2>2, <2>4, <2>5, <2>6, <4>1
    <3>2. d[n + 1] = Append(c, m)[n + 1]
      BY <1>1, <2>3, <2>5, <2>6
    <3>3. n \in Nat
      BY <1>1
    <3>4. ASSUME NEW k \in 1 .. (n + 1)
          PROVE  d[k] = Append(c, m)[k]
      <4>1. k \in 1 .. n \/ k = n + 1
        BY <3>3
      <4> QED BY <3>1, <3>2, <4>1
    <3> QED BY <3>4
  <2>8. d = Append(c, m)
    <3> HIDE DEF W
    <3> QED BY <2>5, <2>6, <2>7, SeqEqual
  <2> QED BY <2>8 DEF c, d, n
<1> QED BY <1>3, <1>4, <1>5, <1>6 DEF g

\* Draining drops the oldest units.
LEMMA DrainDrops ==
  ASSUME NEW V, NEW f, IsFifo(f, V), NEW n \in 0 .. Size(f)
  PROVE  LET g == Drain(f, n)
         IN  /\ IsFifo(g, V)
             /\ g.end = f.end
             /\ Size(g) = Size(f) - n
             /\ \A k \in 1 .. Size(g) : Contents(g)[k] = Contents(f)[n + k]
<1> DEFINE g == Drain(f, n)
           held == Size(f)
<1>1. /\ f.end \in Nat /\ f.end < IndexModulus
      /\ held \in Nat /\ held <= f.end /\ n \in Nat /\ n <= held
      /\ f.rptr \in Nat /\ (f.rptr < f.end \/ f.rptr = 0)
      /\ f.wptr \in Nat
      /\ f.wptr = IF f.rptr + held >= f.end THEN f.rptr + held - f.end
                                            ELSE f.rptr + held
  BY FifoBounds
<1>2. /\ g.end = f.end /\ g.wptr = f.wptr /\ g.wndx = f.wndx
      /\ g.rptr = IF f.rptr + n >= f.end THEN (f.rptr + n) - f.end
                                         ELSE f.rptr + n
      /\ g.buffer = f.buffer
  BY DEF Drain
<1>r. g.rndx = (f.rndx + n) % IndexModulus
  BY DEF Drain
<1> HIDE DEF g
<1>i. f.rndx \in 0 .. (IndexModulus - 1) /\ f.wndx \in 0 .. (IndexModulus - 1)
  BY DEF IsFifo
<1>3. g.rndx \in 0 .. (IndexModulus - 1) /\ Size(g) = held - n
  <2>1. g.rndx \in 0 .. (IndexModulus - 1)
    BY <1>1, <1>r, <1>i, FifoAssumption
  <2>2. n <= (f.wndx - f.rndx) % IndexModulus
    BY <1>1 DEF Size
  <2>3. (f.wndx - ((f.rndx + n) % IndexModulus)) % IndexModulus
          = ((f.wndx - f.rndx) % IndexModulus) - n
    <3>1. IndexModulus \in Nat \ {0} /\ n \in Nat
      BY <1>1, FifoAssumption
    <3> QED BY ONLY <1>i, <2>2, <3>1, Retreat, Zenon
  <2>4. /\ Size(g) = (f.wndx - ((f.rndx + n) % IndexModulus)) % IndexModulus
        /\ held = (f.wndx - f.rndx) % IndexModulus
    BY <1>2, <1>r, Zenon DEF Size
  <2> HIDE DEF held
  <2> QED BY <2>1, <2>3, <2>4, Zenon
<1>s. held = Size(f)
  OBVIOUS
<1> HIDE DEF held
<1>n. n \in 0 .. held
  BY <1>1
<1>4. g.rptr \in Nat /\ (g.rptr < g.end \/ g.rptr = 0)
  BY ONLY <1>1, <1>2, <1>n
<1>5. g.wptr = Wrapped(g, g.rptr + Size(g))
  BY <1>1, <1>2, <1>3 DEF Wrapped
<1>6. IsFifo(g, V)
  <2>1. g.buffer \in [0 .. (g.end - 1) -> V \union {Garbage}]
    BY <1>2 DEF IsFifo
  <2>2. /\ g.end \in 0 .. (IndexModulus - 1) /\ g.wptr \in Nat
        /\ g.rndx \in 0 .. (IndexModulus - 1) /\ g.wndx \in 0 .. (IndexModulus - 1)
        /\ Size(g) <= g.end
    BY <1>1, <1>2, <1>3, <1>i, FifoAssumption
  <2> QED BY <1>4, <1>5, <2>1, <2>2 DEF IsFifo
<1>7. ASSUME NEW k \in 1 .. Size(g)
      PROVE  Contents(g)[k] = Contents(f)[n + k]
  <2>1. n + k \in 1 .. held /\ k \in Nat \ {0} /\ k <= held - n
    BY <1>1, <1>3
  <2>2. Wrapped(g, g.rptr + k - 1) = Wrapped(f, f.rptr + (n + k) - 1)
    BY <1>1, <1>2, <2>1 DEF Wrapped
  <2>3. Contents(g)[k] = g.buffer[Wrapped(g, g.rptr + k - 1)]
    BY <1>6, ContentsIsSeq
  <2>4. Contents(f)[n + k] = f.buffer[Wrapped(f, f.rptr + (n + k) - 1)]
    BY <1>s, <2>1, ContentsIsSeq
  <2> QED BY <1>2, <2>2, <2>3, <2>4
<1> QED BY <1>s, <1>2, <1>3, <1>6, <1>7 DEF g

\* Reading one unit returns the oldest and leaves the rest.
LEMMA ReadOne ==
  ASSUME NEW V, NEW f, IsFifo(f, V), Size(f) >= 1
  PROVE  LET g == Drain(f, 1)
         IN  /\ IsFifo(g, V)
             /\ g.end = f.end
             /\ Size(g) = Size(f) - 1
             /\ ReadOut(f, 1)[1] = Head(Contents(f))
             /\ Contents(g) = Tail(Contents(f))
<1> DEFINE g == Drain(f, 1)
           c == Contents(f)
           d == Contents(g)
           W == V \union {Garbage}
<1>1. /\ f.end \in Nat /\ Size(f) \in 1 .. f.end
      /\ f.rptr \in 0 .. (f.end - 1)
  BY FifoBounds
<1>2. /\ IsFifo(g, V) /\ g.end = f.end
      /\ Size(g) = Size(f) - 1
      /\ \A k \in 1 .. Size(g) : d[k] = c[1 + k]
  BY <1>1, DrainDrops
<1> HIDE DEF g
<1>3. /\ c \in Seq(W) /\ Len(c) = Size(f)
      /\ \A k \in 1 .. Size(f) : c[k] = f.buffer[Wrapped(f, f.rptr + k - 1)]
  BY ContentsIsSeq
<1>4. d \in Seq(W) /\ Len(d) = Size(f) - 1
  BY <1>2, ContentsIsSeq
<1>5. ReadOut(f, 1)[1] = f.buffer[f.rptr]
  BY <1>1 DEF ReadOut, Smaller
<1>6. Wrapped(f, f.rptr + 1 - 1) = f.rptr
  BY <1>1 DEF Wrapped
<1> HIDE DEF c, d
<1>7. ReadOut(f, 1)[1] = Head(c)
  BY <1>1, <1>3, <1>5, <1>6
<1>8. d = Tail(c)
  <2>1. /\ Tail(c) \in Seq(W) /\ Len(Tail(c)) = Size(f) - 1
        /\ \A k \in 1 .. (Size(f) - 1) : Tail(c)[k] = c[1 + k]
    BY <1>1, <1>3
  <2>2. \A k \in 1 .. Len(d) : d[k] = Tail(c)[k]
    BY <1>1, <1>2, <1>4, <2>1
  <2> HIDE DEF W
  <2> QED BY <1>4, <2>1, <2>2, SeqEqual
<1> QED BY <1>2, <1>7, <1>8 DEF g, c, d

\* Peeking at offset k - 1 returns the k-th oldest unit.
LEMMA PeekOne ==
  ASSUME NEW V, NEW f, IsFifo(f, V), NEW k \in 1 .. Size(f)
  PROVE  PeekAt(f, k - 1, 1)[1] = Contents(f)[k]
<1>1. /\ f.end \in Nat /\ Size(f) \in 1 .. f.end /\ k \in 1 .. f.end
      /\ f.rptr \in 0 .. (f.end - 1)
  BY FifoBounds
<1>2. PeekStart(f, k - 1) = Wrapped(f, f.rptr + k - 1)
  BY <1>1 DEF PeekStart, Wrapped
<1>3. PeekStart(f, k - 1) \in 0 .. (f.end - 1)
  BY <1>1, <1>2 DEF Wrapped
<1>4. PeekAt(f, k - 1, 1)[1] = f.buffer[PeekStart(f, k - 1)]
  BY <1>1, <1>3 DEF PeekAt
<1>5. Contents(f)[k] = f.buffer[Wrapped(f, f.rptr + k - 1)]
  BY ContentsIsSeq
<1> QED BY <1>2, <1>4, <1>5

\* Writing data that fits appends it, in one chunk or in two.
LEMMA WriteAll ==
  ASSUME NEW V, NEW f, IsFifo(f, V), NEW src \in Seq(V), Size(f) + Len(src) <= f.end
  PROVE  LET g == Write(f, src)
         IN  /\ IsFifo(g, V)
             /\ g.end = f.end
             /\ Size(g) = Size(f) + Len(src)
             /\ Contents(g) = Contents(f) \o src
<1> DEFINE g == Write(f, src)
           first == Smaller(f.end - f.wptr, Len(src))
<1>0. PICK e \in Nat, r \in Nat, w \in Nat, n \in Nat, l \in Nat :
         e = f.end /\ r = f.rptr /\ w = f.wptr /\ n = Size(f) /\ l = Len(src)
  <2>1. Len(src) \in Nat
    BY LenProperties
  <2> QED BY <2>1, FifoBounds
<1>1. /\ e < IndexModulus /\ n + l <= e /\ (r < e \/ r = 0) /\ (w < e \/ w = 0)
      /\ w = IF r + n >= e THEN r + n - e ELSE r + n
  <2>1. /\ f.end < IndexModulus /\ Size(f) <= f.end /\ (f.rptr < f.end \/ f.rptr = 0)
        /\ f.wptr = IF f.rptr + Size(f) >= f.end
                      THEN f.rptr + Size(f) - f.end ELSE f.rptr + Size(f)
    BY FifoBounds
  <2>2. /\ e < IndexModulus /\ n <= e /\ n + l <= e /\ (r < e \/ r = 0)
        /\ w = IF r + n >= e THEN r + n - e ELSE r + n
    BY <1>0, <2>1
  <2>3. w < e \/ w = 0
    BY <2>2
  <2> QED BY <2>2, <2>3
<1>2. PICK a \in Nat : a = first /\ a = (IF e - w < l THEN e - w ELSE l)
  <2>1. first = IF e - w < l THEN e - w ELSE l
    BY <1>0 DEF Smaller
  <2>2. (IF e - w < l THEN e - w ELSE l) \in Nat
    BY <1>1
  <2> HIDE DEF first
  <2> QED BY <2>1, <2>2
<1>a. a <= l /\ a <= e - w
  BY <1>2
<1>3. /\ g.end = e /\ g.rptr = r /\ g.rndx = f.rndx
      /\ g.wptr = IF w + a >= e THEN l - a ELSE w + a
      /\ g.wndx = (f.wndx + l) % IndexModulus
      /\ g.buffer = [k \in 0 .. (e - 1) |->
                       IF k < l - a THEN src[a + k + 1]
                       ELSE IF k >= w /\ k < w + a THEN src[k - w + 1] ELSE f.buffer[k]]
  BY <1>0, <1>2 DEF Write
<1> HIDE DEF g
<1>i. f.rndx \in 0 .. (IndexModulus - 1) /\ f.wndx \in 0 .. (IndexModulus - 1)
  BY DEF IsFifo
<1>b. f.buffer \in [0 .. (e - 1) -> V \union {Garbage}]
  BY <1>0 DEF IsFifo
<1>s. \A k \in 1 .. l : src[k] \in V
  BY <1>0
<1>4. g.wndx \in 0 .. (IndexModulus - 1) /\ Size(g) = n + l
  <2>1. g.wndx \in 0 .. (IndexModulus - 1)
    <3>1. f.wndx + l \in Int
      BY <1>i, FifoAssumption
    <3> QED BY <1>3, <3>1, FifoAssumption, ModRange
  <2>2. ((f.wndx - f.rndx) % IndexModulus) + l < IndexModulus
    BY <1>0, <1>1, FifoAssumption DEF Size
  <2>3. (((f.wndx + l) % IndexModulus) - f.rndx) % IndexModulus
          = ((f.wndx - f.rndx) % IndexModulus) + l
    <3>1. IndexModulus \in Nat \ {0}
      BY FifoAssumption
    <3> QED BY ONLY <1>i, <2>2, <3>1, Advance, Zenon
  <2> QED BY <1>0, <1>3, <2>1, <2>3 DEF Size
<1>5. IsFifo(g, V)
  <2>1. g.buffer \in [0 .. (e - 1) -> V \union {Garbage}]
    <3>1. ASSUME NEW k \in 0 .. (e - 1)  PROVE g.buffer[k] \in V \union {Garbage}
      <4>1. CASE k < l - a
        BY <1>3, <1>s, <4>1
      <4>2. CASE ~(k < l - a) /\ k >= w /\ k < w + a
        <5>1. k - w + 1 \in 1 .. l
          BY <1>1, <1>a, <4>2
        <5> QED BY <1>3, <1>s, <4>2, <5>1
      <4>3. CASE ~(k < l - a) /\ ~(k >= w /\ k < w + a)
        BY <1>3, <1>b, <4>3
      <4> QED BY <4>1, <4>2, <4>3
    <3> QED BY <1>3, <3>1
  <2>2. g.wptr = Wrapped(g, g.rptr + Size(g)) /\ g.wptr \in Nat
    <3>1. /\ g.end = e /\ g.rptr = r /\ Size(g) = n + l
          /\ g.wptr = IF w + a >= e THEN l - a ELSE w + a
      BY <1>3, <1>4
    <3>2. (IF w + a >= e THEN l - a ELSE w + a)
             = IF r + (n + l) >= e THEN r + (n + l) - e ELSE r + (n + l)
      BY <1>1, <1>2
    <3>3. (IF w + a >= e THEN l - a ELSE w + a) \in Nat
      BY <1>a
    <3> QED BY <3>1, <3>2, <3>3 DEF Wrapped
  <2>3. /\ g.end \in 0 .. (IndexModulus - 1)
        /\ g.rptr \in Nat /\ (g.rptr < g.end \/ g.rptr = 0)
        /\ g.rndx \in 0 .. (IndexModulus - 1) /\ g.wndx \in 0 .. (IndexModulus - 1)
        /\ Size(g) <= g.end
    BY <1>1, <1>3, <1>4, <1>i, FifoAssumption
  <2> QED BY <1>3, <2>1, <2>2, <2>3 DEF IsFifo
<1> DEFINE c == Contents(f)
           d == Contents(g)
           W == V \union {Garbage}
<1>6. /\ c \in Seq(W) /\ Len(c) = n
      /\ \A k \in 1 .. n : c[k] = f.buffer[Wrapped(f, r + k - 1)]
  BY <1>0, ContentsIsSeq
<1>7. /\ d \in Seq(W) /\ Len(d) = n + l
      /\ \A k \in 1 .. (n + l) : d[k] = g.buffer[Wrapped(g, r + k - 1)]
  <2>1. g.rptr = r /\ Size(g) = n + l
    BY <1>3, <1>4
  <2> QED BY <2>1, <1>5, ContentsIsSeq
<1>8. src \in Seq(W)
  BY SeqMonotonic
<1>9. /\ c \o src \in Seq(W) /\ Len(c \o src) = n + l
      /\ \A k \in 1 .. (n + l) : (c \o src)[k] = IF k <= n THEN c[k] ELSE src[k - n]
  <2> HIDE DEF c, W
  <2> QED BY <1>0, <1>6, <1>8, ConcatProperties
<1> HIDE DEF c, d
<1>10. ASSUME NEW k \in 1 .. (n + l)  PROVE d[k] = (c \o src)[k]
  <2>1. PICK i \in 0 .. (e - 1) :
           /\ i = Wrapped(f, r + k - 1) /\ i = Wrapped(g, r + k - 1)
           /\ i = IF r + k - 1 >= e THEN r + k - 1 - e ELSE r + k - 1
    <3>1. g.end = e /\ f.end = e
      BY <1>0, <1>3
    <3> DEFINE i == IF r + k - 1 >= e THEN r + k - 1 - e ELSE r + k - 1
    <3>2. i \in 0 .. (e - 1)
      BY <1>1
    <3>3. i = Wrapped(f, r + k - 1) /\ i = Wrapped(g, r + k - 1)
      BY <3>1 DEF Wrapped
    <3> QED BY <3>2, <3>3
  <2>2. d[k] = IF i < l - a THEN src[a + i + 1]
               ELSE IF i >= w /\ i < w + a THEN src[i - w + 1] ELSE f.buffer[i]
    <3>1. d[k] = g.buffer[i]
      BY <1>7, <2>1
    <3> QED BY <1>3, <2>1, <3>1
  <2>3. CASE k <= n
    <3>1. ~(i < l - a) /\ ~(i >= w /\ i < w + a)
      BY <1>1, <1>2, <2>1, <2>3
    <3>2. d[k] = f.buffer[i]
      BY <2>2, <3>1
    <3>3. c[k] = f.buffer[i] /\ (c \o src)[k] = c[k]
      BY <1>6, <1>9, <2>1, <2>3
    <3> QED BY <3>2, <3>3
  <2>4. CASE k > n
    <3>0. (c \o src)[k] = src[k - n]
      BY <1>9, <2>4
    <3>j. PICK j \in 1 .. l : j = k - n
      BY <2>4
    <3>i. i = IF w + j - 1 >= e THEN w + j - 1 - e ELSE w + j - 1
      BY <1>1, <2>1, <3>j
    <3>1. CASE k - n <= a
      <4>1. ~(i < l - a) /\ i >= w /\ i < w + a /\ i - w + 1 = k - n
        BY <1>1, <1>2, <1>a, <3>1, <3>i, <3>j
      <4> QED BY <2>2, <3>0, <4>1
    <3>2. CASE ~(k - n <= a)
      <4>a. a = e - w /\ a < j /\ j <= l
        BY <1>2, <1>a, <3>2, <3>j
      <4>b. i = w + j - 1 - e
        <5>1. w + j - 1 >= e
          BY <4>a
        <5> QED BY <3>i, <5>1
      <4>1. i < l - a /\ a + i + 1 = k - n
        <5>1. i + 1 = j - a
          BY <4>a, <4>b
        <5>2. a + i + 1 = j
          BY <5>1
        <5> QED BY <3>j, <4>a, <5>2
      <4> QED BY <2>2, <3>0, <4>1
    <3> QED BY <3>1, <3>2
  <2>5. k <= n \/ k > n
    OBVIOUS
  <2> QED BY <2>3, <2>4, <2>5, Zenon
<1>11. d = c \o src
  <2> HIDE DEF W
  <2> QED BY <1>7, <1>9, <1>10, SeqEqual
<1> QED BY <1>0, <1>3, <1>4, <1>5, <1>11 DEF g, c, d

\* A part of the data, as a sequence of its own.
LEMMA PartOfContents ==
  ASSUME NEW V, NEW f, IsFifo(f, V), NEW from \in Nat, NEW n \in Nat, from + n <= Size(f)
  PROVE  /\ SubSeq(Contents(f), from + 1, from + n) \in Seq(V \union {Garbage})
         /\ Len(SubSeq(Contents(f), from + 1, from + n)) = n
         /\ \A k \in 1 .. n :
               SubSeq(Contents(f), from + 1, from + n)[k] = Contents(f)[from + k]
<1> DEFINE c == Contents(f)
           W == V \union {Garbage}
<1>1. c \in Seq(W) /\ Len(c) = Size(f) /\ Size(f) \in Nat
  BY ContentsIsSeq, FifoBounds
<1> HIDE DEF c, W
<1>2. \A i \in from + 1 .. from + n : c[i] \in W
  BY <1>1, ElementOfSeq
<1>3. /\ SubSeq(c, from + 1, from + n) \in Seq(W)
      /\ Len(SubSeq(c, from + 1, from + n)) = n
      /\ \A k \in 1 .. n : SubSeq(c, from + 1, from + n)[k] = c[from + 1 + k - 1]
  BY <1>2, SubSeqProperties
<1>4. \A k \in 1 .. n : from + 1 + k - 1 = from + k
  OBVIOUS
<1> QED BY <1>3, <1>4 DEF c, W

\* What is read or peeked at the start is the oldest data.
LEMMA ReadsOldest ==
  ASSUME NEW V, NEW f, IsFifo(f, V), NEW n \in 0 .. Size(f)
  PROVE  ReadOut(f, n) = SubSeq(Contents(f), 1, n)
<1> DEFINE part == SubSeq(Contents(f), 1, n)
           W == V \union {Garbage}
<1>1. PICK e \in Nat, r \in Nat, h \in Nat : e = f.end /\ r = f.rptr /\ h = Size(f)
  BY FifoBounds
<1>2. h <= e /\ (r < e \/ r = 0) /\ n \in Nat /\ n <= h
  BY <1>1, FifoBounds
<1>3. /\ part \in Seq(W) /\ Len(part) = n
      /\ \A k \in 1 .. n : part[k] = f.buffer[Wrapped(f, r + k - 1)]
  <2>1. 0 \in Nat /\ n \in Nat /\ 0 + n <= Size(f) /\ 0 + 1 = 1 /\ 0 + n = n
    BY <1>1, <1>2
  <2>2. /\ part \in Seq(W) /\ Len(part) = n
        /\ \A k \in 1 .. n : part[k] = Contents(f)[0 + k]
    <3>1. SubSeq(Contents(f), 0 + 1, 0 + n) \in Seq(V \union {Garbage})
      BY <2>1, PartOfContents, Zenon
    <3>2. /\ Len(SubSeq(Contents(f), 0 + 1, 0 + n)) = n
          /\ \A k \in 1 .. n : SubSeq(Contents(f), 0 + 1, 0 + n)[k] = Contents(f)[0 + k]
      BY <2>1, PartOfContents
    <3> QED BY <2>1, <3>1, <3>2
  <2>3. ASSUME NEW k \in 1 .. n  PROVE part[k] = f.buffer[Wrapped(f, r + k - 1)]
    <3>1. 0 + k = k /\ k \in 1 .. Size(f)
      BY <1>1, <1>2
    <3> HIDE DEF part
    <3> QED BY <1>1, <2>2, <3>1, ContentsIsSeq
  <2> QED BY <2>2, <2>3
<1> HIDE DEF part
<1>4. PICK a \in Nat : a = Smaller(f.end - f.rptr, n) /\ a = IF e - r < n THEN e - r ELSE n
  BY <1>1, <1>2 DEF Smaller
<1>5. ReadOut(f, n) = [k \in 1 .. n |-> f.buffer[IF k <= a THEN r + k - 1 ELSE k - a - 1]]
  BY <1>1, <1>4 DEF ReadOut
<1>6. \A k \in 1 .. n : Wrapped(f, r + k - 1) = IF k <= a THEN r + k - 1 ELSE k - a - 1
  BY <1>1, <1>2, <1>4 DEF Wrapped
<1>7. \A k \in 1 .. n : ReadOut(f, n)[k] = part[k]
  BY <1>3, <1>5, <1>6
<1>8. part \in [1 .. n -> W]
  BY <1>2, <1>3, LenProperties
<1> QED BY <1>5, <1>7, <1>8 DEF part

\* What is peeked at an offset is the data from there.
LEMMA PeeksPart ==
  ASSUME NEW V, NEW f, IsFifo(f, V), NEW from \in Nat, NEW n \in Nat, from + n <= Size(f)
  PROVE  PeekAt(f, from, n) = SubSeq(Contents(f), from + 1, from + n)
<1> DEFINE part == SubSeq(Contents(f), from + 1, from + n)
           W == V \union {Garbage}
<1>1. PICK e \in Nat, r \in Nat, h \in Nat : e = f.end /\ r = f.rptr /\ h = Size(f)
  BY FifoBounds
<1>2. h <= e /\ (r < e \/ r = 0) /\ from + n <= h
  BY <1>1, FifoBounds
<1>3. /\ part \in Seq(W) /\ Len(part) = n
      /\ \A k \in 1 .. n : part[k] = f.buffer[Wrapped(f, r + from + k - 1)]
  <2>2. /\ part \in Seq(W) /\ Len(part) = n
        /\ \A k \in 1 .. n : part[k] = Contents(f)[from + k]
    <3>1. SubSeq(Contents(f), from + 1, from + n) \in Seq(V \union {Garbage})
      BY PartOfContents, Zenon
    <3>2. /\ Len(SubSeq(Contents(f), from + 1, from + n)) = n
          /\ \A k \in 1 .. n :
                SubSeq(Contents(f), from + 1, from + n)[k] = Contents(f)[from + k]
      BY PartOfContents
    <3> QED BY <3>1, <3>2
  <2>3. ASSUME NEW k \in 1 .. n  PROVE part[k] = f.buffer[Wrapped(f, r + from + k - 1)]
    <3>1. from + k \in 1 .. Size(f) /\ f.rptr + (from + k) - 1 = r + from + k - 1
      BY <1>1, <1>2
    <3> HIDE DEF part
    <3>2. Contents(f)[from + k] = f.buffer[Wrapped(f, f.rptr + (from + k) - 1)]
      BY <3>1, ContentsIsSeq
    <3>3. part[k] = Contents(f)[from + k]
      BY <2>2
    <3> QED BY <3>1, <3>2, <3>3, Zenon
  <2> QED BY <2>2, <2>3
<1> HIDE DEF part
<1>4. PICK start \in Nat :
         /\ start = PeekStart(f, from)
         /\ n > 0 => start = IF r + from >= e THEN r + from - e ELSE r + from
  BY <1>1, <1>2 DEF PeekStart
<1>5. PeekAt(f, from, n) =
         [k \in 1 .. n |-> f.buffer[IF start + k - 1 >= e THEN start + k - 1 - e
                                                          ELSE start + k - 1]]
  BY <1>1, <1>4 DEF PeekAt
<1>6. \A k \in 1 .. n : Wrapped(f, r + from + k - 1) =
         IF start + k - 1 >= e THEN start + k - 1 - e ELSE start + k - 1
  BY <1>1, <1>2, <1>4 DEF Wrapped
<1>7. \A k \in 1 .. n : PeekAt(f, from, n)[k] = part[k]
  BY <1>3, <1>5, <1>6
<1>8. part \in [1 .. n -> W]
  BY <1>3, LenProperties
<1> QED BY <1>5, <1>7, <1>8 DEF part

\* The byte that peek2 points to.
LEMMA Peeks2 ==
  ASSUME NEW V, NEW f, IsFifo(f, V), NEW offs \in Nat, offs < Size(f)
  PROVE  f.buffer[Peek2(f, offs)] = Contents(f)[offs + 1]
<1>1. Peek2(f, offs) = Wrapped(f, f.rptr + (offs + 1) - 1)
  BY FifoBounds DEF Peek2, Wrapped
<1>2. offs + 1 \in 1 .. Size(f)
  BY FifoBounds
<1> QED BY <1>1, <1>2, ContentsIsSeq

\* Draining leaves the rest of the data.
LEMMA DrainLeaves ==
  ASSUME NEW V, NEW f, IsFifo(f, V), NEW n \in 0 .. Size(f)
  PROVE  Contents(Drain(f, n)) = SubSeq(Contents(f), n + 1, Size(f))
<1> DEFINE g == Drain(f, n)
           c == Contents(f)
           d == Contents(g)
           W == V \union {Garbage}
           rest == SubSeq(c, n + 1, Size(f))
<1>1. /\ IsFifo(g, V) /\ Size(g) = Size(f) - n
      /\ \A k \in 1 .. Size(g) : d[k] = c[n + k]
  BY DrainDrops
<1>2. Size(f) \in Nat /\ n \in Nat /\ n <= Size(f)
  BY FifoBounds
<1> HIDE DEF g
<1>3. /\ c \in Seq(W) /\ Len(c) = Size(f) /\ d \in Seq(W) /\ Len(d) = Size(f) - n
  BY <1>1, ContentsIsSeq
<1> HIDE DEF c, d, W
<1>4. \A i \in n + 1 .. Size(f) : c[i] \in W
  BY <1>2, <1>3, ElementOfSeq
<1>5. /\ rest \in Seq(W) /\ Len(rest) = Size(f) - n
      /\ \A k \in 1 .. Size(f) - n : rest[k] = c[n + 1 + k - 1]
  BY <1>2, <1>4, SubSeqProperties
<1> HIDE DEF rest
<1>6. \A k \in 1 .. Len(d) : d[k] = rest[k]
  <2>1. ASSUME NEW k \in 1 .. Size(f) - n  PROVE d[k] = rest[k]
    <3>1. n + 1 + k - 1 = n + k
      BY <1>2
    <3> QED BY <1>1, <1>5, <3>1
  <2> QED BY <1>3, <2>1
<1>7. d = rest
  BY <1>3, <1>5, <1>6, SeqEqual
<1> QED BY <1>7 DEF g, c, d, rest

\* A fifo that was emptied.
LEMMA ResetEmpties ==
  ASSUME NEW V, NEW f, IsFifo(f, V)
  PROVE  /\ IsFifo(Reset(f), V) /\ Reset(f).end = f.end /\ Size(Reset(f)) = 0
         /\ Contents(Reset(f)) = <<>>
<1> DEFINE g == Reset(f)
<1>1. /\ g.buffer = f.buffer /\ g.end = f.end
      /\ g.rptr = 0 /\ g.wptr = 0 /\ g.rndx = 0 /\ g.wndx = 0
  BY DEF Reset
<1> HIDE DEF g
<1>2. Size(g) = 0
  BY <1>1, FifoAssumption DEF Size
<1>3. IsFifo(g, V)
  BY <1>1, <1>2, FifoAssumption DEF IsFifo, Wrapped
<1>4. Contents(g) = <<>>
  BY <1>2, <1>3, ContentsIsSeq, EmptySeq
<1> QED BY <1>1, <1>2, <1>3, <1>4 DEF g

\* Reallocating makes a fifo larger, never smaller, and keeps its data.
LEMMA ReallocKeeps ==
  ASSUME NEW V, NEW f, IsFifo(f, V), NEW n \in 0 .. (IndexModulus - 1)
  PROVE  LET g == Realloc2(f, n)
         IN  /\ IsFifo(g, V)
             /\ g.end = IF f.end >= n THEN f.end ELSE n
             /\ Size(g) = Size(f)
             /\ Contents(g) = Contents(f)
<1>1. CASE f.end >= n
  BY <1>1 DEF Realloc2
<1>2. CASE ~(f.end >= n)
  <2> DEFINE g == Realloc2(f, n)
             data == ReadOut(f, Size(f))
             W == V \union {Garbage}
  <2>1. PICK e \in Nat, h \in Nat : e = f.end /\ h = Size(f)
    BY FifoBounds
  <2>2. h <= e /\ e < n /\ n < IndexModulus
    BY <1>2, <2>1, FifoBounds, FifoAssumption
  <2>3. /\ g.buffer = [k \in 0 .. (n - 1) |-> IF k < h THEN data[k + 1] ELSE Garbage]
        /\ g.end = n /\ g.rptr = 0 /\ g.wptr = h /\ g.rndx = 0 /\ g.wndx = h
    BY <1>2, <2>1 DEF Realloc2, Alloc
  <2> HIDE DEF g
  <2>4. Contents(f) \in Seq(W) /\ Len(Contents(f)) = h
    BY <2>1, ContentsIsSeq
  <2>5. SubSeq(Contents(f), 1, h) = Contents(f)
    <3> HIDE DEF W
    <3> QED BY <2>4, SubSeqFull
  <2>6. data = Contents(f)
    BY <2>1, <2>5, ReadsOldest
  <2> HIDE DEF data
  <2>7. \A k \in 1 .. h : data[k] \in W
    BY <2>4, <2>6, ElementOfSeq
  <2>8. Size(g) = h
    BY <2>2, <2>3, FifoAssumption DEF Size
  <2>9. IsFifo(g, V)
    <3>1. g.buffer \in [0 .. (n - 1) -> W]
      <4>1. ASSUME NEW k \in 0 .. (n - 1)  PROVE g.buffer[k] \in W
        BY <2>3, <2>7
      <4> QED BY <2>3, <4>1
    <3> QED BY <2>2, <2>3, <2>8, <3>1, FifoAssumption DEF IsFifo, Wrapped
  <2>10. /\ Contents(g) \in Seq(W) /\ Len(Contents(g)) = h
         /\ \A k \in 1 .. h : Contents(g)[k] = g.buffer[Wrapped(g, g.rptr + k - 1)]
    BY <2>8, <2>9, ContentsIsSeq
  <2>11. \A k \in 1 .. h : Contents(g)[k] = Contents(f)[k]
    <3>1. ASSUME NEW k \in 1 .. h  PROVE Contents(g)[k] = data[k]
      <4>1. Wrapped(g, g.rptr + k - 1) = k - 1 /\ k - 1 \in 0 .. (n - 1) /\ k - 1 < h
        BY <2>2, <2>3 DEF Wrapped
      <4>2. g.buffer[k - 1] = data[k - 1 + 1]
        BY <2>3, <4>1
      <4> QED BY <2>10, <4>1, <4>2
    <3> QED BY <2>6, <3>1
  <2>12. Contents(g) = Contents(f)
    <3> HIDE DEF W
    <3> QED BY <2>4, <2>10, <2>11, SeqEqual
  <2> QED BY <1>2, <2>1, <2>2, <2>3, <2>8, <2>9, <2>12 DEF g
<1> QED BY <1>1, <1>2

\* What av_fifo_grow asks for, when it does not refuse, is room enough, and
\* fits the indices, although the sum and the double may not.
LEMMA GrowsEnough ==
  ASSUME NEW V, NEW f, IsFifo(f, V), NEW n \in 0 .. (IndexModulus - 1), ~GrowRefuses(f, n)
  PROVE  /\ GrowSize(f, n) \in 0 .. (IndexModulus - 1)
         /\ GrowSize(f, n) >= f.end /\ GrowSize(f, n) >= n + Size(f)
<1>1. PICK m \in Nat \ {0}, e \in Nat, h \in Nat : m = IndexModulus /\ e = f.end /\ h = Size(f)
  BY FifoBounds, FifoAssumption
<1>2. h <= e /\ e < m /\ n \in Nat /\ n < m
  BY <1>1, FifoBounds
<1>3. n + h < m
  <2>1. (n + h) % m >= n
    BY <1>1, <1>2 DEF GrowRefuses
  <2>2. n + h >= m => (n + h) % m = n + h - m
    BY <1>2
  <2> QED BY <1>2, <2>1, <2>2
<1>4. PICK d \in 0 .. (m - 1) : d = (2 * e) % m
  BY ModRange
<1>5. GrowSize(f, n) = IF e >= n + h THEN e ELSE IF n + h > d THEN n + h ELSE d
  BY <1>1, <1>4 DEF GrowSize
<1> QED BY <1>1, <1>2, <1>3, <1>4, <1>5

\* A sequence is its first elements and the others.
LEMMA SplitAt ==
  ASSUME NEW V, NEW s \in Seq(V), NEW n \in 0 .. Len(s)
  PROVE  /\ SubSeq(s, 1, n) \in Seq(V) /\ Len(SubSeq(s, 1, n)) = n
         /\ SubSeq(s, n + 1, Len(s)) \in Seq(V)
         /\ Len(SubSeq(s, n + 1, Len(s))) = Len(s) - n
         /\ SubSeq(s, 1, n) \o SubSeq(s, n + 1, Len(s)) = s
<1>1. Len(s) \in Nat /\ n \in Nat /\ n <= Len(s)
  BY LenProperties
<1>2. \A i \in 1 .. Len(s) : s[i] \in V
  BY ElementOfSeq
<1>3. \A i \in 1 .. n : s[i] \in V
  BY <1>1, <1>2
<1>4. \A i \in n + 1 .. Len(s) : s[i] \in V
  BY <1>1, <1>2
<1>5. SubSeq(s, 1, n) \in Seq(V) /\ Len(SubSeq(s, 1, n)) = n
  BY <1>1, <1>3, SubSeqProperties
<1>6. SubSeq(s, n + 1, Len(s)) \in Seq(V) /\ Len(SubSeq(s, n + 1, Len(s))) = Len(s) - n
  BY <1>1, <1>4, SubSeqProperties
<1>7. SubSeq(s, 1, n) \o SubSeq(s, n + 1, Len(s)) = SubSeq(s, 1, Len(s))
  <2>1. 1 \in 1 .. Len(s) + 1 /\ n \in 1 - 1 .. Len(s) /\ Len(s) \in n .. Len(s)
    BY <1>1
  <2> QED BY <2>1, ConcatAdjacentSubSeq
<1>8. SubSeq(s, 1, Len(s)) = s
  BY SubSeqFull
<1> QED BY <1>5, <1>6, <1>7, <1>8

\* Data went from a source to the end of a fifo, and w is what came of them.
Moved(V, f, src, w) ==
    /\ IsFifo(w.fifo, V) /\ w.fifo.end = f.end
    /\ w.src \in Seq(V) /\ Len(w.src) <= Len(src)
    /\ Size(w.fifo) + Len(w.src) = Size(f) + Len(src)
    /\ Contents(w.fifo) \o w.src = Contents(f) \o src

\* A turn of the writing loop moves data from the source to the end of the fifo.
LEMMA TurnMoves ==
  ASSUME NEW V, NEW w, IsFifo(w.fifo, V), w.src \in Seq(V),
         Size(w.fifo) + Len(w.src) <= w.fifo.end, NEW k \in Nat,
         NEW x, x = WriteTurn(w, k)
  PROVE  Moved(V, w.fifo, w.src, x)
<1>1. PICK f, src : f = w.fifo /\ src = w.src
  OBVIOUS
<1>2. /\ IsFifo(f, V) /\ src \in Seq(V) /\ Len(src) \in Nat
      /\ Size(f) + Len(src) <= f.end /\ Size(f) \in Nat
  <2>1. IsFifo(f, V) /\ src \in Seq(V) /\ Size(f) + Len(src) <= f.end
    BY <1>1
  <2> QED BY <2>1, FifoBounds, LenProperties
<1> DEFINE len  == Smaller(f.end - f.wptr, Len(src))
           puts == Smaller(k, len)
<1>3. CASE w.stopped \/ src = <<>> \/ puts = 0
  <2>1. x.fifo = f /\ x.src = src
    BY <1>1, <1>3 DEF WriteTurn
  <2> QED BY <1>1, <1>2, <2>1 DEF Moved
<1>4. CASE ~(w.stopped \/ src = <<>> \/ puts = 0)
  <2> DEFINE head == SubSeq(src, 1, puts)
             tail == SubSeq(src, puts + 1, Len(src))
             g    == Write(f, head)
  <2>1. x.fifo = g /\ x.src = tail
    BY <1>1, <1>4 DEF WriteTurn
  <2>2. puts \in 0 .. Len(src)
    <3>1. /\ f.end \in Nat /\ Size(f) \in Nat /\ Size(f) <= f.end
          /\ f.rptr \in Nat /\ (f.rptr < f.end \/ f.rptr = 0) /\ f.wptr \in Nat
          /\ f.wptr = IF f.rptr + Size(f) >= f.end
                        THEN f.rptr + Size(f) - f.end ELSE f.rptr + Size(f)
      BY <1>2, FifoBounds
    <3>2. f.wptr <= f.end
      BY <3>1
    <3>3. f.end - f.wptr \in Nat
      BY <3>1, <3>2
    <3>4. len \in 0 .. Len(src)
      BY <1>2, <3>3 DEF Smaller
    <3> HIDE DEF len
    <3> QED BY <1>2, <3>4 DEF Smaller
  <2> HIDE DEF puts
  <2>3. /\ head \in Seq(V) /\ Len(head) = puts
        /\ tail \in Seq(V) /\ Len(tail) = Len(src) - puts
        /\ head \o tail = src
    BY <1>2, <2>2, SplitAt
  <2>4. Size(f) + Len(head) <= f.end /\ puts \in Nat /\ puts <= Len(src)
    BY <1>2, <2>2, <2>3, FifoBounds
  <2> HIDE DEF head, tail
  <2>5. /\ IsFifo(g, V) /\ g.end = f.end /\ Size(g) = Size(f) + puts
        /\ Contents(g) = Contents(f) \o head
    BY <1>2, <2>3, <2>4, WriteAll
  <2> HIDE DEF g
  <2>6. Contents(g) \o tail = Contents(f) \o src
    <3> DEFINE W == V \union {Garbage}
    <3>1. Contents(f) \in Seq(W)
      BY <1>2, ContentsIsSeq
    <3>2. head \in Seq(W) /\ tail \in Seq(W)
      BY <2>3, SeqMonotonic
    <3> HIDE DEF W
    <3>3. PICK c \in Seq(W), s \in Seq(W), t \in Seq(W) : c = Contents(f) /\ s = head /\ t = tail
      BY <3>1, <3>2, Zenon
    <3>4. (c \o s) \o t = c \o (s \o t)
      BY ConcatAssociative
    <3> QED BY <2>3, <2>5, <3>3, <3>4, Zenon
  <2>7. Size(g) + Len(tail) = Size(f) + Len(src) /\ Len(tail) <= Len(src)
    BY <1>2, <2>3, <2>4, <2>5
  <2> QED BY <1>1, <2>1, <2>3, <2>5, <2>6, <2>7 DEF Moved
<1> QED BY <1>3, <1>4

\* A set of numbers has a least one.
LEMMA LeastOf ==
  ASSUME NEW T, T \subseteq Nat, T # {}
  PROVE  \E x \in T : \A y \in T : x <= y
<1> DEFINE Below == {0 .. (k - 1) : k \in T}
<1>1. Below \subseteq FiniteSubsetsOf(Nat) /\ Below # {}
  <2>1. ASSUME NEW k \in T  PROVE 0 .. (k - 1) \in FiniteSubsetsOf(Nat)
    <3>1. 0 \in Int /\ k - 1 \in Int
      OBVIOUS
    <3>2. IsFiniteSet(0 .. (k - 1))
      BY <3>1, FS_Interval, Zenon
    <3>3. 0 .. (k - 1) \in SUBSET Nat
      OBVIOUS
    <3> QED BY <3>2, <3>3, Zenon DEF FiniteSubsetsOf
  <2> QED BY <2>1
<1>2. PICK B \in Below : \A C \in Below : <<C, B>> \notin StrictSubsetOrdering(Nat)
  BY <1>1, FS_StrictSubsetOrderingWellFounded, WFMin, Zenon
<1>3. PICK x \in T : B = 0 .. (x - 1)
  OBVIOUS
<1>4. ASSUME NEW y \in T, ~(x <= y)  PROVE FALSE
  <2>1. y < x
    BY <1>4
  <2>2. 0 .. (y - 1) \subseteq 0 .. (x - 1) /\ 0 .. (y - 1) # 0 .. (x - 1)
    <3>1. y \in 0 .. (x - 1) /\ y \notin 0 .. (y - 1)
      BY <2>1
    <3> QED BY <2>1, <3>1
  <2>3. <<0 .. (y - 1), B>> \in StrictSubsetOrdering(Nat)
    <3>1. 0 .. (y - 1) \in SUBSET Nat /\ 0 .. (x - 1) \in SUBSET Nat
      OBVIOUS
    <3> QED BY <1>3, <2>2, <3>1 DEF StrictSubsetOrdering
  <2> QED BY <1>2, <2>3
<1> QED BY <1>4

\* Induction, for a set: what zero has and every successor inherits.
LEMMA InductOn ==
  ASSUME NEW T, 0 \in T, \A n \in Nat : n \in T => n + 1 \in T
  PROVE  \A n \in Nat : n \in T
<1> SUFFICES ASSUME Nat \ T # {}  PROVE FALSE
  OBVIOUS
<1>1. PICK x \in Nat \ T : \A y \in Nat \ T : x <= y
  <2>1. Nat \ T \subseteq Nat
    OBVIOUS
  <2> QED BY <2>1, LeastOf, Zenon
<1>2. x # 0 /\ x - 1 \in Nat /\ x - 1 + 1 = x
  BY <1>1
<1>3. x - 1 \in T
  BY <1>1, <1>2
<1> QED BY <1>1, <1>2, <1>3

\* The turns of the writing loop: the recursion of WriteBy has a solution.
LEMMA TurnsExist ==
  ASSUME NEW f, NEW src, NEW answers \in Seq(Nat)
  PROVE  \E turn :
           /\ turn = [k \in 0 .. Len(answers) |->
                        IF k = 0 THEN [fifo |-> f, src |-> src, stopped |-> FALSE]
                                 ELSE WriteTurn(turn[k - 1], answers[k])]
           /\ WriteBy(f, src, answers) = turn[Len(answers)]
<1> DEFINE n == Len(answers)
           first == [fifo |-> f, src |-> src, stopped |-> FALSE]
           Turns(g, k) == g = [i \in 0 .. k |->
                                 IF i = 0 THEN first ELSE WriteTurn(g[i - 1], answers[i])]
           T == {k \in Nat : \E g : Turns(g, k)}
<1> HIDE DEF first
<1>1. 0 \in T
  <2>1. Turns([i \in 0 .. 0 |-> first], 0)
    OBVIOUS
  <2> QED BY <2>1
<1>2. ASSUME NEW k \in Nat, k \in T  PROVE k + 1 \in T
  <2>1. PICK g : Turns(g, k)
    BY <1>2
  <2> DEFINE h == [i \in 0 .. k + 1 |->
                     IF i = k + 1 THEN WriteTurn(g[k], answers[k + 1]) ELSE g[i]]
  <2>2. Turns(h, k + 1)
    <3>1. ASSUME NEW i \in 0 .. k + 1
          PROVE  h[i] = IF i = 0 THEN first ELSE WriteTurn(h[i - 1], answers[i])
      <4>1. CASE i = k + 1
        <5>1. i # 0 /\ i - 1 = k /\ k \in 0 .. k + 1 /\ k # k + 1
          BY <4>1
        <5>2. h[k] = g[k]
          BY <5>1
        <5> QED BY <4>1, <5>1, <5>2
      <4>2. CASE i # k + 1 /\ i # 0
        <5>1. i \in 0 .. k /\ i - 1 \in 0 .. k + 1 /\ i - 1 # k + 1
          BY <4>2
        <5>2. h[i - 1] = g[i - 1] /\ h[i] = g[i]
          BY <4>2, <5>1
        <5>3. g[i] = WriteTurn(g[i - 1], answers[i])
          BY <2>1, <4>2, <5>1
        <5> QED BY <4>2, <5>2, <5>3
      <4>3. CASE i = 0
        <5>1. i \in 0 .. k /\ i # k + 1
          BY <4>3
        <5>2. h[i] = g[i] /\ g[i] = first
          BY <2>1, <4>3, <5>1
        <5> QED BY <4>3, <5>2
      <4> QED BY <4>1, <4>2, <4>3
    <3> QED BY <3>1
  <2> HIDE DEF h, Turns
  <2> QED BY <2>2
<1>3. n \in T
  <2> HIDE DEF T
  <2>1. n \in Nat
    BY LenProperties
  <2> QED BY <1>1, <1>2, <2>1, InductOn
<1>4. PICK g : Turns(g, n)
  BY <1>3
<1> DEFINE turn == CHOOSE h : Turns(h, n)
<1>5. Turns(turn, n)
  BY <1>4, Zenon
<1>6. WriteBy(f, src, answers) = turn[n]
  BY Zenon DEF WriteBy, first
<1> HIDE DEF turn
<1> QED BY <1>5, <1>6 DEF first

\* However the callback answers, what it put is appended and the rest is kept.
LEMMA WritesBy ==
  ASSUME NEW V, NEW f, IsFifo(f, V), NEW src \in Seq(V), Size(f) + Len(src) <= f.end,
         NEW answers \in Seq(Nat), NEW w, w = WriteBy(f, src, answers)
  PROVE  Moved(V, f, src, w)
<1> DEFINE n == Len(answers)
           first == [fifo |-> f, src |-> src, stopped |-> FALSE]
<1>1. PICK turn :
        /\ turn = [k \in 0 .. n |-> IF k = 0 THEN first
                                    ELSE WriteTurn(turn[k - 1], answers[k])]
        /\ w = turn[n]
  BY TurnsExist
<1>2. n \in Nat
  BY LenProperties
<1> DEFINE T == {k \in Nat : k <= n => Moved(V, f, src, turn[k])}
<1>3. 0 \in T
  <2>1. turn[0].fifo = f /\ turn[0].src = src
    BY <1>1, <1>2
  <2>2. Len(src) \in Nat
    BY LenProperties
  <2>3. Moved(V, f, src, turn[0])
    BY <2>1, <2>2 DEF Moved
  <2> QED BY <2>3
<1>t. \A i \in 0 .. n :
         turn[i] = IF i = 0 THEN first ELSE WriteTurn(turn[i - 1], answers[i])
  <2> HIDE DEF n, first
  <2> QED BY <1>1
<1>4. ASSUME NEW k \in Nat, k \in T  PROVE k + 1 \in T
  <2> SUFFICES ASSUME k + 1 <= n  PROVE Moved(V, f, src, turn[k + 1])
    OBVIOUS
  <2>1. Moved(V, f, src, turn[k]) /\ k <= n
    BY <1>2, <1>4
  <2>2. turn[k + 1] = WriteTurn(turn[k], answers[k + 1]) /\ answers[k + 1] \in Nat
    <3>1. k + 1 \in 0 .. n /\ k + 1 \in 1 .. n /\ k + 1 # 0 /\ k + 1 - 1 = k
      BY <1>2
    <3>2. answers[k + 1] \in Nat
      BY <3>1, ElementOfSeq
    <3> HIDE DEF n, first
    <3> QED BY <1>t, <3>1, <3>2
  <2>3. PICK v, a, x : v = turn[k] /\ a = answers[k + 1] /\ x = turn[k + 1]
    OBVIOUS
  <2>4. /\ IsFifo(v.fifo, V) /\ v.fifo.end = f.end
        /\ v.src \in Seq(V) /\ Len(v.src) <= Len(src)
        /\ Size(v.fifo) + Len(v.src) = Size(f) + Len(src)
        /\ Contents(v.fifo) \o v.src = Contents(f) \o src
    BY <2>1, <2>3 DEF Moved
  <2>5. Size(v.fifo) + Len(v.src) <= v.fifo.end /\ a \in Nat /\ x = WriteTurn(v, a)
    BY <2>2, <2>3, <2>4
  <2>6. Moved(V, v.fifo, v.src, x)
    BY <2>4, <2>5, TurnMoves
  <2>7. /\ IsFifo(x.fifo, V) /\ x.fifo.end = v.fifo.end
        /\ x.src \in Seq(V) /\ Len(x.src) <= Len(v.src)
        /\ Size(x.fifo) + Len(x.src) = Size(v.fifo) + Len(v.src)
        /\ Contents(x.fifo) \o x.src = Contents(v.fifo) \o v.src
    BY <2>6 DEF Moved
  <2>8. Len(x.src) <= Len(src)
    <3>1. Len(x.src) \in Nat /\ Len(v.src) \in Nat /\ Len(src) \in Nat
      BY <2>4, <2>7, LenProperties
    <3> QED BY <2>4, <2>7, <3>1
  <2>9. Moved(V, f, src, x)
    BY <2>4, <2>7, <2>8 DEF Moved
  <2> QED BY <2>3, <2>9
<1>5. n \in T
  <2> HIDE DEF T
  <2> QED BY <1>2, <1>3, <1>4, InductOn
<1> QED BY <1>1, <1>2, <1>5
=============================================================================
