-------------------------- MODULE Utilities_proofs --------------------------
(***************************************************************************)
(* The invariants of libavutil/mem.c, dynarray.h and bprint.c, for any     *)
(* limits, sizes and lengths: the growing arrays and blocks have the room  *)
(* they are taken to have, the overlapping copy repeats what lies before   *)
(* it, and a string buffer has the first of what was printed and its end;  *)
(* and that of dict.c and opt.c, for any dictionaries, objects and texts:  *)
(* each string has one owner, whatever fails.                              *)
(*                                                                         *)
(* The loops are recursive functions over their turns.  That such a        *)
(* function exists, and that what each turn keeps holds after all of them, *)
(* is proved with sets of numbers: one that is not all of Nat leaves out a *)
(* least number (LeastOf, InductOn, LoopExists, LoopKeeps).                *)
(***************************************************************************)
EXTENDS Options, BPrint, Mem, FiniteSetTheorems, SequenceTheorems, WellFoundedInduction, TLAPS

\* A set of numbers has a least one.
LEMMA LeastOf ==
  ASSUME NEW T, T \subseteq Nat, T # {}
  PROVE  \E x \in T : \A y \in T : x <= y
<1> DEFINE Below == {0 .. (k - 1) : k \in T}
<1>1. Below \subseteq FiniteSubsetsOf(Nat) /\ Below # {}
  <2>1. ASSUME NEW k \in T  PROVE 0 .. (k - 1) \in FiniteSubsetsOf(Nat)
    <3>1. 0 \in Int /\ k - 1 \in Int
      OBVIOUS
    <3>2. IsFiniteSet(0 .. (k - 1))
      BY <3>1, FS_Interval, Zenon
    <3>3. 0 .. (k - 1) \in SUBSET Nat
      OBVIOUS
    <3> QED BY <3>2, <3>3, Zenon DEF FiniteSubsetsOf
  <2> QED BY <2>1
<1>2. PICK B \in Below : \A C \in Below : <<C, B>> \notin StrictSubsetOrdering(Nat)
  BY <1>1, FS_StrictSubsetOrderingWellFounded, WFMin, Zenon
<1>3. PICK x \in T : B = 0 .. (x - 1)
  OBVIOUS
<1>4. ASSUME NEW y \in T, ~(x <= y)  PROVE FALSE
  <2>1. y < x
    BY <1>4
  <2>2. 0 .. (y - 1) \subseteq 0 .. (x - 1) /\ 0 .. (y - 1) # 0 .. (x - 1)
    <3>1. y \in 0 .. (x - 1) /\ y \notin 0 .. (y - 1)
      BY <2>1
    <3> QED BY <2>1, <3>1
  <2>3. <<0 .. (y - 1), B>> \in StrictSubsetOrdering(Nat)
    <3>1. 0 .. (y - 1) \in SUBSET Nat /\ 0 .. (x - 1) \in SUBSET Nat
      OBVIOUS
    <3> QED BY <1>3, <2>2, <3>1 DEF StrictSubsetOrdering
  <2> QED BY <1>2, <2>3
<1> QED BY <1>4

\* Induction, for a set: what zero has and every successor inherits.
LEMMA InductOn ==
  ASSUME NEW T, 0 \in T, \A n \in Nat : n \in T => n + 1 \in T
  PROVE  \A n \in Nat : n \in T
<1> SUFFICES ASSUME Nat \ T # {}  PROVE FALSE
  OBVIOUS
<1>1. PICK x \in Nat \ T : \A y \in Nat \ T : x <= y
  <2>1. Nat \ T \subseteq Nat
    OBVIOUS
  <2> QED BY <2>1, LeastOf, Zenon
<1>2. x # 0 /\ x - 1 \in Nat /\ x - 1 + 1 = x
  BY <1>1
<1>3. x - 1 \in T
  BY <1>1, <1>2
<1> QED BY <1>1, <1>2, <1>3

\* What the first state of a loop has and every turn keeps, all its states have.
LEMMA LoopKeeps ==
  ASSUME NEW n \in Nat, NEW S, NEW turn, turn[0] \in S[0],
         \A k \in 1 .. n : turn[k - 1] \in S[k - 1] => turn[k] \in S[k]
  PROVE  \A k \in 0 .. n : turn[k] \in S[k]
<1> DEFINE T == {k \in Nat : k <= n => turn[k] \in S[k]}
<1>1. 0 \in T
  OBVIOUS
<1>2. ASSUME NEW k \in Nat, k \in T  PROVE k + 1 \in T
  <2> SUFFICES ASSUME k + 1 <= n  PROVE turn[k + 1] \in S[k + 1]
    OBVIOUS
  <2>1. k + 1 \in 1 .. n /\ (k + 1) - 1 = k /\ turn[k] \in S[k]
    BY <1>2
  <2> QED BY <2>1
<1>3. \A k \in Nat : k \in T
  <2> HIDE DEF T
  <2> QED BY <1>1, <1>2, InductOn
<1> QED BY <1>3

\* The states g of a loop of n turns, where next[k] is what the k-th turn makes of a
\* state of S[k - 1].
IsLoop(n, S, first, next, g) ==
    /\ g = [k \in 0 .. n |-> IF k = 0 THEN first ELSE next[k][g[k - 1]]]
    /\ g[0] = first /\ \A k \in 1 .. n : g[k] = next[k][g[k - 1]]
    /\ \A k \in 0 .. n : g[k] \in S[k]

LEMMA LoopExists ==
  ASSUME NEW n \in Nat, NEW S, NEW next, NEW first \in S[0],
         \A k \in 1 .. n : \A s \in S[k - 1] : next[k][s] \in S[k]
  PROVE  \E g : IsLoop(n, S, first, next, g)
<1> DEFINE Turns(g, k) == /\ g = [i \in 0 .. k |-> IF i = 0 THEN first ELSE next[i][g[i - 1]]]
                          /\ g[k] \in S[k]
           T == {k \in Nat : k <= n => \E g : Turns(g, k)}
<1>1. 0 \in T
  <2>1. Turns([i \in 0 .. 0 |-> first], 0)
    OBVIOUS
  <2> QED BY <2>1
<1>2. ASSUME NEW k \in Nat, k \in T  PROVE k + 1 \in T
  <2> SUFFICES ASSUME k + 1 <= n  PROVE \E g : Turns(g, k + 1)
    OBVIOUS
  <2>1. PICK g : Turns(g, k)
    BY <1>2
  <2> DEFINE h == [i \in 0 .. k + 1 |-> IF i = k + 1 THEN next[k + 1][g[k]] ELSE g[i]]
  <2>2. ASSUME NEW i \in 0 .. k + 1
        PROVE  h[i] = IF i = 0 THEN first ELSE next[i][h[i - 1]]
    <3>1. CASE i = k + 1
      <4>1. i # 0 /\ i - 1 = k /\ k \in 0 .. k + 1 /\ k # k + 1
        BY <3>1
      <4> QED BY <3>1, <4>1
    <3>2. CASE i # k + 1 /\ i # 0
      <4>1. i \in 0 .. k /\ i - 1 \in 0 .. k + 1 /\ i - 1 # k + 1
        BY <3>2
      <4>2. h[i - 1] = g[i - 1] /\ h[i] = g[i]
        BY <3>2, <4>1
      <4>3. g[i] = next[i][g[i - 1]]
        BY <2>1, <3>2, <4>1
      <4> QED BY <3>2, <4>2, <4>3
    <3>3. CASE i = 0
      <4>1. i \in 0 .. k /\ i # k + 1
        BY <3>3
      <4>2. h[i] = g[i] /\ g[i] = first
        BY <2>1, <3>3, <4>1
      <4> QED BY <3>3, <4>2
    <3> QED BY <3>1, <3>2, <3>3
  <2>3. h[k + 1] \in S[k + 1]
    <3>1. k + 1 \in 1 .. n /\ (k + 1) - 1 = k /\ h[k + 1] = next[k + 1][g[k]]
      OBVIOUS
    <3>2. g[k] \in S[k]
      BY <2>1
    <3> QED BY <3>1, <3>2
  <2> HIDE DEF h
  <2>4. PICK H : H = h
    OBVIOUS
  <2>5. H = [i \in 0 .. k + 1 |-> IF i = 0 THEN first ELSE next[i][H[i - 1]]]
    BY <2>2, <2>4 DEF h
  <2>6. Turns(H, k + 1)
    BY <2>3, <2>4, <2>5
  <2> QED BY <2>6
<1>3. n \in T
  <2> HIDE DEF T
  <2> QED BY <1>1, <1>2, InductOn
<1>4. PICK g : g = [i \in 0 .. n |-> IF i = 0 THEN first ELSE next[i][g[i - 1]]]
  BY <1>3
<1>5. g[0] = first /\ \A k \in 1 .. n : g[k] = next[k][g[k - 1]]
  BY <1>4
<1>6. \A k \in 1 .. n : g[k - 1] \in S[k - 1] => g[k] \in S[k]
  BY <1>5
<1>7. \A k \in 0 .. n : g[k] \in S[k]
  BY <1>5, <1>6, LoopKeeps
<1> QED BY <1>4, <1>5, <1>7 DEF IsLoop

-----------------------------------------------------------------------------
\* The memory m is m0 but for what was copied from dst to before at, where each
\* byte is the one so many bytes before it.
Repeats(m0, m, dst, back, at) ==
    m = [i \in DOMAIN m0 |-> IF i \in dst .. at - 1 THEN m[i - back] ELSE m0[i]]

\* A copy of at most back bytes goes on with it.
LEMMA PieceRepeats ==
  ASSUME NEW N \in Nat, NEW m0, DOMAIN m0 = 1 .. N, NEW m, NEW dst \in Int, NEW at \in Int,
         NEW back \in Nat, 1 <= dst - back, dst <= at,
         NEW n \in Nat, n <= back, at + n - 1 <= N,
         Repeats(m0, m, dst, back, at),
         NEW r, r = Piece([m |-> m, at |-> at], back, n)
  PROVE  Repeats(m0, r.m, dst, back, at + n) /\ r.at = at + n
<1>1. r.m = Memcpy(m, at, at - back, n) /\ r.at = at + n
  BY DEF Piece
<1>2. DOMAIN m = 1 .. N
  BY DEF Repeats
<1>3. r.m = [i \in 1 .. N |-> IF i \in at .. at + n - 1 THEN m[i - back] ELSE m[i]]
  <2>1. ~(at - (at - back) < n)
    OBVIOUS
  <2>2. r.m = [i \in 1 .. N |-> IF i \in at .. at + n - 1 THEN m[i - at + (at - back)] ELSE m[i]]
    BY <1>1, <1>2, <2>1 DEF Memcpy
  <2>3. \A i \in 1 .. N : i - at + (at - back) = i - back
    OBVIOUS
  <2> QED BY <2>2, <2>3
<1>4. PICK w : w = r.m
  OBVIOUS
<1>5. ASSUME NEW i \in 1 .. N
      PROVE  w[i] = IF i \in dst .. at + n - 1 THEN w[i - back] ELSE m0[i]
  <2>0. m[i] = IF i \in dst .. at - 1 THEN m[i - back] ELSE m0[i]
    BY DEF Repeats
  <2>1. CASE i \in at .. at + n - 1
    <3>1. i - back \in 1 .. N /\ i - back \notin at .. at + n - 1
      BY <2>1
    <3> QED BY <1>3, <1>4, <2>1, <3>1
  <2>2. CASE i \in dst .. at - 1
    <3>1. i - back \in 1 .. N /\ i - back \notin at .. at + n - 1 /\ i \notin at .. at + n - 1
      BY <2>2
    <3> QED BY <1>3, <1>4, <2>0, <2>2, <3>1
  <2>3. CASE i \notin dst .. at + n - 1
    BY <1>3, <1>4, <2>0, <2>3
  <2> QED BY <2>1, <2>2, <2>3
<1>6. w = [i \in 1 .. N |-> IF i \in dst .. at + n - 1 THEN w[i - back] ELSE m0[i]]
  BY <1>3, <1>4, <1>5
<1>7. (at + n) - 1 = at + n - 1
  OBVIOUS
<1> QED BY <1>1, <1>4, <1>6, <1>7 DEF Repeats


\* The first back bytes before dst come again before at.
Comes(m0, m, dst, back, at) ==
    \A j \in 0 .. back - 1 : m[at - back + j] = m0[dst - back + j]

\* So do all bytes from there to at, and may be copied as one.
LEMMA DoubledRepeats ==
  ASSUME NEW N \in Nat, NEW m0, DOMAIN m0 = 1 .. N, NEW m, NEW dst \in Int, NEW at \in Int,
         NEW back \in Nat, 1 <= dst - back, dst <= at, NEW b \in Nat, b = at - (dst - back),
         NEW n \in Nat, n <= b, at + n - 1 <= N,
         Repeats(m0, m, dst, back, at), Comes(m0, m, dst, back, at),
         NEW r, r = Piece([m |-> m, at |-> at], b, n)
  PROVE  /\ Repeats(m0, r.m, dst, back, at + n) /\ r.at = at + n
         /\ n = b => Comes(m0, r.m, dst, back, at + n)
<1>1. r.m = Memcpy(m, at, at - b, n) /\ r.at = at + n
  BY DEF Piece
<1>2. DOMAIN m = 1 .. N
  BY DEF Repeats
<1>3. r.m = [i \in 1 .. N |-> IF i \in at .. at + n - 1 THEN m[i - b] ELSE m[i]]
  <2>1. ~(at - (at - b) < n)
    OBVIOUS
  <2>2. r.m = [i \in 1 .. N |-> IF i \in at .. at + n - 1 THEN m[i - at + (at - b)] ELSE m[i]]
    BY <1>1, <1>2, <2>1 DEF Memcpy
  <2>3. \A i \in 1 .. N : i - at + (at - b) = i - b
    OBVIOUS
  <2> QED BY <2>2, <2>3
<1>4. PICK w : w = r.m
  OBVIOUS
<1>5. ASSUME NEW i \in 1 .. N
      PROVE  w[i] = IF i \in dst .. at + n - 1 THEN w[i - back] ELSE m0[i]
  <2>0. \A k \in 1 .. N : m[k] = IF k \in dst .. at - 1 THEN m[k - back] ELSE m0[k]
    BY DEF Repeats
  <2>1. CASE i \in at .. at + n - 1 /\ i - back < at
    <3>1. PICK j \in 0 .. back - 1 : j = i - at
      BY <2>1
    <3>2. m[at - back + j] = m0[dst - back + j]
      BY DEF Comes
    <3>3. at - back + j = i - back /\ dst - back + j = i - b
      BY <3>1
    <3>4. /\ i - back \in 1 .. N /\ i - back \notin at .. at + n - 1
          /\ i - b \in 1 .. N /\ i - b \notin dst .. at - 1
      BY <2>1, <3>1
    <3>5. w[i] = m[i - b] /\ w[i - back] = m[i - back] /\ m[i - b] = m0[i - b]
      BY <1>3, <1>4, <2>0, <2>1, <3>4
    <3> QED BY <2>1, <3>2, <3>3, <3>5
  <2>2. CASE i \in at .. at + n - 1 /\ ~(i - back < at)
    <3>1. /\ i - back \in at .. at + n - 1 /\ i - back \in 1 .. N
          /\ i - b \in dst .. at - 1 /\ i - b \in 1 .. N
      BY <2>2
    <3>2. w[i] = m[i - b] /\ w[i - back] = m[(i - back) - b] /\ m[i - b] = m[(i - b) - back]
      BY <1>3, <1>4, <2>0, <2>2, <3>1
    <3>3. (i - back) - b = (i - b) - back
      OBVIOUS
    <3> QED BY <2>2, <3>2, <3>3
  <2>3. CASE i \in dst .. at - 1
    <3>1. i - back \in 1 .. N /\ i - back \notin at .. at + n - 1 /\ i \notin at .. at + n - 1
      BY <2>3
    <3> QED BY <1>3, <1>4, <2>0, <2>3, <3>1
  <2>4. CASE i \notin dst .. at + n - 1
    BY <1>3, <1>4, <2>0, <2>4
  <2> QED BY <2>1, <2>2, <2>3, <2>4
<1>6. w = [i \in 1 .. N |-> IF i \in dst .. at + n - 1 THEN w[i - back] ELSE m0[i]]
  BY <1>3, <1>4, <1>5
<1>7. (at + n) - 1 = at + n - 1
  OBVIOUS
<1>8. ASSUME n = b, NEW j \in 0 .. back - 1
      PROVE  w[(at + n) - back + j] = m0[dst - back + j]
  <2>1. PICK i \in Int : i = (at + n) - back + j
    OBVIOUS
  <2>2. i \in at .. at + n - 1 /\ i \in 1 .. N /\ i - b = at - back + j
    BY <1>8, <2>1
  <2>3. w[i] = m[i - b]
    BY <1>3, <1>4, <2>2
  <2> QED BY <2>1, <2>2, <2>3 DEF Comes
<1> QED BY <1>1, <1>4, <1>6, <1>7, <1>8 DEF Repeats, Comes


LEMMA PieceTyped ==
  ASSUME NEW N \in Nat, NEW V, Junk \in V, NEW m \in [1 .. N -> V], NEW at \in Int,
         NEW b \in Nat, 1 <= at - b, NEW n \in Nat, n <= b, at + n - 1 <= N,
         NEW s, s = [m |-> m, at |-> at]
  PROVE  Piece(s, b, n) \in [m : [1 .. N -> V], at : {at + n}]
<1>1. Piece(s, b, n) = [m |-> Memcpy(m, at, at - b, n), at |-> at + n]
  BY DEF Piece
<1>2. ~(at - (at - b) < n) /\ DOMAIN m = 1 .. N
  OBVIOUS
<1>3. Memcpy(m, at, at - b, n)
        = [i \in 1 .. N |-> IF i \in at .. at + n - 1 THEN m[i - at + (at - b)] ELSE m[i]]
  BY <1>2 DEF Memcpy
<1>4. \A i \in at .. at + n - 1 : i - at + (at - b) \in 1 .. N
  OBVIOUS
<1>5. \A i \in 1 .. N : (IF i \in at .. at + n - 1 THEN m[i - at + (at - b)] ELSE m[i]) \in V
  BY <1>4
<1>6. Memcpy(m, at, at - b, n) \in [1 .. N -> V]
  BY <1>3, <1>5
<1> QED BY <1>1, <1>6

LEMMA DoublingRepeats ==
  ASSUME NEW N \in Nat, NEW V, Junk \in V, NEW m0 \in [1 .. N -> V],
         NEW dst \in Int, NEW back \in Nat, 1 <= back, 1 <= dst - back,
         NEW cnt \in Nat, dst + cnt - 1 <= N,
         NEW src, src = dst - back
  PROVE  Repeats(m0, Doubling(m0, dst, src, cnt), dst, back, dst + cnt)
<1> DEFINE first == [m |-> m0, at |-> dst]
           Good(k, s) == /\ Repeats(m0, s.m, dst, back, s.at)
                         /\ \/ s.at = dst + cnt
                            \/ s.at >= dst + k /\ Comes(m0, s.m, dst, back, s.at)
           S == [k \in 0 .. cnt |->
                   {s \in [m : [1 .. N -> V], at : dst .. dst + cnt] : Good(k, s)}]
           next == [k \in 1 .. cnt |-> [s \in S[k - 1] |-> Doubled(s, src, dst + cnt)]]
<1>1. first \in S[0]
  <2>1. m0 = [i \in DOMAIN m0 |-> IF i \in dst .. dst - 1 THEN m0[i - back] ELSE m0[i]]
    OBVIOUS
  <2>2. Good(0, first)
    BY <2>1 DEF Repeats, Comes
  <2> QED BY <2>2
<1>2. ASSUME NEW k \in 1 .. cnt, NEW s \in S[k - 1], NEW r, r = Doubled(s, src, dst + cnt)
      PROVE  r \in S[k]
  <2>1. PICK m \in [1 .. N -> V], at \in dst .. dst + cnt : s = [m |-> m, at |-> at]
    OBVIOUS
  <2>2. /\ Repeats(m0, m, dst, back, at)
        /\ at = dst + cnt \/ (at >= dst + (k - 1) /\ Comes(m0, m, dst, back, at))
    BY <2>1
  <2>3. PICK b \in Nat : b = at - src
    OBVIOUS
  <2>4. PICK n \in Nat : n = Smaller(b, dst + cnt - at)
    <3>1. Smaller(b, dst + cnt - at) \in Nat
      <4> HIDE DEF S
      <4> QED BY DEF Smaller
    <3> QED BY <3>1
  <2>5. /\ n <= b /\ at + n - 1 <= N /\ at + n <= dst + cnt
        /\ n = b \/ at + n = dst + cnt
        /\ 1 <= at - b /\ at \in Int
    BY <2>3, <2>4 DEF Smaller
  <2>p. r = Piece([m |-> m, at |-> at], b, n)
    <3>1. r = Piece(s, at - src, Smaller(at - src, dst + cnt - at))
      BY <1>2, <2>1 DEF Doubled
    <3> QED BY <2>1, <2>3, <2>4, <3>1
  <2> HIDE DEF S, next, Good, first
  <2>6. r = [m |-> r.m, at |-> at + n] /\ r.m \in [1 .. N -> V]
    <3>1. N \in Nat /\ Junk \in V /\ m \in [1 .. N -> V] /\ at \in Int /\ b \in Nat /\ n \in Nat
      BY <2>5
    <3>2. 1 <= at - b /\ n <= b /\ at + n - 1 <= N
      BY <2>5
    <3>3. r \in [m : [1 .. N -> V], at : {at + n}]
      <4>1. Piece(s, b, n) \in [m : [1 .. N -> V], at : {at + n}]
        BY <2>1, <3>1, <3>2, PieceTyped
      <4> QED BY <2>1, <2>p, <4>1
    <3> QED BY <3>3
  <2>7. Repeats(m0, r.m, dst, back, at + n) /\ (n = b /\ at # dst + cnt => Comes(m0, r.m, dst, back, at + n))
    <3>1. CASE at = dst + cnt
      <4>1. n = 0
        BY <2>3, <2>4, <3>1 DEF Smaller
      <4>2. r.m = m
        <5>1. r.m = Memcpy(m, at, at - b, 0)
          BY <2>p, <4>1 DEF Piece
        <5>2. ~(at - (at - b) < 0) /\ \A i \in 1 .. N : i \notin at .. at + 0 - 1
          OBVIOUS
        <5> QED BY <5>1, <5>2 DEF Memcpy
      <4> QED BY <2>2, <3>1, <4>1, <4>2
    <3>2. CASE at # dst + cnt
      <4>1. Comes(m0, m, dst, back, at) /\ Repeats(m0, m, dst, back, at)
        BY <2>2, <3>2
      <4>2. b = at - (dst - back) /\ DOMAIN m0 = 1 .. N /\ dst <= at
        BY <2>3
      <4>3. /\ Repeats(m0, r.m, dst, back, at + n)
            /\ n = b => Comes(m0, r.m, dst, back, at + n)
        BY <2>5, <2>p, <4>1, <4>2, DoubledRepeats
      <4> QED BY <4>3
    <3> QED BY <3>1, <3>2
  <2>8. Good(k, r)
    <3>1. CASE at + n = dst + cnt
      BY <2>6, <2>7, <3>1 DEF Good
    <3>2. CASE at + n # dst + cnt
      <4>1. n = b /\ at # dst + cnt /\ b >= 1
        BY <2>3, <2>4, <2>5, <3>2
      <4>2. at + n >= dst + k
        BY <2>2, <4>1
      <4> QED BY <2>6, <2>7, <4>1, <4>2 DEF Good
    <3> QED BY <3>1, <3>2
  <2>9. at + n \in dst .. dst + cnt
    BY <2>5
  <2> QED BY <2>6, <2>8, <2>9 DEF S
<1> HIDE DEF S, first
<1>3. \A k \in 1 .. cnt : \A s \in S[k - 1] : next[k][s] \in S[k]
  BY <1>2
<1>n. PICK N2 : N2 = next
  OBVIOUS
<1>m. PICK g : IsLoop(cnt, S, first, N2, g)
  <2>1. \A k \in 1 .. cnt : \A s \in S[k - 1] : N2[k][s] \in S[k]
    BY <1>3, <1>n
  <2> HIDE DEF next, Good
  <2> QED BY <1>1, <2>1, LoopExists
<1>4. /\ g = [k \in 0 .. cnt |-> IF k = 0 THEN first ELSE N2[k][g[k - 1]]]
      /\ \A k \in 0 .. cnt : g[k] \in S[k]
  BY <1>m DEF IsLoop
<1> DEFINE Turns(t) == t = [k \in 0 .. cnt |-> IF k = 0 THEN [m |-> m0, at |-> dst]
                                                ELSE Doubled(t[k - 1], src, dst + cnt)]
<1>8. \E t : Turns(t)
  <2>1. ASSUME NEW k \in 1 .. cnt
        PROVE  N2[k][g[k - 1]] = Doubled(g[k - 1], src, dst + cnt)
    <3>1. g[k - 1] \in S[k - 1]
      <4>1. k - 1 \in 0 .. cnt
        OBVIOUS
      <4> QED BY <1>4, <4>1
    <3> QED BY <1>n, <3>1
  <2>2. Turns(g)
    <3>1. \A k \in 0 .. cnt : (IF k = 0 THEN first ELSE N2[k][g[k - 1]])
                              = (IF k = 0 THEN first ELSE Doubled(g[k - 1], src, dst + cnt))
      BY <2>1
    <3>2. g = [k \in 0 .. cnt |-> IF k = 0 THEN first ELSE Doubled(g[k - 1], src, dst + cnt)]
      BY <1>4, <3>1
    <3> QED BY <3>2 DEF first
  <2> QED BY <2>2
<1> DEFINE turn == CHOOSE t : Turns(t)
<1>9. Turns(turn)
  <2> HIDE DEF Turns
  <2> QED BY <1>8
<1>10. Doubling(m0, dst, src, cnt) = turn[cnt].m
  BY Zenon DEF Doubling
<1> HIDE DEF turn
<1>11. turn[0] = first /\ \A k \in 1 .. cnt : turn[k] = Doubled(turn[k - 1], src, dst + cnt)
  BY <1>9 DEF first
<1>12. turn[cnt] \in S[cnt]
  <2>1. \A k \in 1 .. cnt : turn[k - 1] \in S[k - 1] => turn[k] \in S[k]
    BY <1>2, <1>11
  <2>2. \A k \in 0 .. cnt : turn[k] \in S[k]
    BY <1>1, <1>11, <2>1, LoopKeeps
  <2> QED BY <2>2
<1>13. turn[cnt].at = dst + cnt /\ Repeats(m0, turn[cnt].m, dst, back, turn[cnt].at)
  <2>1. PICK c : c = turn[cnt]
    OBVIOUS
  <2>2. S[cnt] = {s \in [m : [1 .. N -> V], at : dst .. dst + cnt] : Good(cnt, s)}
    <3>1. cnt \in 0 .. cnt
      OBVIOUS
    <3> HIDE DEF Good
    <3> QED BY <3>1 DEF S
  <2>3. c \in [m : [1 .. N -> V], at : dst .. dst + cnt] /\ Good(cnt, c)
    <3> HIDE DEF S, Good
    <3> QED BY <1>12, <2>1, <2>2
  <2>4. c.at = dst + cnt
    <3>1. PICK x \in dst .. dst + cnt : x = c.at
      BY <2>3
    <3> QED BY <2>3, <3>1
  <2> QED BY <2>1, <2>3, <2>4
<1> QED BY <1>10, <1>13


\* Words made of the bytes before dst repeat them.
LEMMA WordsRepeat ==
  ASSUME NEW N \in Nat, NEW m0, DOMAIN m0 = 1 .. N,
         NEW dst \in Int, NEW back \in 2 .. 4, 1 <= dst - back,
         NEW words \in Nat, dst + words - 1 <= N,
         NEW w, w = [i \in DOMAIN m0 |-> IF i \in dst .. dst + words - 1
                                         THEN m0[dst - back + ((i - dst) % back)] ELSE m0[i]]
  PROVE  Repeats(m0, w, dst, back, dst + words)
<1>1. ASSUME NEW i \in dst .. dst + words - 1
      PROVE  w[i] = w[i - back] /\ i \in 1 .. N
  <2>1. i \in 1 .. N /\ i - back \in 1 .. N
    OBVIOUS
  <2>2. w[i] = m0[dst - back + ((i - dst) % back)]
    BY <2>1
  <2>3. PICK k \in Nat : k = i - dst
    OBVIOUS
  <2>4. CASE k < back
    <3>1. k % back = k
      BY <2>4
    <3>2. i - back \notin dst .. dst + words - 1 /\ dst - back + k = i - back
      BY <2>3, <2>4
    <3>3. w[i - back] = m0[i - back]
      BY <2>1, <3>2
    <3> QED BY <2>1, <2>2, <2>3, <3>1, <3>2, <3>3
  <2>5. CASE ~(k < back)
    <3>1. i - back \in dst .. dst + words - 1 /\ (i - back) - dst = k - back
      BY <2>3, <2>5
    <3>2. (k - back) % back = k % back
      <4>1. CASE back = 2
        BY <2>5, <4>1
      <4>2. CASE back = 3
        BY <2>5, <4>2
      <4>3. CASE back = 4
        BY <2>5, <4>3
      <4> QED BY <4>1, <4>2, <4>3
    <3>3. w[i - back] = m0[dst - back + (((i - back) - dst) % back)]
      BY <2>1, <3>1
    <3> QED BY <2>1, <2>2, <2>3, <3>1, <3>2, <3>3
  <2> QED BY <2>4, <2>5
<1>2. ASSUME NEW i \in 1 .. N
      PROVE  w[i] = IF i \in dst .. (dst + words) - 1 THEN w[i - back] ELSE m0[i]
  <2>1. (dst + words) - 1 = dst + words - 1
    OBVIOUS
  <2> QED BY <1>1, <2>1
<1>3. w = [i \in 1 .. N |-> w[i]]
  OBVIOUS
<1> HIDE DEF Repeats
<1>4. PICK W : W = w
  OBVIOUS
<1>5. W = [i \in 1 .. N |-> IF i \in dst .. (dst + words) - 1 THEN W[i - back] ELSE m0[i]]
  BY <1>2, <1>3, <1>4
<1> QED BY <1>4, <1>5 DEF Repeats

\* Bytes are copied one by one where back is less than the bytes that are left.
LEMMA FillRepeats ==
  ASSUME NEW N \in Nat, NEW V, Junk \in V, NEW m0 \in [1 .. N -> V],
         NEW dst \in Int, NEW back \in 2 .. 4, 1 <= dst - back,
         NEW cnt \in Nat, dst + cnt - 1 <= N
  PROVE  Repeats(m0, Fill(m0, dst, back, cnt), dst, back, dst + cnt)
<1>1. PICK words \in Nat : words = 4 * (cnt \div 4) /\ words <= cnt
  OBVIOUS
<1>2. PICK filled : filled = [i \in DOMAIN m0 |-> IF i \in dst .. dst + words - 1
                                   THEN m0[dst - back + ((i - dst) % back)] ELSE m0[i]]
  OBVIOUS
<1>3. dst + words - 1 <= N /\ DOMAIN m0 = 1 .. N
  BY <1>1
<1>4. Repeats(m0, filled, dst, back, dst + words)
  BY <1>2, <1>3, WordsRepeat
<1>5. filled \in [1 .. N -> V]
  <2>1. \A i \in dst .. dst + words - 1 : dst - back + ((i - dst) % back) \in 1 .. N
    <3> SUFFICES ASSUME NEW i \in dst .. dst + words - 1
                 PROVE  dst - back + ((i - dst) % back) \in 1 .. N
      OBVIOUS
    <3>1. (i - dst) % back \in 0 .. back - 1
      <4>1. CASE back = 2
        BY <4>1
      <4>2. CASE back = 3
        BY <4>2
      <4>3. CASE back = 4
        BY <4>3
      <4> QED BY <4>1, <4>2, <4>3
    <3> QED BY <1>3, <3>1
  <2> QED BY <1>2, <2>1
<1> DEFINE n == cnt - words
           first == [m |-> filled, at |-> dst + words]
           S == [k \in 0 .. n |->
                   {s \in [m : [1 .. N -> V], at : {dst + words + k}] :
                      Repeats(m0, s.m, dst, back, s.at)}]
           next == [k \in 1 .. n |-> [s \in S[k - 1] |-> Piece(s, back, 1)]]
<1>6. n \in Nat
  BY <1>1
<1>7. first \in S[0]
  BY <1>4, <1>5, <1>6
<1>8. ASSUME NEW k \in 1 .. n, NEW s \in S[k - 1], NEW r, r = Piece(s, back, 1)
      PROVE  r \in S[k]
  <2>1. PICK m \in [1 .. N -> V], at \in {dst + words + (k - 1)} : s = [m |-> m, at |-> at]
    OBVIOUS
  <2>2. Repeats(m0, m, dst, back, at)
    BY <2>1
  <2> HIDE DEF S, next, first
  <2>3. /\ at \in Int /\ at + 1 = dst + words + k /\ back \in Nat /\ 1 \in Nat /\ 1 <= back
        /\ dst <= at /\ 1 <= at - back /\ at + 1 - 1 <= N
    BY <1>1, <1>6
  <2>4. r \in [m : [1 .. N -> V], at : {at + 1}]
    <3>1. Piece(s, back, 1) \in [m : [1 .. N -> V], at : {at + 1}]
      BY <2>1, <2>3, PieceTyped
    <3> QED BY <1>8, <3>1
  <2>5. Repeats(m0, r.m, dst, back, at + 1) /\ r.at = at + 1
    <3>1. r = Piece([m |-> m, at |-> at], back, 1) /\ DOMAIN m0 = 1 .. N
      BY <1>8, <2>1
    <3> QED BY <2>2, <2>3, <3>1, PieceRepeats
  <2>6. k \in 0 .. n /\ r.at = dst + words + k
    BY <1>6, <2>3, <2>5
  <2> HIDE DEF n
  <2> QED BY <2>3, <2>4, <2>5, <2>6 DEF S
<1> HIDE DEF S, first
<1>9. PICK N2 : N2 = next /\ \A k \in 1 .. n : \A s \in S[k - 1] : N2[k][s] = Piece(s, back, 1)
  <2>1. \A k \in 1 .. n : \A s \in S[k - 1] : next[k][s] = Piece(s, back, 1)
    OBVIOUS
  <2> HIDE DEF next
  <2> QED BY <2>1
<1> HIDE DEF next, n
<1>10. PICK g : IsLoop(n, S, first, N2, g)
  <2>1. \A k \in 1 .. n : \A s \in S[k - 1] : N2[k][s] \in S[k]
    BY <1>8, <1>9
  <2> QED BY <1>6, <1>7, <2>1, LoopExists
<1> DEFINE Turns(t) == t = [k \in 0 .. n |-> IF k = 0 THEN [m |-> filled, at |-> dst + words]
                                              ELSE Piece(t[k - 1], back, 1)]
<1>11. \E t : Turns(t)
  <2>1. \A k \in 1 .. n : k - 1 \in 0 .. n
    BY <1>6
  <2>2. \A k \in 0 .. n : (IF k = 0 THEN first ELSE N2[k][g[k - 1]])
                            = (IF k = 0 THEN first ELSE Piece(g[k - 1], back, 1))
    BY <1>6, <1>9, <1>10, <2>1 DEF IsLoop
  <2>3. g = [k \in 0 .. n |-> IF k = 0 THEN first ELSE Piece(g[k - 1], back, 1)]
    BY <1>10, <2>2 DEF IsLoop
  <2>4. Turns(g)
    BY <2>3 DEF first
  <2> QED BY <2>4
<1> DEFINE turn == CHOOSE t : Turns(t)
<1>12. Turns(turn)
  <2> HIDE DEF Turns
  <2> QED BY <1>11
<1>13. Fill(m0, dst, back, cnt) = turn[n].m
  BY <1>1, <1>2, Zenon DEF Fill, n
<1> HIDE DEF turn
<1>14. turn[0] = first /\ \A k \in 1 .. n : turn[k] = Piece(turn[k - 1], back, 1)
  BY <1>6, <1>12 DEF first
<1>15. turn[n] \in S[n]
  <2>1. \A k \in 1 .. n : turn[k - 1] \in S[k - 1] => turn[k] \in S[k]
    BY <1>8, <1>14
  <2>2. \A k \in 0 .. n : turn[k] \in S[k]
    BY <1>6, <1>7, <1>14, <2>1, LoopKeeps
  <2> QED BY <1>6, <2>2
<1>16. turn[n].at = dst + words + n /\ Repeats(m0, turn[n].m, dst, back, turn[n].at)
  BY <1>6, <1>15 DEF S
<1>17. dst + words + n = dst + cnt
  BY <1>1 DEF n
<1> QED BY <1>13, <1>16, <1>17


LEMMA ShortRepeats ==
  ASSUME NEW N \in Nat, NEW V, NEW m0 \in [1 .. N -> V],
         NEW dst \in Int, NEW back \in Nat, back > 4, 1 <= dst - back,
         NEW cnt \in 0 .. 15, dst + cnt - 1 <= N
  PROVE  Repeats(m0, Short(m0, dst, back, cnt), dst, back, dst + cnt)
<1> DEFINE At(r) == /\ r.at \in dst .. dst + cnt /\ r = [m |-> r.m, at |-> r.at]
                    /\ Repeats(m0, r.m, dst, back, r.at)
           Has(r, n) == dst + cnt - r.at >= n
           Whole(r, n) == IF Has(r, n) THEN Piece(r, back, n) ELSE r
           Eight(r) == IF Has(r, 8) THEN Piece(Piece(r, back, 4), back, 4) ELSE r
           r0 == [m |-> m0, at |-> dst]
           r1 == Eight(r0)
           r2 == Whole(r1, 4)
           r3 == Whole(r2, 2)
           r4 == Whole(r3, 1)
<1>1. ASSUME NEW r, At(r), NEW n \in {1, 2, 4}, Has(r, n)
      PROVE  At(Piece(r, back, n)) /\ Piece(r, back, n).at = r.at + n
  <2>1. PICK p : p = Piece(r, back, n)
    OBVIOUS
  <2>2. PICK m, at : r = [m |-> m, at |-> at] /\ m = r.m /\ at = r.at
    BY <1>1
  <2>3. /\ at \in Int /\ dst <= at /\ n \in Nat /\ n <= back /\ at + n - 1 <= N
        /\ at + n \in dst .. dst + cnt
    BY <1>1, <2>2
  <2>4. Repeats(m0, p.m, dst, back, at + n) /\ p.at = at + n
    <3>1. p = Piece([m |-> m, at |-> at], back, n) /\ Repeats(m0, m, dst, back, at) /\ DOMAIN m0 = 1 .. N
      BY <1>1, <2>1, <2>2
    <3> HIDE DEF At, Has
    <3> QED BY <2>3, <3>1, PieceRepeats
  <2>5. p = [m |-> p.m, at |-> p.at]
    BY <2>1 DEF Piece
  <2> QED BY <2>1, <2>2, <2>3, <2>4, <2>5
<1>2. At(r0)
  <2>1. m0 = [i \in DOMAIN m0 |-> IF i \in dst .. dst - 1 THEN m0[i - back] ELSE m0[i]]
    <3>1. m0 = [i \in DOMAIN m0 |-> m0[i]] /\ DOMAIN m0 = 1 .. N
      OBVIOUS
    <3>2. \A i \in DOMAIN m0 : i \notin dst .. dst - 1
      OBVIOUS
    <3> QED BY <3>1, <3>2
  <2> QED BY <2>1 DEF Repeats
<1>3. At(r1) /\ ~Has(r1, 8)
  <2>1. CASE Has(r0, 8)
    <3>1. PICK p : p = Piece(r0, back, 4) /\ At(p) /\ p.at = dst + 4
      <4>1. Has(r0, 4)
        BY <2>1
      <4> HIDE DEF At
      <4> QED BY <1>1, <1>2, <4>1
    <3>2. Has(p, 4)
      <4>1. dst + cnt - dst >= 8
        BY <2>1
      <4>2. dst + cnt - (dst + 4) >= 4
        BY <4>1
      <4> QED BY <3>1, <4>2
    <3>3. At(Piece(p, back, 4)) /\ Piece(p, back, 4).at = dst + 8
      <4>1. p.at + 4 = dst + 8
        BY <3>1
      <4> HIDE DEF At, Has
      <4> QED BY <1>1, <3>1, <3>2, <4>1
    <3>4. PICK q : q = Piece(p, back, 4) /\ At(q) /\ q.at = dst + 8
      BY <3>3
    <3>5. r1 = q
      BY <2>1, <3>1, <3>4
    <3>6. ~Has(q, 8)
      <4>1. ~(dst + cnt - (dst + 8) >= 8)
        OBVIOUS
      <4> QED BY <3>4, <4>1
    <3> QED BY <3>4, <3>5, <3>6
  <2>2. CASE ~Has(r0, 8)
    BY <1>2, <2>2
  <2> QED BY <2>1, <2>2
<1>4. ASSUME NEW r, At(r), NEW n \in {1, 2, 4}, ~Has(r, n + n)
      PROVE  At(Whole(r, n)) /\ ~Has(Whole(r, n), n)
  <2>1. CASE Has(r, n)
    <3>1. PICK p : p = Piece(r, back, n) /\ At(p) /\ p.at = r.at + n
      <4> HIDE DEF At, Has
      <4> QED BY <1>1, <1>4, <2>1
    <3>2. ~Has(p, n)
      <4>1. PICK x \in Int, y \in Int : x = r.at /\ y = p.at /\ y = x + n
        BY <1>4, <3>1
      <4>2. ~(dst + cnt - x >= n + n)
        BY <1>4, <4>1
      <4>3. ~(dst + cnt - y >= n)
        <5>1. \A e, z, w \in Int : ~(e - z >= w + w) => ~(e - (z + w) >= w)
          OBVIOUS
        <5>2. PICK e \in Int, w \in Int : e = dst + cnt /\ w = n
          <6>1. dst + cnt \in Int /\ n \in Int
            OBVIOUS
          <6> QED BY <6>1
        <5>3. ~(e - x >= w + w) /\ y = x + w
          BY <4>1, <4>2, <5>2
        <5>4. ~(e - y >= w)
          BY <5>1, <5>3, Zenon
        <5> QED BY <5>2, <5>4
      <4>4. ~(dst + cnt - p.at >= n)
        BY <4>1, <4>3
      <4> HIDE DEF At
      <4> QED BY <4>4
    <3> QED BY <2>1, <3>1, <3>2
  <2>2. CASE ~Has(r, n)
    BY <1>4, <2>2
  <2> QED BY <2>1, <2>2
<1> HIDE DEF r0, r1
<1>5. At(r2) /\ ~Has(r2, 4)
  <2>1. ~Has(r1, 4 + 4)
    BY <1>3
  <2> HIDE DEF At, Has, Whole
  <2> QED BY <1>3, <1>4, <2>1
<1> HIDE DEF r2
<1>6. At(r3) /\ ~Has(r3, 2)
  <2>1. ~Has(r2, 2 + 2)
    BY <1>5
  <2> HIDE DEF At, Has, Whole
  <2> QED BY <1>4, <1>5, <2>1
<1> HIDE DEF r3
<1>7. At(r4) /\ ~Has(r4, 1)
  <2>1. ~Has(r3, 1 + 1)
    BY <1>6
  <2> HIDE DEF At, Has, Whole
  <2> QED BY <1>4, <1>6, <2>1
<1>8. Short(m0, dst, back, cnt) = r4.m
  BY Zenon DEF Short, r0, r1, r2, r3
<1> HIDE DEF r4
<1>9. r4.at = dst + cnt
  <2>1. PICK x \in Int : x = r4.at /\ x \in dst .. dst + cnt /\ ~(dst + cnt - x >= 1)
    BY <1>7
  <2> QED BY <2>1
<1> QED BY <1>7, <1>8, <1>9

\* av_memcpy_backptr makes what copying byte by byte would make.
LEMMA MemcpyRepeats ==
  ASSUME NEW N \in Nat, NEW V, Junk \in V, NEW m0 \in [1 .. N -> V],
         NEW dst \in Int, NEW back \in Nat, 1 <= dst - back,
         NEW cnt \in Nat, dst + cnt - 1 <= N, 1 <= back
  PROVE  Repeats(m0, MemcpyBackptr(m0, dst, back, cnt), dst, back, dst + cnt)
<1>1. CASE back = 1
  <2>1. PICK w : w = [i \in 1 .. N |-> IF i \in dst .. dst + cnt - 1 THEN m0[dst - 1] ELSE m0[i]]
    OBVIOUS
  <2>2. MemcpyBackptr(m0, dst, back, cnt) = w
    BY <1>1, <2>1 DEF MemcpyBackptr
  <2>3. ASSUME NEW i \in dst .. dst + cnt - 1  PROVE w[i] = w[i - 1] /\ i \in 1 .. N
    <3>1. i \in 1 .. N /\ i - 1 \in 1 .. N
      BY <1>1
    <3>2. i - 1 \in dst .. dst + cnt - 1 \/ (i - 1 = dst - 1 /\ i - 1 \notin dst .. dst + cnt - 1)
      OBVIOUS
    <3> QED BY <2>1, <3>1, <3>2
  <2>4. \A i \in 1 .. N : w[i] = IF i \in dst .. dst + cnt - 1 THEN w[i - 1] ELSE m0[i]
    BY <2>1, <2>3
  <2>5. w = [i \in 1 .. N |-> IF i \in dst .. (dst + cnt) - 1 THEN w[i - back] ELSE m0[i]]
    BY <1>1, <2>1, <2>4
  <2> QED BY <2>2, <2>5 DEF Repeats
<1>2. CASE back \in 2 .. 4
  BY <1>2, FillRepeats DEF MemcpyBackptr
<1>3. CASE back > 4 /\ cnt >= 16
  BY <1>3, DoublingRepeats DEF MemcpyBackptr
<1>4. CASE back > 4 /\ ~(cnt >= 16)
  <2>1. cnt \in 0 .. 15
    BY <1>4
  <2>2. Repeats(m0, Short(m0, dst, back, cnt), dst, back, dst + cnt)
    BY <1>4, <2>1, ShortRepeats
  <2> QED BY <1>4, <2>2 DEF MemcpyBackptr
<1> QED BY <1>1, <1>2, <1>3, <1>4

-----------------------------------------------------------------------------
(* Arrays and blocks.                                                      *)

\* The recursion of Twos has a solution.
LEMMA TwosExist ==
  Twos = [k \in Nat |-> IF k = 0 THEN 1 ELSE 2 * Twos[k - 1]]
<1> DEFINE S == [k \in Nat |-> Nat]
           next == [k \in Nat |-> [s \in Nat |-> 2 * s]]
           Sol(n, g) == g[0] = 1 /\ \A k \in 1 .. n : g[k] = 2 * g[k - 1]
           Same(g, h, n) == \A k \in 0 .. n : g[k] = h[k]
<1>1. ASSUME NEW n \in Nat  PROVE \E g : Sol(n, g)
  <2>1. 1 \in S[0] /\ \A k \in 1 .. n : \A s \in S[k - 1] : next[k][s] \in S[k]
    OBVIOUS
  <2>2. PICK N2, S2 : N2 = next /\ S2 = S
    OBVIOUS
  <2>3. PICK g : IsLoop(n, S2, 1, N2, g)
    <3>1. 1 \in S2[0] /\ \A k \in 1 .. n : \A s \in S2[k - 1] : N2[k][s] \in S2[k]
      BY <2>1, <2>2
    <3> HIDE DEF S, next, Sol
    <3> QED BY <3>1, LoopExists
  <2>4. \A k \in 1 .. n : g[k] = N2[k][g[k - 1]] /\ g[k - 1] \in S2[k - 1]
    <3>1. \A k \in 1 .. n : k - 1 \in 0 .. n
      OBVIOUS
    <3> QED BY <2>3, <3>1 DEF IsLoop
  <2>5. ASSUME NEW k \in 1 .. n  PROVE g[k] = 2 * g[k - 1]
    <3>1. PICK j \in Nat : j = k - 1
      OBVIOUS
    <3>2. S2[j] = Nat /\ k \in Nat
      BY <2>2
    <3>3. PICK x \in Nat : x = g[j]
      BY <2>4, <3>1, <3>2
    <3>4. N2[k][x] = 2 * x
      BY <2>2, <3>2
    <3> QED BY <2>4, <3>1, <3>3, <3>4
  <2>6. g[0] = 1
    BY <2>3 DEF IsLoop
  <2> QED BY <2>5, <2>6
<1>2. ASSUME NEW n \in Nat, NEW g, NEW h, Sol(n, g), Sol(n + 1, h)  PROVE g[n] = h[n]
  <2> DEFINE T == {k \in Nat : k <= n => g[k] = h[k]}
  <2>1. 0 \in T
    BY <1>2
  <2>2. ASSUME NEW k \in Nat, k \in T  PROVE k + 1 \in T
    <3>1. k + 1 <= n => k + 1 \in 1 .. n /\ k + 1 \in 1 .. n + 1 /\ (k + 1) - 1 = k
      OBVIOUS
    <3> QED BY <1>2, <2>2, <3>1
  <2>3. n \in T
    <3> HIDE DEF T
    <3> QED BY <2>1, <2>2, InductOn
  <2> QED BY <2>3
<1> DEFINE P == [n \in Nat |-> (CHOOSE g : Sol(n, g))[n]]
<1>3. ASSUME NEW n \in Nat  PROVE \E g : Sol(n, g) /\ P[n] = g[n]
  <2> HIDE DEF Sol
  <2> QED BY <1>1
<1>4. ASSUME NEW n \in Nat  PROVE P[n] = IF n = 0 THEN 1 ELSE 2 * P[n - 1]
  <2>1. CASE n = 0
    <3> HIDE DEF P
    <3> QED BY <1>3, <2>1
  <2>2. CASE n # 0
    <3>1. PICK m \in Nat : n = m + 1
      BY <2>2
    <3>2. PICK g : Sol(n, g) /\ P[n] = g[n]
      BY <1>3
    <3>3. PICK h : Sol(m, h) /\ P[m] = h[m]
      BY <1>3
    <3>4. h[m] = g[m]
      <4> HIDE DEF P, Sol
      <4> QED BY <1>2, <3>1, <3>2, <3>3
    <3>5. g[n] = 2 * g[m]
      BY <3>1, <3>2
    <3> HIDE DEF P
    <3> QED BY <3>1, <3>2, <3>3, <3>4, <3>5
  <2> QED BY <2>1, <2>2
<1> HIDE DEF P
<1>5. P = [n \in Nat |-> IF n = 0 THEN 1 ELSE 2 * P[n - 1]]
  <2>1. P = [n \in Nat |-> P[n]]
    BY DEF P
  <2> QED BY <1>4, <2>1
<1>6. \E t : t = [n \in Nat |-> IF n = 0 THEN 1 ELSE 2 * t[n - 1]]
  BY <1>5
<1> QED BY <1>6, Zenon DEF Twos

LEMMA TwosGrow ==
  /\ Twos[0] = 1
  /\ \A k \in Nat : Twos[k] \in Nat /\ Twos[k] > k /\ Twos[k + 1] = 2 * Twos[k]
<1>1. \A k \in Nat : Twos[k] = IF k = 0 THEN 1 ELSE 2 * Twos[k - 1]
  BY TwosExist
<1>2. Twos[0] = 1
  BY <1>1
<1>3. \A k \in Nat : Twos[k + 1] = 2 * Twos[k]
  <2>1. \A k \in Nat : k + 1 \in Nat /\ k + 1 # 0 /\ (k + 1) - 1 = k
    OBVIOUS
  <2> QED BY <1>1, <2>1
<1> DEFINE T == {k \in Nat : Twos[k] \in Nat /\ Twos[k] > k}
<1>4. 0 \in T
  BY <1>2
<1>5. ASSUME NEW k \in Nat, k \in T  PROVE k + 1 \in T
  <2>1. PICK x \in Nat : x = Twos[k] /\ x > k
    BY <1>5
  <2>2. 2 * x \in Nat /\ 2 * x > k + 1
    BY <2>1
  <2> QED BY <1>3, <2>1, <2>2
<1>6. \A k \in Nat : k \in T
  <2> HIDE DEF T
  <2> QED BY <1>4, <1>5, InductOn
<1> QED BY <1>2, <1>3, <1>6

\* The array is as long as a power of two, which is why only at one of these
\* numbers of elements it can be full.
TabInv(t, all) ==
    /\ all \in Seq(Nat) /\ t \in [slots : Seq(Nat \union {Junk}), nb : Nat]
    /\ t.nb = Len(all) /\ t.nb <= Len(t.slots)
    /\ t.nb = 0 \/ \E k \in Nat : Len(t.slots) = Twos[k]
    /\ \A i \in 1 .. t.nb : t.slots[i] = all[i]

LEMMA GrownKeeps ==
  ASSUME NEW t, NEW all, TabInv(t, all), NEW fails, NEW r, r = Grown(t, fails)
  PROVE  TabInv(r.t, all) /\ (r.ok => r.t.nb < Len(r.t.slots) /\ \E k \in Nat : Len(r.t.slots) = Twos[k])
<1>1. PICK s \in Seq(Nat \union {Junk}), nb \in Nat :
                           /\ t = [slots |-> s, nb |-> nb] /\ Len(s) \in Nat
                           /\ nb = Len(all) /\ nb <= Len(s) /\ all \in Seq(Nat)
                           /\ nb = 0 \/ \E k \in Nat : Len(s) = Twos[k]
                           /\ \A i \in 1 .. nb : s[i] = all[i]
  <2>1. PICK s \in Seq(Nat \union {Junk}), nb \in Nat : t = [slots |-> s, nb |-> nb]
    BY DEF TabInv
  <2>2. Len(s) \in Nat
    BY LenProperties
  <2> QED BY <2>1, <2>2 DEF TabInv
<1>2. CASE ~MustGrow(nb)
  <2>1. r.t = t /\ nb # 0
    BY <1>1, <1>2 DEF Grown, MustGrow
  <2>2. PICK k \in Nat : Len(s) = Twos[k]
    BY <1>1, <2>1
  <2>3. nb # Twos[k]
    <3> SUFFICES ASSUME nb = Twos[k]  PROVE FALSE
      OBVIOUS
    <3>1. nb > k
      BY TwosGrow
    <3>2. k \in 0 .. nb
      BY <3>1
    <3> QED BY <1>2, <3>2 DEF MustGrow
  <2>4. nb < Len(s)
    <3>1. PICK l \in Nat : l = Len(s)
      BY <1>1
    <3>2. nb <= l /\ nb # l
      BY <1>1, <2>2, <2>3, <3>1
    <3>3. nb < l
      BY <3>2
    <3> QED BY <3>1, <3>3
  <2> QED BY <1>1, <2>1, <2>2, <2>4
<1>3. CASE MustGrow(nb) /\ ~r.ok
  <2>1. r.t = t
    BY <1>1, <1>3 DEF Grown
  <2> QED BY <1>3, <2>1
<1>4. CASE MustGrow(nb) /\ r.ok
  <2>1. PICK new : new = IF nb = 0 THEN 1 ELSE 2 * nb
    OBVIOUS
  <2>2. PICK k \in Nat : new = Twos[k]
    <3>1. CASE nb = 0
      BY <2>1, <3>1, TwosGrow
    <3>2. CASE nb # 0
      <4>1. PICK j \in 0 .. nb : nb = Twos[j]
        BY <1>4, <3>2 DEF MustGrow
      <4>2. Twos[j + 1] = 2 * nb /\ j + 1 \in Nat
        BY <4>1, TwosGrow
      <4> QED BY <2>1, <3>2, <4>2
    <3> QED BY <3>1, <3>2
  <2>3. new \in Nat /\ nb < new
    BY <2>1
  <2>4. PICK w : w = [i \in 1 .. new |-> IF i \in DOMAIN s THEN s[i] ELSE Junk]
    OBVIOUS
  <2>5. r.t = [slots |-> w, nb |-> nb]
    BY <1>1, <1>4, <2>1, <2>4 DEF Grown
  <2>6. w \in Seq(Nat \union {Junk}) /\ Len(w) = new
    <3>1. \A i \in 1 .. new : (IF i \in DOMAIN s THEN s[i] ELSE Junk) \in Nat \union {Junk}
      BY <1>1, ElementOfSeq, LenProperties
    <3> QED BY <2>3, <2>4, <3>1
  <2>7. \A i \in 1 .. nb : w[i] = all[i]
    <3>1. \A i \in 1 .. nb : i \in 1 .. new /\ i \in DOMAIN s
      BY <1>1, <2>3, LenProperties
    <3> QED BY <1>1, <2>4, <3>1
  <2>8. TabInv(r.t, all)
    BY <1>1, <2>2, <2>3, <2>5, <2>6, <2>7 DEF TabInv
  <2> QED BY <2>2, <2>3, <2>5, <2>6, <2>8
<1> QED BY <1>2, <1>3, <1>4


\* The element goes into the slot after the last, and nothing else of the array moves.
LEMMA WithKeeps ==
  ASSUME NEW t, NEW all, TabInv(t, all), t.nb < Len(t.slots), NEW e \in Nat,
         \E k \in Nat : Len(t.slots) = Twos[k]
  PROVE  TabInv(With(t, e), Append(all, e))
<1>1. PICK s \in Seq(Nat \union {Junk}), nb \in Nat : t = [slots |-> s, nb |-> nb]
  BY DEF TabInv
<1>2. all \in Seq(Nat) /\ Len(all) = nb /\ Len(s) \in Nat /\ \A i \in 1 .. nb : s[i] = all[i]
  BY <1>1, LenProperties DEF TabInv
<1>3. nb < Len(s) /\ nb + 1 \in 1 .. Len(s)
  BY <1>1, <1>2
<1>4. PICK w : w = [s EXCEPT ![nb + 1] = e]
  OBVIOUS
<1>5. w \in Seq(Nat \union {Junk}) /\ Len(w) = Len(s)
  BY <1>3, <1>4, ExceptSeq
<1>6. w[nb + 1] = e /\ \A i \in 1 .. nb : w[i] = s[i]
  <2>1. DOMAIN s = 1 .. Len(s)
    BY LenProperties
  <2>2. \A i \in 1 .. nb : i \in 1 .. Len(s) /\ i # nb + 1
    BY <1>3, <1>2
  <2> QED BY <1>3, <1>4, <2>1, <2>2
<1>7. PICK a : a = Append(all, e)
  OBVIOUS
<1>8. a \in Seq(Nat) /\ Len(a) = nb + 1 /\ a[nb + 1] = e /\ \A i \in 1 .. nb : a[i] = all[i]
  BY <1>2, <1>7, AppendProperties
<1>9. \A i \in 1 .. nb + 1 : w[i] = a[i]
  <2>1. \A i \in 1 .. nb + 1 : i = nb + 1 \/ i \in 1 .. nb
    OBVIOUS
  <2> QED BY <1>2, <1>6, <1>8, <2>1
<1>10. With(t, e) = [slots |-> w, nb |-> nb + 1]
  BY <1>1, <1>4 DEF With
<1>11. \E k \in Nat : Len(w) = Twos[k]
  BY <1>1, <1>5
<1>12. nb + 1 <= Len(w)
  BY <1>2, <1>3, <1>5
<1> HIDE DEF With
<1> QED BY <1>5, <1>7, <1>8, <1>9, <1>10, <1>11, <1>12 DEF TabInv

\* What an array of this kind promises its callers.
LEMMA TabHolds ==
  ASSUME NEW t, NEW all, TabInv(t, all)
  PROVE  t.nb <= Len(t.slots) /\ SubSeq(t.slots, 1, t.nb) = all
<1>1. PICK s \in Seq(Nat \union {Junk}), nb \in Nat : t = [slots |-> s, nb |-> nb]
  BY DEF TabInv
<1>2. all \in Seq(Nat) /\ Len(all) = nb /\ nb <= Len(s) /\ \A i \in 1 .. nb : s[i] = all[i]
  BY <1>1 DEF TabInv
<1>3. PICK u : u = SubSeq(s, 1, nb)
  OBVIOUS
<1>4. Len(s) \in Nat
  BY LenProperties
<1>5. u \in Seq(Nat \union {Junk}) /\ Len(u) = nb /\ \A i \in 1 .. nb : u[i] = s[i]
  <2>1. 1 \in Int /\ nb \in Int /\ \A i \in 1 .. nb : s[i] \in Nat \union {Junk}
    BY <1>2, <1>4, ElementOfSeq
  <2>2. /\ SubSeq(s, 1, nb) \in Seq(Nat \union {Junk})
        /\ Len(SubSeq(s, 1, nb)) = IF 1 <= nb THEN nb - 1 + 1 ELSE 0
        /\ \A i \in 1 .. nb - 1 + 1 : SubSeq(s, 1, nb)[i] = s[1 + i - 1]
    BY <2>1, SubSeqProperties
  <2>3. nb - 1 + 1 = nb /\ \A i \in 1 .. nb : 1 + i - 1 = i
    OBVIOUS
  <2> QED BY <1>3, <2>2, <2>3
<1>6. all \in Seq(Nat \union {Junk})
  <2>1. all = [i \in 1 .. nb |-> all[i]] /\ \A i \in 1 .. nb : all[i] \in Nat \union {Junk}
    BY <1>2, LenProperties, ElementOfSeq
  <2> QED BY <2>1
<1>7. u = all
  BY <1>2, <1>5, <1>6, SeqEqual
<1> QED BY <1>1, <1>2, <1>3, <1>7


BlockInv(b) == b \in [bytes : Nat, size : Nat] /\ b.size <= b.bytes

LEMMA ReallocKeeps ==
  ASSUME BlockInv(block), NEW n \in Nat, NEW fails,
         FastRealloc(n, fails) \/ FastMalloc(n, fails)
  PROVE  BlockInv(block')
<1>1. PICK bytes \in Nat, size \in Nat : block = [bytes |-> bytes, size |-> size] /\ size <= bytes
  BY DEF BlockInv
<1>2. Overhead(n) \in Nat
  <2>1. n \div 16 \in Nat
    OBVIOUS
  <2> QED BY <2>1 DEF Overhead
<1>3. MaxAlloc \in Nat
  BY MemAssumption
<1>4. CASE FastRealloc(n, fails)
  <2>1. \/ block' = block
        \/ block' = [bytes |-> bytes, size |-> 0]
        \/ \E s \in Nat : block' = [bytes |-> s, size |-> s]
    <3>1. (IF Overhead(n) < MaxAlloc THEN Overhead(n) ELSE MaxAlloc) \in Nat
      BY <1>2, <1>3
    <3> QED BY <1>1, <1>4, <3>1 DEF FastRealloc
  <2> QED BY <1>1, <2>1 DEF BlockInv
<1>5. CASE FastMalloc(n, fails)
  <2>1. block' = block \/ \E s \in Nat : block' = [bytes |-> s, size |-> s]
    BY <1>1, <1>2, <1>5 DEF FastMalloc
  <2> QED BY <1>1, <2>1 DEF BlockInv
<1> QED BY <1>4, <1>5

\* What the copy of any distance, overlapping or not, leaves.
CopyInv(c) ==
    \/ c = NoCopy
    \/ \E back \in 0 .. MaxBack, cnt \in 1 .. MaxCount :
          /\ c.back = back /\ c.cnt = cnt
          /\ back > 0 => Repeats(Before, c.mem, MaxBack + 1, back, (MaxBack + 1) + cnt)

LEMMA CopyBackRepeats ==
  ASSUME NEW back \in 0 .. MaxBack, NEW cnt \in 1 .. MaxCount, CopyBack(back, cnt)
  PROVE  CopyInv(copied')
<1>1. MaxBack \in Nat /\ MaxCount \in Nat
  BY MemAssumption
<1>2. PICK c : c = copied'
  OBVIOUS
<1>3. c.back = back /\ c.cnt = cnt /\ c.mem = MemcpyBackptr(Before, MaxBack + 1, back, cnt)
  BY <1>2 DEF CopyBack
<1>4. ASSUME back > 0
      PROVE  Repeats(Before, c.mem, MaxBack + 1, back, (MaxBack + 1) + cnt)
  <2>1. PICK N \in Nat : N = MaxBack + MaxCount
    BY <1>1
  <2>2. PICK V : V = (1 .. N) \union {Junk}
    OBVIOUS
  <2>3. Before \in [1 .. N -> V] /\ Junk \in V
    BY <2>1, <2>2 DEF Before
  <2>4. PICK dst \in Int : dst = MaxBack + 1
    BY <1>1
  <2>5. 1 <= dst - back /\ dst + cnt - 1 <= N /\ 1 <= back /\ back \in Nat /\ cnt \in Nat
    BY <1>1, <1>4, <2>1, <2>4
  <2>6. Repeats(Before, MemcpyBackptr(Before, dst, back, cnt), dst, back, dst + cnt)
    BY <2>3, <2>5, MemcpyRepeats
  <2> QED BY <1>3, <2>4, <2>6
<1> QED BY <1>2, <1>3, <1>4 DEF CopyInv

LEMMA CopyHolds ==
  ASSUME CopyInv(copied)
  PROVE  CopyRepeats
<1>1. MaxBack \in Nat /\ MaxCount \in Nat
  BY MemAssumption
<1>2. PICK c : c = copied
  OBVIOUS
<1>3. CASE c = NoCopy
  <2>1. c.mem = <<>>
    BY <1>3 DEF NoCopy
  <2>2. DOMAIN c.mem = {}
    BY <2>1
  <2> QED BY <1>2, <2>2 DEF CopyRepeats
<1>4. CASE c # NoCopy /\ c.back > 0
  <2>1. PICK back \in 0 .. MaxBack, cnt \in 1 .. MaxCount :
          c.back = back /\ c.cnt = cnt /\ Repeats(Before, c.mem, MaxBack + 1, back, (MaxBack + 1) + cnt)
    BY <1>2, <1>4 DEF CopyInv
  <2>2. PICK w, from : w = c.mem /\ from = MaxBack + 1
    OBVIOUS
  <2>3. w = [i \in DOMAIN Before |-> IF i \in from .. (from + cnt) - 1 THEN w[i - back] ELSE Before[i]]
    BY <2>1, <2>2 DEF Repeats
  <2>4. (from + cnt) - 1 = from + cnt - 1
    BY <1>1, <2>1, <2>2
  <2>5. \A i \in DOMAIN w : w[i] = IF i \in from .. from + cnt - 1 THEN w[i - back] ELSE Before[i]
    <3>1. PICK b : b = Before
      OBVIOUS
    <3>2. PICK to : to = (from + cnt) - 1
      OBVIOUS
    <3>3. w = [i \in DOMAIN b |-> IF i \in from .. to THEN w[i - back] ELSE b[i]]
      BY <2>3, <3>1, <3>2
    <3>4. \A i \in DOMAIN w : w[i] = IF i \in from .. to THEN w[i - back] ELSE b[i]
      BY <3>3
    <3> QED BY <2>4, <3>1, <3>2, <3>4
  <2> QED BY <1>2, <2>1, <2>2, <2>5 DEF CopyRepeats
<1>5. CASE ~(c.back > 0)
  BY <1>2, <1>5 DEF CopyRepeats
<1> QED BY <1>3, <1>4, <1>5

-----------------------------------------------------------------------------
(* The three together.                                                     *)

MemInv == TabInv(tab, added) /\ BlockInv(block) /\ CopyInv(copied)

LEMMA NoTabHolds == TabInv(NoTab, <<>>)
<1>1. <<>> \in Seq(Nat) /\ <<>> \in Seq(Nat \union {Junk}) /\ Len(<<>>) = 0
  OBVIOUS
<1> QED BY <1>1 DEF TabInv, NoTab

LEMMA MemStarts ==
  ASSUME MemInit
  PROVE  MemInv
<1>1. TabInv(tab, added)
  BY NoTabHolds DEF MemInit
<1>2. BlockInv(block)
  BY DEF MemInit, BlockInv
<1>3. CopyInv(copied)
  BY DEF MemInit, CopyInv
<1> QED BY <1>1, <1>2, <1>3 DEF MemInv

LEMMA ArrayKeeps ==
  ASSUME TabInv(tab, added), NEW e \in Nat, NEW fails, AddNoFree(e, fails) \/ Add(e, fails)
  PROVE  TabInv(tab', added')
<1>1. PICK t, all : t = tab /\ all = added
  OBVIOUS
<1>2. PICK r : r = Grown(t, fails)
  OBVIOUS
<1>3. TabInv(t, all)
  BY <1>1
<1>4. TabInv(r.t, all) /\ (r.ok => r.t.nb < Len(r.t.slots) /\ \E k \in Nat : Len(r.t.slots) = Twos[k])
  BY <1>2, <1>3, GrownKeeps
<1>5. CASE r.ok
  <2>1. tab' = With(r.t, e) /\ added' = Append(all, e)
    BY <1>1, <1>2, <1>5 DEF AddNoFree, Add
  <2>2. TabInv(With(r.t, e), Append(all, e))
    BY <1>4, <1>5, WithKeeps
  <2> QED BY <2>1, <2>2
<1>6. CASE ~r.ok
  <2>1. (tab' = t /\ added' = all) \/ (tab' = NoTab /\ added' = <<>>)
    BY <1>1, <1>2, <1>6 DEF AddNoFree, Add
  <2> QED BY <1>3, <2>1, NoTabHolds
<1> QED BY <1>5, <1>6

LEMMA MemStep ==
  ASSUME MemInv, [MemNext]_memVars
  PROVE  MemInv'
<1>1. TabInv(tab, added) /\ BlockInv(block) /\ CopyInv(copied)
  BY DEF MemInv
<1>2. CASE ArrayNext
  <2>1. PICK fails : AddNoFree(Len(added) + 1, fails) \/ Add(Len(added) + 1, fails)
    BY <1>2 DEF ArrayNext
  <2>2. Len(added) + 1 \in Nat
    <3>1. added \in Seq(Nat)
      BY <1>1 DEF TabInv
    <3> QED BY <3>1
  <2>3. TabInv(tab', added')
    BY <1>1, <2>1, <2>2, ArrayKeeps
  <2>4. block' = block /\ copied' = copied
    BY <1>2 DEF ArrayNext
  <2> QED BY <1>1, <2>3, <2>4 DEF MemInv
<1>3. CASE BlockNext
  <2>1. PICK n \in MinSizes, fails \in BOOLEAN : FastRealloc(n, fails) \/ FastMalloc(n, fails)
    BY <1>3 DEF BlockNext
  <2>2. n \in Nat
    BY MemAssumption
  <2>3. BlockInv(block')
    BY <1>1, <2>1, <2>2, ReallocKeeps
  <2>4. tab' = tab /\ added' = added /\ copied' = copied
    BY <1>3 DEF BlockNext
  <2> QED BY <1>1, <2>3, <2>4 DEF MemInv
<1>4. CASE CopyNext
  <2>1. PICK back \in 0 .. MaxBack, cnt \in 1 .. MaxCount : CopyBack(back, cnt)
    BY <1>4 DEF CopyNext
  <2>2. CopyInv(copied')
    BY <2>1, CopyBackRepeats
  <2>3. tab' = tab /\ added' = added /\ block' = block
    BY <1>4 DEF CopyNext
  <2> QED BY <1>1, <2>2, <2>3 DEF MemInv
<1>5. CASE UNCHANGED memVars
  <2>1. tab' = tab /\ added' = added /\ block' = block /\ copied' = copied
    BY <1>5 DEF memVars
  <2> QED BY <1>1, <2>1 DEF MemInv
<1> QED BY <1>2, <1>3, <1>4, <1>5 DEF MemNext

\* MemInv is an inductive invariant of the arrays, the blocks and the copy.
THEOREM MemInductive == MemSpec => []MemInv
<1>1. MemInit => MemInv
  BY MemStarts
<1>2. MemInv /\ [MemNext]_memVars => MemInv'
  BY MemStep
<1> QED BY <1>1, <1>2, PTL DEF MemSpec

\* For any sizes and limits: the array has the elements added to it and room for
\* them (av_dynarray_add, av_dynarray2_add), the block has the bytes kept beside it
\* (av_fast_realloc, av_fast_malloc), and the copy, of any distance and length,
\* repeats what lies before it (av_memcpy_backptr), whichever allocations fail.
THEOREM MemoryHolds == MemSpec => []MemHolds
<1>1. MemInv => MemHolds
  <2> SUFFICES ASSUME MemInv  PROVE MemHolds
    OBVIOUS
  <2>1. TabInv(tab, added) /\ BlockInv(block) /\ CopyInv(copied)
    BY DEF MemInv
  <2>2. ArrayHolds
    BY <2>1, TabHolds DEF ArrayHolds
  <2>3. BlockHolds
    BY <2>1 DEF BlockInv, BlockHolds
  <2>4. CopyRepeats
    BY <2>1, CopyHolds
  <2> QED BY <2>2, <2>3, <2>4 DEF MemHolds
<1> QED BY <1>1, MemInductive, PTL


-----------------------------------------------------------------------------
(***************************************************************************)
(* The string buffer.                                                      *)
(***************************************************************************)

BufRecords == [size : Nat, size_max : Nat, len : Nat, allocated : BOOLEAN, str : Seq(Nat),
               live : BOOLEAN]

\* The bytes str of a buffer have the first of all letters, as many as fit, and end there.
Text(str, len, size, all) ==
    /\ all \in 0 .. UIntMax /\ len = Least(all, UIntMax - 5) /\ size \in 0 .. AllocMax
    /\ Len(str) = size
    /\ size > 0 => /\ str[Least(len, size - 1) + 1] = 0
                   /\ \A i \in 1 .. Least(len, size - 1) : str[i] = Letter(i)

LiveText(b, all) ==
    /\ b \in BufRecords /\ b.live /\ b.size <= b.size_max
    /\ Text(b.str, b.len, b.size, all)

LEMMA SizesAreNumbers ==
  /\ UIntMax \in Nat /\ AllocMax \in Nat /\ SizeAuto \in Nat /\ MaxPrint \in Nat
  /\ 0 < SizeAuto /\ SizeAuto <= AllocMax /\ AllocMax < UIntMax - 5
  /\ SizesMax \subseteq 0 .. UIntMax
BY SizesAssumption

LEMMA LetterTyped == \A i \in Int : Letter(i) \in Nat
<1>1. \A i \in Int : i % 3 \in 0 .. 2
  OBVIOUS
<1> QED BY <1>1 DEF Letter

\* A buffer that is complete has room after its text.
LEMMA Longer ==
  ASSUME NEW str \in Seq(Nat), NEW len \in Nat, NEW size \in Nat, NEW all, Text(str, len, size, all),
         len < size, NEW new \in Nat, size <= new, new <= AllocMax,
         NEW z, z = [i \in 1 .. new - size |-> 0], NEW w, w = str \o z
  PROVE  w \in Seq(Nat) /\ Text(w, len, new, all)
<1>2. new - size \in Nat
  OBVIOUS
<1>3. z \in Seq(Nat) /\ Len(z) = new - size
  BY <1>2
<1>4. Len(str) = size
  BY DEF Text
<1>5. /\ w \in Seq(Nat) /\ Len(w) = size + (new - size)
      /\ \A i \in 1 .. size + (new - size) : w[i] = IF i <= size THEN str[i] ELSE z[i - size]
  BY <1>3, <1>4, ConcatProperties
<1>6. size + (new - size) = new
  OBVIOUS
<1>7. Least(len, size - 1) = len /\ Least(len, new - 1) = len
  BY DEF Least
<1>8. str[len + 1] = 0 /\ \A i \in 1 .. len : str[i] = Letter(i)
  BY <1>7 DEF Text
<1>9. w[len + 1] = 0 /\ \A i \in 1 .. len : w[i] = Letter(i)
  <2>1. w[len + 1] = str[len + 1]
    <3>1. len + 1 \in 1 .. new /\ len + 1 <= size
      OBVIOUS
    <3> QED BY <1>5, <1>6, <3>1
  <2>2. ASSUME NEW i \in 1 .. len  PROVE w[i] = str[i]
    <3>1. i \in 1 .. new /\ i <= size
      OBVIOUS
    <3> QED BY <1>5, <1>6, <3>1
  <2> QED BY <1>8, <2>1, <2>2
<1>10. all \in 0 .. UIntMax /\ len = Least(all, UIntMax - 5)
  BY DEF Text
<1>11. new \in 0 .. AllocMax
  BY SizesAreNumbers
<1> QED BY <1>5, <1>6, <1>7, <1>9, <1>10, <1>11 DEF Text

\* av_bprint_alloc makes a buffer larger or leaves it.
LEMMA AllocKeeps ==
  ASSUME NEW b, NEW all, LiveText(b, all), NEW room \in Nat, NEW fails, NEW a, a = Alloc(b, room, fails)
  PROVE  /\ LiveText(a.b, all) /\ a.b.size_max = b.size_max
         /\ a.ok \in BOOLEAN /\ (a.ok => a.b.size > b.size) /\ (~a.ok => a.b = b)
<1> DEFINE least == b.len + 1 + Least(UIntMax - b.len - 1, room)
           twice == IF b.size > b.size_max \div 2 THEN b.size_max ELSE b.size * 2
           size  == IF twice < least THEN Least(b.size_max, least) ELSE twice
           stays == b.size = b.size_max \/ ~IsComplete(b) \/ fails \/ size > AllocMax
<1>1. CASE stays
  <2>1. a = [b |-> b, ok |-> FALSE]
    BY <1>1 DEF Alloc
  <2> QED BY <2>1
<1>2. CASE ~stays
  <2>1. PICK w : w = b.str \o [i \in 1 .. size - b.size |-> 0]
    OBVIOUS
  <2>2. PICK new : new = size
    OBVIOUS
  <2>3. a = [b |-> [b EXCEPT !.size = new, !.allocated = TRUE, !.str = w], ok |-> TRUE]
    BY <1>2, <2>1, <2>2 DEF Alloc
  <2>4. PICK s \in Nat, m \in Nat, l \in Nat, str \in Seq(Nat), al \in BOOLEAN :
           /\ b = [size |-> s, size_max |-> m, len |-> l, allocated |-> al, str |-> str, live |-> TRUE]
           /\ s = b.size /\ m = b.size_max /\ l = b.len /\ str = b.str
    BY DEF LiveText, BufRecords
  <2>5. l < s /\ s <= m /\ s # m
    BY <1>2, <2>4 DEF LiveText, IsComplete
  <2>6. PICK x \in Int : x = least
    BY <2>4, SizesAreNumbers DEF Least
  <2>7. PICK t \in Nat : t = twice /\ s < t /\ t <= m
    <3>1. PICK h \in Nat : h = m \div 2 /\ 2 * h <= m
      OBVIOUS
    <3>2. twice = IF s > h THEN m ELSE s * 2
      BY <2>4, <3>1
    <3> HIDE DEF twice
    <3>3. twice \in Nat /\ s < twice /\ twice <= m
      BY <2>5, <3>1, <3>2
    <3> QED BY <3>3
  <2>8. new = IF t < x THEN Least(m, x) ELSE t
    BY <2>2, <2>4, <2>6, <2>7
  <2>9. new \in Nat /\ s < new /\ new <= m /\ new <= AllocMax
    <3>1. new <= AllocMax
      <4>1. ~(new > AllocMax) /\ new \in Int
        BY <1>2, <2>2, <2>7, <2>6, <2>8 DEF Least
      <4> QED BY <4>1, SizesAreNumbers
    <3> HIDE DEF stays, size, twice, least
    <3> QED BY <2>7, <2>8, <3>1 DEF Least
  <2> HIDE DEF stays, size, twice, least
  <2>10. Text(str, l, s, all)
    BY <2>4 DEF LiveText
  <2>11. w \in Seq(Nat) /\ Text(w, l, new, all)
    <3>1. PICK z : z = [i \in 1 .. new - s |-> 0]
      OBVIOUS
    <3>2. w = str \o z /\ s <= new
      BY <2>1, <2>2, <2>4, <2>9, <3>1
    <3> QED BY <2>5, <2>9, <2>10, <3>1, <3>2, Longer
  <2>12. /\ a.b \in [size : {new}, size_max : {m}, len : {l}, allocated : {TRUE}, str : {w}, live : {TRUE}]
         /\ a.ok = TRUE
    <3>1. PICK c : c = [b EXCEPT !.size = new, !.allocated = TRUE, !.str = w]
      OBVIOUS
    <3>2. c \in [size : {new}, size_max : {m}, len : {l}, allocated : {TRUE}, str : {w}, live : {TRUE}]
      <4>1. b \in [size : {s}, size_max : {m}, len : {l}, allocated : {al}, str : {str}, live : {TRUE}]
        BY <2>4
      <4> QED BY <3>1, <4>1
    <3>3. a.b = c /\ a.ok = TRUE
      BY <2>3, <3>1
    <3> QED BY <3>2, <3>3
  <2>13. /\ a.b \in BufRecords /\ a.b.live /\ a.b.size = new /\ a.b.size_max = m
         /\ a.b.str = w /\ a.b.len = l
    BY <2>9, <2>11, <2>12 DEF BufRecords
  <2>14. LiveText(a.b, all)
    BY <2>9, <2>11, <2>13 DEF LiveText
  <2> QED BY <2>4, <2>9, <2>12, <2>13, <2>14
<1> QED BY <1>1, <1>2


LEMMA LeastIs ==
  /\ \A a, b \in Int : Least(a, b) \in Int /\ Least(a, b) <= a /\ Least(a, b) <= b
  /\ \A a, b \in Nat : Least(a, b) \in Nat
BY DEF Least

ZeroAt(put, k) == [put EXCEPT ![k] = 0]

LEMMA EndedAt ==
  ASSUME NEW size \in Nat, NEW e \in Nat, e + 1 <= size, NEW put \in [1 .. size -> Nat],
         NEW w, w = ZeroAt(put, e + 1)
  PROVE  /\ w \in Seq(Nat) /\ Len(w) = size
         /\ w[e + 1] = 0 /\ \A i \in 1 .. e : w[i] = put[i]
<1>1. e + 1 \in 1 .. size /\ \A i \in 1 .. e : i \in 1 .. size /\ i # e + 1
  OBVIOUS
<1>2. w \in [1 .. size -> Nat] /\ w[e + 1] = 0 /\ \A i \in 1 .. e : w[i] = put[i]
  BY <1>1 DEF ZeroAt
<1>3. w \in Seq(Nat) /\ Len(w) = size
  BY <1>2
<1> QED BY <1>2, <1>3

\* The bytes after n letters were put behind the first len of them, and when the text
\* was ended there.
WithLetters(str, len, size, all, n) ==
    [i \in DOMAIN str |-> IF i - len \in 1 .. Least(n, size - Least(len, size) - 1)
                          THEN Letter(all + i - len) ELSE str[i]]

WithEnd(put, len, size) == IF size = 0 THEN put ELSE ZeroAt(put, Least(len, size - 1) + 1)

\* What a print adds: the letters go where the text ends, and a 0 after them.
LEMMA TextGrows ==
  ASSUME NEW str \in Seq(Nat), NEW len \in Nat, NEW size \in Nat, NEW all \in Nat,
         Text(str, len, size, all), NEW n \in Nat,
         NEW put, put = WithLetters(str, len, size, all, n),
         NEW len2, len2 = len + Least(n, UIntMax - 5 - len),
         NEW w, w = WithEnd(put, len2, size)
  PROVE  w \in Seq(Nat) /\ len2 \in Nat /\ Text(w, len2, size, Least(all + n, UIntMax))
<1>1. PICK U \in Nat, A \in Nat : U = UIntMax /\ A = AllocMax /\ A < U - 5
  BY SizesAreNumbers
<1>2. /\ all <= U /\ len = Least(all, U - 5) /\ size <= A /\ Len(str) = size /\ DOMAIN str = 1 .. size
      /\ size > 0 => /\ str[Least(len, size - 1) + 1] = 0
                     /\ \A i \in 1 .. Least(len, size - 1) : str[i] = Letter(i)
  BY <1>1, LenProperties DEF Text
<1>3. PICK all2 \in Nat : all2 = Least(all + n, U) /\ all2 <= U
  BY <1>1 DEF Least
<1>4. len2 \in Nat /\ len2 = Least(all2, U - 5) /\ len <= len2 /\ len2 <= len + n
  BY <1>1, <1>2, <1>3 DEF Least
<1>5. put \in [1 .. size -> Nat]
  <2>1. \A i \in 1 .. size : str[i] \in Nat
    BY <1>2, ElementOfSeq
  <2>2. \A i \in 1 .. size : all + i - len \in Int
    OBVIOUS
  <2> QED BY <1>2, <2>1, <2>2, LetterTyped DEF WithLetters
<1>8. ASSUME w \in Seq(Nat), Len(w) = size,
             size > 0 => /\ w[Least(len2, size - 1) + 1] = 0
                         /\ \A i \in 1 .. Least(len2, size - 1) : w[i] = Letter(i)
      PROVE  w \in Seq(Nat) /\ len2 \in Nat /\ Text(w, len2, size, Least(all + n, UIntMax))
  <2>1. all2 \in 0 .. UIntMax /\ len2 = Least(all2, UIntMax - 5) /\ size \in 0 .. AllocMax
    BY <1>1, <1>2, <1>3, <1>4
  <2>2. Text(w, len2, size, all2)
    BY <1>8, <2>1 DEF Text
  <2> QED BY <1>1, <1>3, <1>4, <1>8, <2>2
<1>6. CASE size = 0
  <2>1. w \in [1 .. size -> Nat]
    BY <1>5, <1>6 DEF WithEnd
  <2>2. w \in Seq(Nat) /\ Len(w) = size
    BY <2>1
  <2> QED BY <1>8, <1>6, <2>2
<1>7. CASE size > 0
  <2>1. PICK e \in Nat, e2 \in Nat : e = Least(len, size - 1) /\ e2 = Least(len2, size - 1)
    <3>1. size - 1 \in Nat
      BY <1>7
    <3>2. Least(len, size - 1) \in Nat /\ Least(len2, size - 1) \in Nat
      BY <1>4, <3>1, LeastIs
    <3> QED BY <3>2
  <2>2. w = ZeroAt(put, e2 + 1) /\ e2 + 1 <= size
    <3>1. e2 + 1 <= size
      BY <1>4, <1>7, <2>1, LeastIs
    <3> QED BY <1>7, <2>1, <3>1 DEF WithEnd
  <2>3. /\ w \in Seq(Nat) /\ Len(w) = size
        /\ w[e2 + 1] = 0 /\ \A i \in 1 .. e2 : w[i] = put[i]
    <3>1. PICK f \in [1 .. size -> Nat], k \in Nat : f = put /\ k = e2
      BY <1>5
    <3>2. PICK z : z = w
      OBVIOUS
    <3>3. z = ZeroAt(f, k + 1) /\ k + 1 <= size
      BY <2>2, <3>1, <3>2
    <3>4. /\ z \in Seq(Nat) /\ Len(z) = size
          /\ z[k + 1] = 0 /\ \A i \in 1 .. k : z[i] = f[i]
      BY <3>3, EndedAt
    <3> QED BY <3>1, <3>2, <3>4
  <2>5. ASSUME NEW i \in 1 .. e2  PROVE put[i] = Letter(i)
    <3>1. i \in 1 .. size
      BY <2>2
    <3>2. put[i] = IF i - len \in 1 .. Least(n, size - Least(len, size) - 1)
                   THEN Letter(all + i - len) ELSE str[i]
      BY <1>2, <3>1 DEF WithLetters
    <3>3. CASE len >= size
      <4>1. ~(i - len \in 1 .. Least(n, size - Least(len, size) - 1)) /\ i \in 1 .. e
        BY <1>4, <2>1, <3>3 DEF Least
      <4> QED BY <1>2, <1>7, <2>1, <3>2, <4>1
    <3>4. CASE len < size
      <4>1. len = all /\ e = len
        <5>1. \A x, y \in Int : Least(x, y) = x \/ (Least(x, y) = y /\ y <= x)
          BY DEF Least
        <5>2. len < U - 5
          BY <1>1, <1>2, <3>4
        <5>3. len = all
          BY <1>2, <5>1, <5>2
        <5>4. e = len
          BY <2>1, <3>4, <5>1
        <5> QED BY <5>3, <5>4
      <4>2. CASE i <= len
        <5>1. ~(i - len \in 1 .. Least(n, size - Least(len, size) - 1)) /\ i \in 1 .. e
          BY <4>1, <4>2
        <5> QED BY <1>2, <1>7, <2>1, <3>2, <5>1
      <4>3. CASE i > len
        <5>1. i - len \in 1 .. Least(n, size - Least(len, size) - 1)
          BY <1>4, <2>1, <3>4, <4>3 DEF Least
        <5>2. all + i - len = i
          BY <4>1
        <5> QED BY <3>2, <5>1, <5>2
      <4> QED BY <4>2, <4>3
    <3> QED BY <3>3, <3>4
  <2>6. \A i \in 1 .. e2 : w[i] = Letter(i)
    BY <2>3, <2>5
  <2> QED BY <1>8, <2>1, <2>3, <2>6
<1> QED BY <1>6, <1>7


LEMMA PrintedKeeps ==
  ASSUME NEW b, LiveText(b, said), NEW n \in Nat, Printed(b, n)
  PROVE  LiveText(buf', said')
<1>1. PICK s \in Nat, m \in Nat, l \in Nat, str \in Seq(Nat), al \in BOOLEAN :
         /\ b \in [size : {s}, size_max : {m}, len : {l}, allocated : {al}, str : {str}, live : {TRUE}]
         /\ s <= m /\ Text(str, l, s, said)
  BY DEF LiveText, BufRecords
<1>2. PICK all \in Nat : all = said
  BY <1>1, SizesAreNumbers DEF Text
<1>3. PICK put : put = WithLetters(str, l, s, all, n)
  OBVIOUS
<1>4. PICK p : p = Put(b, n)
  OBVIOUS
<1>5. p \in [size : {s}, size_max : {m}, len : {l}, allocated : {al}, str : {put}, live : {TRUE}]
  <2>1. Room(b) = s - Least(l, s)
    BY <1>1 DEF Room
  <2>2. PICK r : r = s - Least(l, s) - 1
    OBVIOUS
  <2>3. p = [b EXCEPT !.str = put]
    BY <1>1, <1>2, <1>3, <1>4, <2>1 DEF Put, WithLetters
  <2> QED BY <1>1, <2>3
<1>6. PICK len2 : len2 = l + Least(n, UIntMax - 5 - l)
  OBVIOUS
<1>7. PICK w : w = WithEnd(put, len2, s)
  OBVIOUS
<1>8. buf' \in [size : {s}, size_max : {m}, len : {len2}, allocated : {al}, str : {w}, live : {TRUE}]
  <2>1. buf' = Grow(p, n)
    BY <1>4 DEF Printed
  <2>2. Grow(p, n) = [p EXCEPT !.len = len2, !.str = w]
    BY <1>5, <1>6, <1>7 DEF Grow, WithEnd, ZeroAt
  <2> QED BY <1>5, <2>1, <2>2
<1>9. w \in Seq(Nat) /\ len2 \in Nat /\ Text(w, len2, s, Least(all + n, UIntMax))
  <2>1. Text(str, l, s, all)
    BY <1>1, <1>2
  <2> QED BY <1>3, <1>6, <1>7, <2>1, TextGrows
<1>10. said' = Least(all + n, UIntMax)
  BY <1>2 DEF Printed
<1>11. /\ buf' \in BufRecords /\ buf'.live /\ buf'.size <= buf'.size_max
       /\ buf'.str = w /\ buf'.len = len2 /\ buf'.size = s
  BY <1>1, <1>8, <1>9 DEF BufRecords
<1> QED BY <1>9, <1>10, <1>11 DEF LiveText

\* A turn of the loops that make room leaves the buffer for good or makes it larger.
LEMMA WiderKeeps ==
  ASSUME NEW b, NEW all, LiveText(b, all), NEW n, NEW room \in Nat, NEW fails,
         NEW r, r = Wider(b, n, room, fails)
  PROVE  LiveText(r, all) /\ r.size_max = b.size_max /\ (r = b \/ r.size > b.size)
<1>1. PICK a : a = Alloc(b, room, fails)
  OBVIOUS
<1>2. /\ LiveText(a.b, all) /\ a.b.size_max = b.size_max
      /\ a.ok \in BOOLEAN /\ (a.ok => a.b.size > b.size) /\ (~a.ok => a.b = b)
  BY <1>1, AllocKeeps
<1>3. r = b \/ (r = a.b /\ a.ok)
  BY <1>1, <1>2 DEF Wider
<1> QED BY <1>2, <1>3

\* The states of such a loop, and that one of its turns changes nothing any more.
Widened(all, max) == {b \in BufRecords : LiveText(b, all) /\ b.size_max = max}

WidensBy(all, max, step) ==
    \A b \in Widened(all, max) : step[b] \in Widened(all, max) /\ (step[b] = b \/ step[b].size > b.size)

Enlarged(all, max, step, k) == {b \in Widened(all, max) : step[b] = b \/ b.size >= k}

LEMMA WidenedKeeps ==
  ASSUME NEW all, NEW max \in Nat, NEW step, WidensBy(all, max, step), NEW k \in 1 .. max,
         NEW b \in Enlarged(all, max, step, k - 1)
  PROVE  step[b] \in Enlarged(all, max, step, k)
<1>1. b \in Widened(all, max) /\ (step[b] = b \/ b.size >= k - 1)
  BY DEF Enlarged
<1>2. PICK c : c = step[b]
  OBVIOUS
<1>3. c \in Widened(all, max) /\ (c = b \/ c.size > b.size)
  BY <1>1, <1>2 DEF WidensBy
<1>4. c = b => step[c] = c
  BY <1>2
<1>5. c # b => c.size >= k
  <2>1. c # b => b.size >= k - 1 /\ c.size > b.size
    BY <1>1, <1>2, <1>3
  <2>2. b.size \in Nat /\ c.size \in Nat
    BY <1>1, <1>3 DEF Widened, BufRecords
  <2> QED BY <2>1, <2>2
<1> QED BY <1>2, <1>3, <1>4, <1>5 DEF Enlarged

LEMMA WidenedEnds ==
  ASSUME NEW all, NEW max \in Nat, NEW step, WidensBy(all, max, step),
         NEW b \in Enlarged(all, max, step, max)
  PROVE  b \in Widened(all, max) /\ step[b] = b
<1>1. b \in Widened(all, max) /\ (step[b] = b \/ b.size >= max)
  BY DEF Enlarged
<1>2. step[b] \in Widened(all, max) /\ (step[b] = b \/ step[b].size > b.size)
  BY <1>1 DEF WidensBy
<1>3. step[b].size <= max /\ step[b].size \in Nat /\ b.size \in Nat
  BY <1>1, <1>2 DEF Widened, LiveText, BufRecords
<1> QED BY <1>1, <1>2, <1>3

\* A solution of the recursion of such a loop, and what every solution comes to.
LEMMA WideningEnds ==
  ASSUME NEW all, NEW max \in Nat, NEW step, WidensBy(all, max, step), NEW b \in Widened(all, max)
  PROVE  /\ \E g : /\ g = [k \in 0 .. max |-> IF k = 0 THEN b ELSE step[g[k - 1]]]
                   /\ \A k \in 0 .. max : g[k] \in Widened(all, max)
         /\ \A t : t[0] = b /\ (\A k \in 1 .. max : t[k - 1] \in Widened(all, max) => t[k] = step[t[k - 1]])
                      => t[max] \in Widened(all, max) /\ step[t[max]] = t[max]
<1> DEFINE F == [k \in 0 .. max |-> Enlarged(all, max, step, k)]
           next == [k \in 1 .. max |-> step]
<1>1. b \in F[0]
  <2>1. b.size \in Nat /\ 0 \in 0 .. max
    BY DEF Widened, BufRecords
  <2>2. b \in Enlarged(all, max, step, 0)
    BY <2>1 DEF Enlarged
  <2> QED BY <2>1, <2>2
<1>2. \A k \in 1 .. max : \A s \in F[k - 1] : step[s] \in F[k]
  <2>1. \A k \in 1 .. max : k - 1 \in 0 .. max /\ k \in 0 .. max
    OBVIOUS
  <2>2. \A k \in 1 .. max : F[k - 1] = Enlarged(all, max, step, k - 1) /\ F[k] = Enlarged(all, max, step, k)
    BY <2>1
  <2> HIDE DEF F
  <2> QED BY <2>2, WidenedKeeps
<1>3. \A k \in 0 .. max : F[k] \subseteq Widened(all, max)
  BY DEF Enlarged
<1>4. F[max] = Enlarged(all, max, step, max)
  OBVIOUS
<1>5. PICK N2, F2 : N2 = next /\ F2 = F
  OBVIOUS
<1>6. PICK g : IsLoop(max, F2, b, N2, g)
  <2>1. b \in F2[0] /\ \A k \in 1 .. max : \A s \in F2[k - 1] : N2[k][s] \in F2[k]
    BY <1>1, <1>2, <1>5
  <2> HIDE DEF F, next
  <2> QED BY <2>1, LoopExists
<1>7. g = [k \in 0 .. max |-> IF k = 0 THEN b ELSE step[g[k - 1]]]
  <2>1. g = [k \in 0 .. max |-> IF k = 0 THEN b ELSE N2[k][g[k - 1]]]
    BY <1>6 DEF IsLoop
  <2>2. \A k \in 0 .. max : (IF k = 0 THEN b ELSE N2[k][g[k - 1]]) = (IF k = 0 THEN b ELSE step[g[k - 1]])
    BY <1>5
  <2> HIDE DEF F, next
  <2> QED BY <2>1, <2>2
<1>8. \A k \in 0 .. max : g[k] \in Widened(all, max)
  <2>1. \A k \in 0 .. max : g[k] \in F2[k]
    BY <1>6 DEF IsLoop
  <2> HIDE DEF F, next
  <2> QED BY <1>3, <1>5, <2>1
<1>9. ASSUME NEW t, t[0] = b, \A k \in 1 .. max : t[k - 1] \in Widened(all, max) => t[k] = step[t[k - 1]]
      PROVE  t[max] \in Widened(all, max) /\ step[t[max]] = t[max]
  <2> HIDE DEF F, next
  <2>1. t[0] \in F2[0]
    BY <1>1, <1>5, <1>9
  <2>2. \A k \in 1 .. max : t[k - 1] \in F2[k - 1] => t[k] \in F2[k]
    <3>1. \A k \in 1 .. max : k - 1 \in 0 .. max
      OBVIOUS
    <3> QED BY <1>2, <1>3, <1>5, <1>9, <3>1
  <2>3. \A k \in 0 .. max : t[k] \in F2[k]
    BY <2>1, <2>2, LoopKeeps
  <2>4. t[max] \in Enlarged(all, max, step, max)
    BY <1>4, <1>5, <2>3
  <2> QED BY <2>4, WidenedEnds
<1>10. \E h : /\ h = [k \in 0 .. max |-> IF k = 0 THEN b ELSE step[h[k - 1]]]
              /\ \A k \in 0 .. max : h[k] \in Widened(all, max)
  <2> HIDE DEF F, next
  <2> QED BY <1>7, <1>8
<1> HIDE DEF F, next
<1> QED BY <1>9, <1>10


\* After its turns the buffer has room for the letters, or none can be got.
LEMMA RoomyHolds ==
  ASSUME NEW b, NEW all, LiveText(b, all), NEW n \in Nat, NEW fails, NEW r, r = Roomy(b, n, fails)
  PROVE  LiveText(r, all) /\ Wider(r, n, n, fails) = r
<1>1. PICK max \in Nat : max = b.size_max
  BY DEF LiveText, BufRecords
<1>2. b \in Widened(all, max)
  BY <1>1 DEF Widened, LiveText
<1>3. PICK step : step = [s \in Widened(all, max) |-> Wider(s, n, n, fails)]
  OBVIOUS
<1>4. \A s \in Widened(all, max) : step[s] = Wider(s, n, n, fails)
  BY <1>3
<1>5. WidensBy(all, max, step)
  <2>1. ASSUME NEW s \in Widened(all, max)
        PROVE  step[s] \in Widened(all, max) /\ (step[s] = s \/ step[s].size > s.size)
    <3>1. PICK c : c = Wider(s, n, n, fails)
      OBVIOUS
    <3>2. LiveText(s, all) /\ s.size_max = max
      BY DEF Widened
    <3>3. LiveText(c, all) /\ c.size_max = s.size_max /\ (c = s \/ c.size > s.size)
      BY <3>1, <3>2, WiderKeeps
    <3>4. c \in Widened(all, max)
      BY <3>2, <3>3 DEF Widened, LiveText
    <3> QED BY <1>4, <3>1, <3>3, <3>4
  <2> QED BY <2>1 DEF WidensBy
<1> DEFINE Turns(t) == t = [k \in 0 .. max |-> IF k = 0 THEN b ELSE Wider(t[k - 1], n, n, fails)]
<1>6. \E t : Turns(t)
  <2>1. PICK g : /\ g = [k \in 0 .. max |-> IF k = 0 THEN b ELSE step[g[k - 1]]]
                 /\ \A k \in 0 .. max : g[k] \in Widened(all, max)
    BY <1>2, <1>5, WideningEnds
  <2>2. \A k \in 0 .. max : k # 0 => step[g[k - 1]] = Wider(g[k - 1], n, n, fails)
    <3>1. \A k \in 0 .. max : k # 0 => k - 1 \in 0 .. max
      OBVIOUS
    <3> QED BY <1>4, <2>1, <3>1
  <2>3. g = [k \in 0 .. max |-> IF k = 0 THEN b ELSE Wider(g[k - 1], n, n, fails)]
    BY <2>1, <2>2
  <2> QED BY <2>3
<1> DEFINE turn == CHOOSE t : Turns(t)
<1>7. Turns(turn)
  <2> HIDE DEF Turns
  <2> QED BY <1>6
<1>8. r = turn[max]
  BY <1>1, Zenon DEF Roomy
<1> HIDE DEF turn
<1>9. turn[0] = b /\ \A k \in 1 .. max : turn[k] = Wider(turn[k - 1], n, n, fails)
  BY <1>7
<1>10. turn[max] \in Widened(all, max) /\ step[turn[max]] = turn[max]
  <2>1. \A k \in 1 .. max : turn[k - 1] \in Widened(all, max) => turn[k] = step[turn[k - 1]]
    BY <1>4, <1>9
  <2> HIDE DEF Turns
  <2> QED BY <1>2, <1>5, <1>9, <2>1, WideningEnds
<1> QED BY <1>4, <1>8, <1>10 DEF Widened

LEMMA RoomTyped ==
  ASSUME NEW b, b.size \in Nat, b.len \in Nat
  PROVE  Room(b) \in Nat
<1>1. \A l, z \in Nat : z - Least(l, z) \in Nat
  BY DEF Least
<1> QED BY <1>1 DEF Room

LEMMA StrftimedHolds ==
  ASSUME NEW b, NEW all, LiveText(b, all), NEW n \in Nat, NEW fmt \in Nat, NEW fails,
         NEW r, r = Strftimed(b, n, fmt, fails)
  PROVE  LiveText(r, all) /\ WiderFor(r, n, fmt, fails) = r
<1>1. PICK max \in Nat : max = b.size_max
  BY DEF LiveText, BufRecords
<1>2. b \in Widened(all, max)
  BY <1>1 DEF Widened, LiveText
<1>3. PICK step : step = [s \in Widened(all, max) |-> WiderFor(s, n, fmt, fails)]
  OBVIOUS
<1>4. \A s \in Widened(all, max) : step[s] = WiderFor(s, n, fmt, fails)
  BY <1>3
<1>5. WidensBy(all, max, step)
  <2>1. ASSUME NEW s \in Widened(all, max)
        PROVE  step[s] \in Widened(all, max) /\ (step[s] = s \/ step[s].size > s.size)
    <3>1. PICK room : room = IF Room(s) = 0 THEN fmt + 1 ELSE Room(s) * 2
      OBVIOUS
    <3>2. LiveText(s, all) /\ s.size_max = max
      BY DEF Widened
    <3>3. room \in Nat
      <4>1. s.size \in Nat /\ s.len \in Nat
        BY <3>2 DEF LiveText, BufRecords
      <4>2. Room(s) \in Nat
        BY <4>1, RoomTyped
      <4> QED BY <3>1, <4>2
    <3>4. PICK c : c = Wider(s, n, room, fails)
      OBVIOUS
    <3>5. LiveText(c, all) /\ c.size_max = s.size_max /\ (c = s \/ c.size > s.size)
      BY <3>2, <3>3, <3>4, WiderKeeps
    <3>6. c \in Widened(all, max)
      BY <3>2, <3>5 DEF Widened, LiveText
    <3>7. step[s] = c
      BY <1>4, <3>1, <3>4 DEF WiderFor
    <3> QED BY <3>5, <3>6, <3>7
  <2> QED BY <2>1 DEF WidensBy
<1> DEFINE Turns(t) == t = [k \in 0 .. max |-> IF k = 0 THEN b ELSE WiderFor(t[k - 1], n, fmt, fails)]
<1>6. \E t : Turns(t)
  <2>1. PICK g : /\ g = [k \in 0 .. max |-> IF k = 0 THEN b ELSE step[g[k - 1]]]
                 /\ \A k \in 0 .. max : g[k] \in Widened(all, max)
    BY <1>2, <1>5, WideningEnds
  <2>2. \A k \in 0 .. max : k # 0 => step[g[k - 1]] = WiderFor(g[k - 1], n, fmt, fails)
    <3>1. \A k \in 0 .. max : k # 0 => k - 1 \in 0 .. max
      OBVIOUS
    <3> QED BY <1>4, <2>1, <3>1
  <2>3. g = [k \in 0 .. max |-> IF k = 0 THEN b ELSE WiderFor(g[k - 1], n, fmt, fails)]
    BY <2>1, <2>2
  <2> QED BY <2>3
<1> DEFINE turn == CHOOSE t : Turns(t)
<1>7. Turns(turn)
  <2> HIDE DEF Turns
  <2> QED BY <1>6
<1>8. r = turn[max]
  BY <1>1, Zenon DEF Strftimed
<1> HIDE DEF turn
<1>9. turn[0] = b /\ \A k \in 1 .. max : turn[k] = WiderFor(turn[k - 1], n, fmt, fails)
  BY <1>7
<1>10. turn[max] \in Widened(all, max) /\ step[turn[max]] = turn[max]
  <2>1. \A k \in 1 .. max : turn[k - 1] \in Widened(all, max) => turn[k] = step[turn[k - 1]]
    BY <1>4, <1>9
  <2> HIDE DEF Turns
  <2> QED BY <1>2, <1>5, <1>9, <2>1, WideningEnds
<1> QED BY <1>4, <1>8, <1>10 DEF Widened


\* A new buffer has no text.
LEMMA NewHolds ==
  ASSUME NEW size \in Nat, NEW max \in Nat, size <= max, size <= AllocMax,
         NEW b, b = New(size, max)
  PROVE  LiveText(b, 0) /\ b.size = size
<1>1. PICK str : str = [i \in 1 .. size |-> 0]
  OBVIOUS
<1>2. str \in Seq(Nat) /\ Len(str) = size
  BY <1>1
<1>3. b \in [size : {size}, size_max : {max}, len : {0}, allocated : {FALSE}, str : {str}, live : {TRUE}]
  BY <1>1 DEF New
<1>4. 0 \in 0 .. UIntMax /\ 0 = Least(0, UIntMax - 5)
  BY SizesAreNumbers DEF Least
<1>5. size > 0 => Least(0, size - 1) = 0 /\ str[1] = 0
  BY <1>1 DEF Least
<1>6. size \in 0 .. AllocMax
  BY SizesAreNumbers
<1>7. Text(str, 0, size, 0)
  BY <1>2, <1>4, <1>5, <1>6 DEF Text
<1>8. b.live /\ b.size = size /\ b.size_max = max /\ b.len = 0 /\ b.str = str
  BY <1>3
<1>9. b \in BufRecords
  <2>1. PICK z \in Nat, f \in BOOLEAN, t \in BOOLEAN : z = 0 /\ f = FALSE /\ t = TRUE
    OBVIOUS
  <2>2. b \in [size : {size}, size_max : {max}, len : {z}, allocated : {f}, str : {str}, live : {t}]
    BY <1>3, <2>1
  <2> QED BY <1>2, <2>2 DEF BufRecords
<1> QED BY <1>7, <1>8, <1>9 DEF LiveText

\* A buffer that was finalized: its string is the caller's.
Final(b, all) ==
    /\ b \in BufRecords /\ ~b.live /\ b.size <= b.size_max /\ b.size \in 0 .. AllocMax
    /\ all \in 0 .. UIntMax /\ b.len = Least(all, UIntMax - 5)
    /\ b.str = <<>> \/ Text(b.str, b.len, b.size, all)

BPrintInv == buf # NoBuf => LiveText(buf, said) \/ Final(buf, said)

LEMMA LiveIs == ASSUME BPrintInv, Live  PROVE LiveText(buf, said)
BY DEF BPrintInv, Live, Final

LEMMA PrintInitHolds ==
  ASSUME NEW size_init \in Nat, NEW asked \in SizesMax, NEW fails, PrintInit(size_init, asked, fails)
  PROVE  LiveText(buf', said')
<1>1. PICK max \in Nat : max = IF asked = 1 THEN SizeAuto ELSE asked
  BY SizesAreNumbers
<1>2. PICK size \in Nat : size = Least(SizeAuto, max) /\ size <= max /\ size <= AllocMax
  BY SizesAreNumbers DEF Least
<1>3. PICK b : b = New(size, max)
  OBVIOUS
<1>4. LiveText(b, 0) /\ b.size = size
  BY <1>2, <1>3, NewHolds
<1>5. said' = 0 /\ buf' = IF size_init > b.size THEN Alloc(b, size_init - 1, fails).b ELSE b
  BY <1>1, <1>2, <1>3 DEF PrintInit
<1>6. ASSUME size_init > size  PROVE LiveText(Alloc(b, size_init - 1, fails).b, 0)
  <2>1. size_init - 1 \in Nat
    BY <1>6
  <2> QED BY <1>4, <2>1, AllocKeeps
<1> QED BY <1>4, <1>5, <1>6

LEMMA InitForBufferHolds ==
  ASSUME NEW size, InitForBuffer(size)
  PROVE  LiveText(buf', said')
<1>1. size \in Nat /\ size <= AllocMax /\ said' = 0 /\ buf' = New(size, size)
  BY SizesAreNumbers DEF InitForBuffer
<1>2. size <= size
  BY <1>1
<1> QED BY <1>1, <1>2, NewHolds

LEMMA AppendDataHolds ==
  ASSUME BPrintInv, NEW n \in Nat, NEW fails, AppendData(n, fails)
  PROVE  LiveText(buf', said')
<1>1. LiveText(buf, said)
  BY LiveIs DEF AppendData
<1>2. LiveText(Roomy(buf, n, fails), said)
  BY <1>1, RoomyHolds
<1> QED BY <1>2, PrintedKeeps DEF AppendData

LEMMA PrintDateHolds ==
  ASSUME BPrintInv, NEW n \in Nat, NEW fmt \in Nat, NEW fails, PrintDate(n, fmt, fails)
  PROVE  LiveText(buf', said')
<1>1. LiveText(buf, said)
  BY LiveIs DEF PrintDate
<1>2. PICK b : b = Strftimed(buf, n, fmt, fails)
  OBVIOUS
<1>3. LiveText(b, said)
  BY <1>1, <1>2, StrftimedHolds
<1>4. LiveText(Roomy(b, n, fails), said)
  BY <1>3, RoomyHolds
<1>5. Printed(b, n) \/ Printed(Roomy(b, n, fails), n)
  BY <1>2 DEF PrintDate
<1> QED BY <1>3, <1>4, <1>5, PrintedKeeps

LEMMA GetBufferHolds ==
  ASSUME BPrintInv, NEW size \in Nat, NEW fails, GetBuffer(size, fails)
  PROVE  LiveText(buf', said')
<1>1. LiveText(buf, said)
  BY LiveIs DEF GetBuffer
<1>2. LiveText(Alloc(buf, size, fails).b, said)
  BY <1>1, AllocKeeps
<1> QED BY <1>1, <1>2 DEF GetBuffer

LEMMA ClearHolds ==
  ASSUME BPrintInv, Clear
  PROVE  LiveText(buf', said')
<1>1. LiveText(buf, said)
  BY LiveIs DEF Clear
<1>2. PICK s \in Nat, m \in Nat, l \in Nat, str \in Seq(Nat), al \in BOOLEAN :
         /\ buf \in [size : {s}, size_max : {m}, len : {l}, allocated : {al}, str : {str}, live : {TRUE}]
         /\ s <= m /\ Text(str, l, s, said)
  BY <1>1 DEF LiveText, BufRecords
<1>3. PICK w : w = IF l = 0 \/ s = 0 THEN str ELSE ZeroAt(str, 1)
  OBVIOUS
<1>4. said' = 0 /\ buf' = [buf EXCEPT !.len = 0, !.str = w]
  BY <1>2, <1>3 DEF Clear, ZeroAt
<1>5. /\ buf' \in [size : {s}, size_max : {m}, len : {0}, allocated : {al}, str : {w}, live : {TRUE}]
  BY <1>2, <1>4
<1>6. w \in Seq(Nat) /\ Len(w) = s /\ (s > 0 => w[1] = 0)
  <2>1. Len(str) = s /\ s \in 0 .. AllocMax /\ (s > 0 => str[Least(l, s - 1) + 1] = 0)
    BY <1>2 DEF Text
  <2>2. CASE l = 0 \/ s = 0
    <3>1. s > 0 => Least(l, s - 1) = 0
      BY <2>2 DEF Least
    <3> QED BY <1>3, <2>1, <2>2, <3>1
  <2>3. CASE l # 0 /\ s # 0
    <3>1. w = ZeroAt(str, 1)
      BY <1>3, <2>3
    <3>2. 1 \in 1 .. Len(str)
      BY <2>1, <2>3
    <3> QED BY <2>1, <3>1, <3>2 DEF ZeroAt
  <2> QED BY <2>2, <2>3
<1>7. 0 \in 0 .. UIntMax /\ 0 = Least(0, UIntMax - 5)
  BY SizesAreNumbers DEF Least
<1>8. s > 0 => Least(0, s - 1) = 0
  BY DEF Least
<1>9. Text(w, 0, s, 0)
  <2>1. s \in 0 .. AllocMax
    BY <1>2 DEF Text
  <2> QED BY <1>6, <1>7, <1>8, <2>1 DEF Text
<1>10. buf'.live /\ buf'.size <= buf'.size_max /\ buf'.len = 0 /\ buf'.str = w /\ buf'.size = s
  BY <1>2, <1>5
<1>11. buf' \in BufRecords
  <2>1. PICK z \in Nat, t \in BOOLEAN : z = 0 /\ t = TRUE
    OBVIOUS
  <2>2. buf' \in [size : {s}, size_max : {m}, len : {z}, allocated : {al}, str : {w}, live : {t}]
    BY <1>5, <2>1
  <2> QED BY <1>6, <2>2 DEF BufRecords
<1> QED BY <1>4, <1>9, <1>10, <1>11 DEF LiveText


\* What the caller is given is the text that was in the buffer, and its end.
LEMMA TextCut ==
  ASSUME NEW str \in Seq(Nat), NEW len \in Nat, NEW size \in Nat, NEW all, Text(str, len, size, all),
         NEW new \in Nat, new = Least(len + 1, size), NEW u, u = SubSeq(str, 1, new)
  PROVE  u \in Seq(Nat) /\ Text(u, len, new, all)
<1>1. Len(str) = size /\ size \in 0 .. AllocMax
  BY DEF Text
<1>2. new <= size /\ new <= len + 1 /\ (size > 0 => new > 0)
  BY DEF Least
<1>3. u \in Seq(Nat) /\ Len(u) = new /\ \A i \in 1 .. new : u[i] = str[i]
  <2>1. \A i \in 1 .. new : str[i] \in Nat
    BY <1>1, <1>2
  <2>2. u = [i \in 1 .. new |-> str[i]]
    <3>1. SubSeq(str, 1, new) = [i \in 1 .. new - 1 + 1 |-> str[1 + i - 1]]
      BY <1>1, <1>2
    <3> QED BY <3>1
  <2> QED BY <2>1, <2>2
<1>4. new \in 0 .. AllocMax
  BY <1>1, <1>2, SizesAreNumbers
<1>5. CASE size = 0
  BY <1>1, <1>2, <1>3, <1>4, <1>5 DEF Text
<1>6. CASE size > 0
  <2>1. PICK e \in Nat : e = Least(len, size - 1)
    BY <1>6 DEF Least
  <2>2. Least(len, new - 1) = e /\ e + 1 \in 1 .. new /\ \A i \in 1 .. e : i \in 1 .. new
    <3>1. e + 1 = new
      BY <1>6, <2>1 DEF Least
    <3>2. Least(len, new - 1) = e
      BY <1>6, <2>1, <3>1 DEF Least
    <3> QED BY <3>1, <3>2
  <2>3. str[e + 1] = 0 /\ \A i \in 1 .. e : str[i] = Letter(i)
    BY <1>6, <2>1 DEF Text
  <2>4. u[e + 1] = 0 /\ \A i \in 1 .. e : u[i] = Letter(i)
    BY <1>3, <2>2, <2>3
  <2>5. all \in 0 .. UIntMax /\ len = Least(all, UIntMax - 5)
    BY DEF Text
  <2> QED BY <1>3, <1>4, <2>2, <2>4, <2>5 DEF Text
<1> QED BY <1>5, <1>6

LEMMA FinalizeHolds ==
  ASSUME BPrintInv, NEW wanted, NEW fails, Finalize(wanted, fails)
  PROVE  Final(buf', said')
<1>1. LiveText(buf, said)
  BY LiveIs DEF Finalize
<1>2. PICK s \in Nat, m \in Nat, l \in Nat, str \in Seq(Nat), al \in BOOLEAN :
         /\ buf \in [size : {s}, size_max : {m}, len : {l}, allocated : {al}, str : {str}, live : {TRUE}]
         /\ s <= m /\ Text(str, l, s, said)
  BY <1>1 DEF LiveText, BufRecords
<1>3. PICK new \in Nat : new = Least(l + 1, s) /\ new <= s
  BY DEF Least
<1>4. PICK u : u = SubSeq(str, 1, new)
  OBVIOUS
<1>5. u \in Seq(Nat) /\ Text(u, l, new, said)
  <2>1. Text(str, l, s, said)
    BY <1>2
  <2>2. new = Least(l + 1, s)
    BY <1>3
  <2> QED BY <1>4, <2>1, <2>2, TextCut
<1>6. PICK w : w = IF wanted /\ (al \/ ~fails) THEN u ELSE <<>>
  OBVIOUS
<1>7. said' = said /\ buf' = [buf EXCEPT !.live = FALSE, !.size = new, !.str = w]
  BY <1>2, <1>3, <1>4, <1>6 DEF Finalize
<1>8. buf' \in [size : {new}, size_max : {m}, len : {l}, allocated : {al}, str : {w}, live : {FALSE}]
  BY <1>2, <1>7
<1>9. w = u \/ w = <<>>
  BY <1>6
<1>10. w \in Seq(Nat)
  <2>1. <<>> \in Seq(Nat)
    OBVIOUS
  <2>2. u \in Seq(Nat)
    BY <1>5
  <2> QED BY <1>9, <2>1, <2>2
<1>11. ~buf'.live /\ buf'.size = new /\ buf'.size_max = m /\ buf'.len = l /\ buf'.str = w
  BY <1>8
<1>12. buf' \in BufRecords
  <2>1. PICK f \in BOOLEAN : f = FALSE
    OBVIOUS
  <2>2. buf' \in [size : {new}, size_max : {m}, len : {l}, allocated : {al}, str : {w}, live : {f}]
    BY <1>8, <2>1
  <2> QED BY <1>10, <2>2 DEF BufRecords
<1>13. said \in 0 .. UIntMax /\ l = Least(said, UIntMax - 5) /\ new \in 0 .. AllocMax
  BY <1>5 DEF Text
<1>14. new <= m
  BY <1>2, <1>3
<1> QED BY <1>5, <1>7, <1>9, <1>11, <1>12, <1>13, <1>14 DEF Final

LEMMA BPrintStep ==
  ASSUME BPrintInv, [BPrintNext]_bpVars
  PROVE  BPrintInv'
<1>1. CASE UNCHANGED bpVars
  <2>1. buf' = buf /\ said' = said
    BY <1>1 DEF bpVars
  <2> QED BY <2>1 DEF BPrintInv
<1>2. ASSUME NEW size_init \in 0 .. SizeAuto + 2, NEW size_max \in SizesMax, NEW fails \in BOOLEAN,
             PrintInit(size_init, size_max, fails)
      PROVE  BPrintInv'
  <2>1. size_init \in Nat
    BY SizesAreNumbers
  <2> QED BY <1>2, <2>1, PrintInitHolds DEF BPrintInv
<1>3. ASSUME NEW size \in SizesMax, InitForBuffer(size)
      PROVE  BPrintInv'
  BY <1>3, InitForBufferHolds DEF BPrintInv
<1>4. ASSUME NEW n \in 0 .. MaxPrint, NEW fails \in BOOLEAN,
             \/ AppendData(n, fails) \/ PrintF(n, fails) \/ GetBuffer(n, fails)
             \/ \E fmt \in {1, 2} : PrintDate(n, fmt, fails)
      PROVE  BPrintInv'
  <2>1. n \in Nat
    BY SizesAreNumbers
  <2>2. CASE AppendData(n, fails) \/ PrintF(n, fails)
    BY <2>1, <2>2, AppendDataHolds DEF PrintF, BPrintInv
  <2>3. CASE GetBuffer(n, fails)
    BY <2>1, <2>3, GetBufferHolds DEF BPrintInv
  <2>4. CASE \E fmt \in {1, 2} : PrintDate(n, fmt, fails)
    <3>1. PICK fmt \in Nat : PrintDate(n, fmt, fails)
      BY <2>4
    <3> QED BY <2>1, <3>1, PrintDateHolds DEF BPrintInv
  <2> QED BY <1>4, <2>2, <2>3, <2>4
<1>5. CASE Clear
  BY <1>5, ClearHolds DEF BPrintInv
<1>6. ASSUME NEW wanted \in BOOLEAN, NEW fails \in BOOLEAN, Finalize(wanted, fails)
      PROVE  BPrintInv'
  BY <1>6, FinalizeHolds DEF BPrintInv
<1> QED BY <1>1, <1>2, <1>3, <1>4, <1>5, <1>6 DEF BPrintNext

\* bprint.c: whatever is printed, cleared or asked for, and whatever fails, the
\* memory of a buffer has the first letters of all that was printed, as many as fit,
\* and a 0 behind them, its size is at most size_max, and a string given to the
\* caller is that text, whatever the sizes are.
THEOREM BPrintInductive == BPrintSpec => []BPrintInv
<1>1. BPrintInit => BPrintInv
  BY DEF BPrintInit, BPrintInv
<1>2. BPrintInv /\ [BPrintNext]_bpVars => BPrintInv'
  BY BPrintStep
<1> QED BY <1>1, <1>2, PTL DEF BPrintSpec

\* What Text says is what the callers are promised: a buffer that is complete has all
\* the letters, since len can only stop below UINT_MAX - 5 in a buffer that was filled.
LEMMA PromiseHolds ==
  ASSUME BPrintInv  PROVE TextIsWhole
<1>1. SUFFICES ASSUME buf # NoBuf  PROVE TextIsWhole
  BY DEF TextIsWhole
<1>2. PICK s \in Nat, m \in Nat, l \in Nat, str \in Seq(Nat) :
         /\ s = buf.size /\ m = buf.size_max /\ l = buf.len /\ str = buf.str
         /\ s <= m /\ s \in 0 .. AllocMax /\ said \in 0 .. UIntMax /\ l = Least(said, UIntMax - 5)
         /\ str = <<>> \/ Text(str, l, s, said)
         /\ buf.live => Text(str, l, s, said)
  BY <1>1 DEF BPrintInv, LiveText, Final, BufRecords, Text
<1>3. buf.live => Len(buf.str) = buf.size
  BY <1>2 DEF Text
<1>4. ASSUME str # <<>>
      PROVE  /\ str[Least(l, s - 1) + 1] = 0
             /\ \A i \in 1 .. Least(l, s - 1) : str[i] = Letter(i)
  <2>1. Text(str, l, s, said)
    BY <1>2, <1>4
  <2>2. Len(str) = s /\ s # 0
    <3>1. Len(str) = s
      BY <2>1 DEF Text
    <3>2. Len(str) # 0
      BY <1>4, EmptySeq
    <3> QED BY <3>1, <3>2
  <2> QED BY <2>1, <2>2 DEF Text
<1>5. l < s => Least(l, s - 1) = said
  <2>1. PICK all \in Nat, U \in Nat, A \in Nat :
           all = said /\ U = UIntMax /\ A = AllocMax /\ A < U - 5 /\ s <= A /\ l = Least(all, U - 5)
    BY <1>2, SizesAreNumbers
  <2>2. l < s => l = all /\ Least(l, s - 1) = l
    BY <2>1 DEF Least
  <2> QED BY <2>1, <2>2
<1> QED BY <1>2, <1>3, <1>4, <1>5 DEF TextIsWhole, IsComplete

\* bprint.h: the string is what was printed first, as much as fits, and ended; len
\* counts all of it, and a buffer that says it is complete holds everything.
THEOREM TextStaysWhole == BPrintSpec => []TextIsWhole
<1>1. BPrintInv => TextIsWhole
  BY PromiseHolds
<1> QED BY <1>1, BPrintInductive, PTL
-----------------------------------------------------------------------------
(***************************************************************************)
(* The strings of dictionaries and objects                                 *)
(***************************************************************************)
\* The provers do not know that a literal such as "s" is a STRING: Letters is STRING.
Letters == STRING \union {"s", "b", "d", "n"}
Texts == Seq(Letters)
Addresses == Nat \ {0}
EntryType == [key : Texts, value : Texts, k : Addresses, v : Addresses]
HeapType == [live : SUBSET Addresses, lost : SUBSET Addresses, bad : BOOLEAN]

\* The strings in use are mine, those of the other owners, and the lost ones.
Held(h, mine, other) ==
    /\ h \in HeapType /\ IsFiniteSet(h.live) /\ ~h.bad
    /\ h.live = mine \union other \union h.lost
    /\ mine \intersect other = {} /\ mine \intersect h.lost = {} /\ other \intersect h.lost = {}

LEMMA StringsAreTexts ==
  ASSUME NEW text \in Seq(STRING)
  PROVE  text \in Texts
<1>1. STRING \subseteq Letters
  BY DEF Letters
<1>2. text \in Seq(Letters)
  BY <1>1, SeqMonotonic
<1> QED BY <1>2 DEF Texts

\* There is always an address that is not in use.
LEMMA FreshIs ==
  ASSUME NEW live, live \subseteq Addresses, IsFiniteSet(live), NEW p, p = Fresh(live)
  PROVE  p \in Addresses /\ p \notin live
<1>1. PICK n \in Nat : n = Cardinality(live)
  BY FS_CardinalityType
<1> DEFINE free == (1 .. n + 1) \ live
<1>2. free # {}
  <2>1. SUFFICES ASSUME 1 .. n + 1 \subseteq live  PROVE FALSE
    OBVIOUS
  <2>2. 1 \in Int /\ n + 1 \in Int
    OBVIOUS
  <2>3. Cardinality(1 .. n + 1) = n + 1
    BY <2>2, FS_Interval
  <2>4. 1 .. n + 1 \in SUBSET live
    BY <2>1
  <2>5. Cardinality(1 .. n + 1) <= Cardinality(live)
    BY <2>4, FS_Subset, Zenon
  <2> QED BY <1>1, <2>3, <2>5
<1>3. PICK a \in free : \A b \in free : a <= b
  <2>1. free \subseteq Nat
    OBVIOUS
  <2> HIDE DEF free
  <2> QED BY <1>2, <2>1, LeastOf
<1>4. a \in 1 .. n + 1 /\ a \notin live /\ \A b \in 1 .. a - 1 : b \in live
  <2>1. \A b \in 1 .. a - 1 : b \in 1 .. n + 1 /\ ~(a <= b)
    BY <1>3
  <2> QED BY <1>3, <2>1
<1>5. p \in 1 .. Cardinality(live) + 1 /\ p \notin live
  BY <1>1, <1>4, Zenon DEF Fresh
<1> QED BY <1>1, <1>5 DEF Addresses

LEMMA NewHeld ==
  ASSUME NEW h, NEW A, NEW B, Held(h, A, B), NEW P, P \subseteq Addresses, IsFiniteSet(P),
         P \intersect h.live = {}, NEW g, g = Allocated(h, P)
  PROVE  Held(g, A \union P, B) /\ g.live = h.live \union P /\ g.lost = h.lost
<1>1. PICK l \in SUBSET Addresses, o \in SUBSET Addresses :
         h \in [live : {l}, lost : {o}, bad : {FALSE}] /\ h.live = l /\ h.lost = o
  BY DEF Held, HeapType
<1>2. PICK m \in SUBSET Addresses : m = l \union P
  OBVIOUS
<1>3. g \in [live : {m}, lost : {o}, bad : {FALSE}]
  BY <1>1, <1>2 DEF Allocated
<1>4. g \in HeapType /\ g.live = m /\ g.lost = o /\ ~g.bad
  BY <1>3 DEF HeapType
<1>5. IsFiniteSet(m)
  BY <1>1, <1>2, FS_Union DEF Held
<1>6. /\ m = (A \union P) \union B \union o
      /\ (A \union P) \intersect B = {} /\ (A \union P) \intersect o = {} /\ B \intersect o = {}
  BY <1>1, <1>2 DEF Held
<1> QED BY <1>1, <1>2, <1>4, <1>5, <1>6 DEF Held

LEMMA FreeHeld ==
  ASSUME NEW h, NEW A, NEW B, Held(h, A, B), NEW P, P \subseteq A \union {0},
         NEW g, g = FreeStrings(h, P)
  PROVE  Held(g, A \ P, B) /\ g.live = h.live \ P /\ g.lost = h.lost
<1>1. PICK l \in SUBSET Addresses, o \in SUBSET Addresses :
         h \in [live : {l}, lost : {o}, bad : {FALSE}] /\ h.live = l /\ h.lost = o
  BY DEF Held, HeapType
<1>2. PICK m \in SUBSET Addresses : m = l \ P
  OBVIOUS
<1>3. P \subseteq l \union {0}
  BY <1>1 DEF Held
<1>4. g \in [live : {m}, lost : {o}, bad : {FALSE}]
  BY <1>1, <1>2, <1>3 DEF FreeStrings
<1>5. g \in HeapType /\ g.live = m /\ g.lost = o /\ ~g.bad
  BY <1>4 DEF HeapType
<1>6. IsFiniteSet(m)
  BY <1>1, <1>2, FS_Difference DEF Held
<1>7. /\ m = (A \ P) \union B \union o
      /\ (A \ P) \intersect B = {} /\ (A \ P) \intersect o = {} /\ B \intersect o = {}
  <2>1. 0 \notin B /\ 0 \notin o
    BY <1>1 DEF Held, Addresses
  <2> QED BY <1>1, <1>2, <2>1 DEF Held
<1> QED BY <1>1, <1>2, <1>5, <1>6, <1>7 DEF Held

\* Some strings of mine are lost.
Lose(h, P) == [h EXCEPT !.lost = @ \union P]

LEMMA LoseHeld ==
  ASSUME NEW h, NEW A, NEW B, Held(h, A, B), NEW P, P \subseteq A,
         NEW g, g = Lose(h, P)
  PROVE  Held(g, A \ P, B) /\ g.live = h.live
<1>1. PICK l \in SUBSET Addresses, o \in SUBSET Addresses :
         h \in [live : {l}, lost : {o}, bad : {FALSE}] /\ h.live = l /\ h.lost = o
  BY DEF Held, HeapType
<1>2. PICK q \in SUBSET Addresses : q = o \union P
  BY <1>1 DEF Held
<1>3. g \in [live : {l}, lost : {q}, bad : {FALSE}]
  BY <1>1, <1>2 DEF Lose
<1>4. g \in HeapType /\ g.live = l /\ g.lost = q /\ ~g.bad
  BY <1>3 DEF HeapType
<1>5. IsFiniteSet(l)
  BY <1>1 DEF Held
<1>6. /\ l = (A \ P) \union B \union q
      /\ (A \ P) \intersect B = {} /\ (A \ P) \intersect q = {} /\ B \intersect q = {}
  BY <1>1, <1>2 DEF Held
<1> QED BY <1>1, <1>4, <1>5, <1>6 DEF Held

\* Strings go from one owner to another.
LEMMA MoveHeld ==
  ASSUME NEW h, NEW A, NEW B, Held(h, A, B), NEW C, NEW D, C \intersect D = {},
         C \union D = A \union B
  PROVE  Held(h, C, D)
BY DEF Held

OwnEntries(d) == d \in Seq(EntryType) /\ StringsDiffer(d)

LEMMA StringsAre ==
  ASSUME NEW d \in Seq(EntryType)
  PROVE  /\ DOMAIN d = 1 .. Len(d) /\ Len(d) \in Nat /\ \A i \in 1 .. Len(d) : d[i] \in EntryType
         /\ Strings(d) = {d[i].k : i \in 1 .. Len(d)} \union {d[i].v : i \in 1 .. Len(d)}
         /\ Strings(d) \subseteq Addresses
<1>1. DOMAIN d = 1 .. Len(d) /\ Len(d) \in Nat /\ \A i \in 1 .. Len(d) : d[i] \in EntryType
  OBVIOUS
<1>2. Strings(d) = {d[i].k : i \in 1 .. Len(d)} \union {d[i].v : i \in 1 .. Len(d)}
  <2>1. Strings(d) = UNION {{d[i].k, d[i].v} : i \in 1 .. Len(d)}
    BY <1>1, Zenon DEF Strings
  <2>2. \A s : s \in Strings(d) <=> \E i \in 1 .. Len(d) : s = d[i].k \/ s = d[i].v
    BY <2>1
  <2> QED BY <2>2
<1>3. \A i \in 1 .. Len(d) : d[i].k \in Addresses /\ d[i].v \in Addresses
  BY <1>1 DEF EntryType
<1> QED BY <1>1, <1>2, <1>3

LEMMA NoEntries == OwnEntries(<<>>) /\ Strings(<<>>) = {}
<1>1. <<>> \in Seq(EntryType) /\ Len(<<>>) = 0
  OBVIOUS
<1>2. Strings(<<>>) = {}
  <2>1. 1 .. Len(<<>>) = {}
    BY <1>1
  <2>2. Strings(<<>>) = {<<>>[i].k : i \in 1 .. Len(<<>>)} \union {<<>>[i].v : i \in 1 .. Len(<<>>)}
    BY <1>1, StringsAre
  <2> QED BY <2>1, <2>2
<1> QED BY <1>1, <1>2 DEF OwnEntries, StringsDiffer

\* An entry that is taken out takes its two strings with it.
LEMMA WithoutIs ==
  ASSUME NEW d, OwnEntries(d), NEW tag \in 1 .. Len(d), NEW w, w = Without(d, tag),
         NEW old, old = d[tag]
  PROVE  /\ OwnEntries(w) /\ old \in EntryType /\ old.k # old.v
         /\ Strings(d) = Strings(w) \union {old.k, old.v}
         /\ Strings(w) \intersect {old.k, old.v} = {}
<1>1. d \in Seq(EntryType) /\ StringsDiffer(d)
  BY DEF OwnEntries
<1>2. PICK n \in Nat : n = Len(d) /\ DOMAIN d = 1 .. n /\ \A i \in 1 .. n : d[i] \in EntryType
  BY <1>1
<1>3. w \in Seq(EntryType) /\ Len(w) = n - 1 /\ \A i \in 1 .. n - 1 : w[i] = IF i = tag THEN d[n] ELSE d[i]
  <2>1. PICK u : u = IF tag = n THEN d ELSE [d EXCEPT ![tag] = d[n]]
    OBVIOUS
  <2>2. u \in Seq(EntryType) /\ Len(u) = n /\ \A i \in 1 .. n : u[i] = IF i = tag THEN d[n] ELSE d[i]
    BY <1>1, <1>2, <2>1
  <2>3. w = SubSeq(u, 1, n - 1)
    BY <1>2, <2>1, <2>2 DEF Without, Front, Last
  <2>4. \A i \in 1 .. n - 1 : u[i] \in EntryType
    BY <2>2
  <2>5. 1 \in Int /\ n - 1 \in Int
    OBVIOUS
  <2>6. /\ w \in Seq(EntryType) /\ Len(w) = IF 1 <= n - 1 THEN n - 1 - 1 + 1 ELSE 0
        /\ \A i \in 1 .. n - 1 - 1 + 1 : w[i] = u[1 + i - 1]
    BY <2>3, <2>4, <2>5, SubSeqProperties
  <2>7. Len(w) = n - 1
    BY <1>2, <2>6
  <2>8. \A i \in 1 .. n - 1 : i \in 1 .. n - 1 - 1 + 1 /\ 1 + i - 1 = i /\ i \in 1 .. n
    OBVIOUS
  <2> QED BY <2>2, <2>6, <2>7, <2>8
<1>4. PICK from : from = [i \in 1 .. n - 1 |-> IF i = tag THEN n ELSE i]
  OBVIOUS
<1>5. /\ \A i \in 1 .. n - 1 : w[i] = d[from[i]] /\ from[i] \in (1 .. n) \ {tag}
      /\ \A i, j \in 1 .. n - 1 : i # j => from[i] # from[j]
      /\ \A i \in (1 .. n) \ {tag} : \E j \in 1 .. n - 1 : from[j] = i
  <2>1. \A i \in 1 .. n - 1 : w[i] = d[from[i]] /\ from[i] \in (1 .. n) \ {tag}
    BY <1>2, <1>3, <1>4
  <2>2. \A i, j \in 1 .. n - 1 : i # j => from[i] # from[j]
    BY <1>4
  <2>3. ASSUME NEW i \in (1 .. n) \ {tag}  PROVE \E j \in 1 .. n - 1 : from[j] = i
    <3>1. PICK j : j = IF i = n THEN tag ELSE i
      OBVIOUS
    <3>2. j \in 1 .. n - 1 /\ from[j] = i
      BY <1>2, <1>4, <3>1
    <3> QED BY <3>2
  <2> QED BY <2>1, <2>2, <2>3
<1>6. \A i, j \in 1 .. n : /\ d[i].k # d[j].v
                           /\ i # j => d[i].k # d[j].k /\ d[i].v # d[j].v
  BY <1>1, <1>2 DEF StringsDiffer
<1>7. DOMAIN w = 1 .. n - 1
  BY <1>3
<1>8. StringsDiffer(w)
  <2>1. ASSUME NEW i \in 1 .. n - 1, NEW j \in 1 .. n - 1
        PROVE  w[i].k # w[j].v /\ (i # j => w[i].k # w[j].k /\ w[i].v # w[j].v)
    <3>1. PICK a \in 1 .. n, b \in 1 .. n : a = from[i] /\ b = from[j] /\ w[i] = d[a] /\ w[j] = d[b]
      <4>1. w[i] = d[from[i]] /\ from[i] \in 1 .. n
        BY <1>5
      <4>2. w[j] = d[from[j]] /\ from[j] \in 1 .. n
        BY <1>5
      <4> QED BY <4>1, <4>2
    <3>2. i # j => a # b
      BY <1>5, <3>1
    <3> QED BY <1>6, <3>1, <3>2
  <2> QED BY <1>7, <2>1 DEF StringsDiffer
<1>9. /\ Strings(d) = {d[i].k : i \in 1 .. n} \union {d[i].v : i \in 1 .. n}
      /\ Strings(w) = {w[i].k : i \in 1 .. n - 1} \union {w[i].v : i \in 1 .. n - 1}
  BY <1>1, <1>2, <1>3, StringsAre
<1>10. \A i \in 1 .. n : i = tag \/ \E j \in 1 .. n - 1 : w[j] = d[i]
  BY <1>5
<1>11. Strings(d) = Strings(w) \union {old.k, old.v}
  <2>1. Strings(d) \subseteq Strings(w) \union {old.k, old.v}
    BY <1>9, <1>10
  <2>2. Strings(w) \union {old.k, old.v} \subseteq Strings(d)
    <3>1. old.k \in Strings(d) /\ old.v \in Strings(d)
      BY <1>2, <1>9
    <3>2. \A j \in 1 .. n - 1 : \E i \in 1 .. n : w[j] = d[i]
      BY <1>5
    <3>3. Strings(w) \subseteq Strings(d)
      BY <1>9, <3>2
    <3> QED BY <3>1, <3>3
  <2> QED BY <2>1, <2>2
<1>12. Strings(w) \intersect {old.k, old.v} = {}
  <2>1. \A j \in 1 .. n - 1 : w[j].k \notin {old.k, old.v} /\ w[j].v \notin {old.k, old.v}
    BY <1>2, <1>5, <1>6
  <2> QED BY <1>9, <2>1
<1>13. old \in EntryType /\ old.k # old.v
  BY <1>2, <1>6
<1> QED BY <1>3, <1>8, <1>11, <1>12, <1>13 DEF OwnEntries

LEMMA AppendIs ==
  ASSUME NEW d, OwnEntries(d), NEW e \in EntryType, e.k # e.v,
         {e.k, e.v} \intersect Strings(d) = {}, NEW w, w = Append(d, e)
  PROVE  OwnEntries(w) /\ Strings(w) = Strings(d) \union {e.k, e.v}
<1>1. d \in Seq(EntryType) /\ StringsDiffer(d)
  BY DEF OwnEntries
<1>2. PICK n \in Nat : n = Len(d) /\ DOMAIN d = 1 .. n /\ \A i \in 1 .. n : d[i] \in EntryType
  BY <1>1
<1>3. /\ w \in Seq(EntryType) /\ Len(w) = n + 1 /\ DOMAIN w = 1 .. n + 1
      /\ \A i \in 1 .. n : w[i] = d[i] /\ i \in 1 .. n + 1
      /\ w[n + 1] = e /\ n + 1 \in 1 .. n + 1
  BY <1>1, <1>2
<1>4. \A i \in 1 .. n + 1 : i \in 1 .. n \/ i = n + 1
  OBVIOUS
<1>5. \A i, j \in 1 .. n : /\ d[i].k # d[j].v
                           /\ i # j => d[i].k # d[j].k /\ d[i].v # d[j].v
  BY <1>1, <1>2 DEF StringsDiffer
<1>6. /\ Strings(d) = {d[i].k : i \in 1 .. n} \union {d[i].v : i \in 1 .. n}
      /\ Strings(w) = {w[i].k : i \in 1 .. n + 1} \union {w[i].v : i \in 1 .. n + 1}
  BY <1>1, <1>2, <1>3, StringsAre
<1>7. \A i \in 1 .. n : d[i].k \notin {e.k, e.v} /\ d[i].v \notin {e.k, e.v}
  BY <1>6
<1>8. StringsDiffer(w)
  BY <1>3, <1>4, <1>5, <1>7 DEF StringsDiffer
<1>9. Strings(w) = Strings(d) \union {e.k, e.v}
  <2>1. Strings(w) \subseteq Strings(d) \union {e.k, e.v}
    BY <1>3, <1>4, <1>6
  <2>2. Strings(d) \union {e.k, e.v} \subseteq Strings(w)
    BY <1>3, <1>6
  <2> QED BY <2>1, <2>2
<1> QED BY <1>3, <1>8, <1>9 DEF OwnEntries

LEMMA GetIs ==
  ASSUME NEW d \in Seq(EntryType), NEW key, NEW flags, NEW tag, tag = Get(d, key, 0, flags)
  PROVE  tag = 0 \/ tag \in 1 .. Len(d)
<1>1. PICK n \in Nat : n = Len(d)
  OBVIOUS
<1> DEFINE found == {i \in 0 + 1 .. Len(d) : Matches(d[i].key, key, flags)}
<1>2. tag = IF found = {} THEN 0 ELSE CHOOSE i \in found : \A j \in found : i <= j
  BY Zenon DEF Get
<1>3. found \subseteq Nat /\ found \subseteq 1 .. n
  BY <1>1
<1> HIDE DEF found
<1>5. ASSUME found # {}  PROVE tag \in found
  <2>1. \E i \in found : \A j \in found : i <= j
    BY <1>3, <1>5, LeastOf
  <2> QED BY <1>2, <1>5, <2>1, Zenon
<1> QED BY <1>1, <1>2, <1>3, <1>5

DictHeld(d, h, other) == OwnEntries(d) /\ Held(h, Strings(d), other)

\* What a call on a dictionary leaves, while the others own other.
Results(other) == {r \in [d : Seq(EntryType), h : HeapType, ok : BOOLEAN] : DictHeld(r.d, r.h, other)}

LEMMA ResultIs ==
  ASSUME NEW d, NEW h, NEW other, DictHeld(d, h, other), NEW ok \in BOOLEAN,
         NEW r, r = [d |-> d, h |-> h, ok |-> ok]
  PROVE  r \in Results(other)
<1>1. d \in Seq(EntryType) /\ h \in HeapType
  BY DEF DictHeld, OwnEntries, Held
<1>2. r \in [d : Seq(EntryType), h : HeapType, ok : BOOLEAN] /\ r.d = d /\ r.h = h
  BY <1>1
<1> QED BY <1>2 DEF Results

\* av_dict_set, of a dictionary whose strings are all its own.
LEMMA SetEntryKeeps ==
  ASSUME NEW d, NEW h, NEW other, DictHeld(d, h, other), NEW key \in Texts,
         NEW value, value = NoValue \/ value \in Texts, NEW flags, NEW fail,
         NEW r, r = SetEntry(d, h, key, value, flags, fail)
  PROVE  r \in Results(other)
<1> DEFINE tag       == IF "MULTIKEY" \in flags THEN 0 ELSE Get(d, key, 0, flags)
           k         == Fresh(h.live)
           v         == Fresh(h.live \union {k})
           copyKey   == "DONT_STRDUP_KEY" \in flags \/ fail # "key"
           copyValue == /\ value # NoValue
                        /\ "DONT_STRDUP_VAL" \in flags \/ (copyKey /\ fail # "value")
           copies    == (IF copyKey THEN {k} ELSE {}) \union (IF copyValue THEN {v} ELSE {})
           h1        == Allocated(h, copies)
           appends   == tag # 0 /\ "APPEND" \in flags
           old       == d[tag]
           d2        == IF tag = 0 THEN d ELSE Without(d, tag)
           h2        == IF tag = 0 THEN h1 ELSE Released(h1, old, appends)
           kept      == IF appends THEN [h2 EXCEPT !.lost = @ \union {old.v}] ELSE h2
           n         == Fresh(h2.live)
           fails     == ~copyKey \/ (value # NoValue /\ ~copyValue) \/ (d = <<>> /\ fail = "dict")
           stays     == tag # 0 /\ "DONT_OVERWRITE" \in flags
           fails2    == (tag = 0 /\ fail = "elems") \/ (appends /\ fail = "newval")
           longer    == [key |-> key, value |-> old.value \o value, k |-> k, v |-> n]
           new       == [key |-> key, value |-> value, k |-> k, v |-> v]
<1>1. r = IF fails THEN [d |-> d, h |-> FreeStrings(h1, copies), ok |-> FALSE]
          ELSE IF stays THEN [d |-> d, h |-> FreeStrings(h1, copies), ok |-> TRUE]
          ELSE IF value = NoValue THEN [d |-> d2, h |-> FreeStrings(kept, {k}), ok |-> TRUE]
          ELSE IF fails2 THEN [d |-> d2, h |-> FreeStrings(kept, copies), ok |-> FALSE]
          ELSE IF appends
          THEN [d |-> Append(d2, longer),
                h |-> FreeStrings(Allocated(h2, {n}), {old.v, v}), ok |-> TRUE]
          ELSE [d |-> Append(d2, new), h |-> h2, ok |-> TRUE]
  BY Zenon DEF SetEntry
<1> DEFINE mine  == Strings(d)
           taken == IF tag = 0 THEN {} ELSE {old.k, old.v}
           freed == IF tag = 0 THEN {} ELSE IF appends THEN {old.k} ELSE {old.v, old.k}
<1>2. OwnEntries(d) /\ d \in Seq(EntryType) /\ Held(h, mine, other)
  BY DEF DictHeld, OwnEntries
<1>3. h.live \subseteq Addresses /\ IsFiniteSet(h.live) /\ mine \subseteq h.live
  BY <1>2 DEF Held, HeapType
<1>4. k \in Addresses /\ k \notin h.live
  BY <1>3, FreshIs
<1>5. v \in Addresses /\ v \notin h.live /\ v # k
  <2>1. h.live \union {k} \subseteq Addresses
    BY <1>3, <1>4
  <2>2. IsFiniteSet(h.live \union {k})
    BY <1>3, FS_AddElement
  <2>3. v \in Addresses /\ v \notin h.live \union {k}
    BY <2>1, <2>2, FreshIs
  <2> QED BY <2>3
<1> HIDE DEF k, v
<1>6. copies \subseteq {k, v} /\ (copyKey => k \in copies)
      /\ (copyKey /\ copyValue => copies = {k, v}) /\ (copyKey /\ value = NoValue => copies = {k})
  OBVIOUS
<1>7. tag = 0 \/ tag \in 1 .. Len(d)
  BY <1>2, GetIs
<1> HIDE DEF tag
<1>8. fails \/ (copyKey /\ (value = NoValue \/ copyValue))
  OBVIOUS
<1> HIDE DEF copies, copyKey, copyValue, fails, stays
<1>9. Held(h1, mine \union copies, other) /\ h1.live = h.live \union copies
  <2>1. copies \subseteq Addresses /\ copies \intersect h.live = {}
    BY <1>4, <1>5, <1>6
  <2>2. IsFiniteSet(copies)
    <3>1. IsFiniteSet({k, v})
      <4>1. IsFiniteSet({k} \union {v})
        BY FS_Singleton, FS_AddElement
      <4>2. {k} \union {v} = {k, v}
        OBVIOUS
      <4> QED BY <4>1, <4>2
    <3> QED BY <1>6, <3>1, FS_Subset
  <2> HIDE DEF mine
  <2>3. PICK g : g = Allocated(h, copies)
    OBVIOUS
  <2>4. Held(g, mine \union copies, other) /\ g.live = h.live \union copies
    BY <1>2, <2>1, <2>2, <2>3, NewHeld
  <2> QED BY <2>3, <2>4
<1> HIDE DEF h1, mine
<1>10. k \notin mine /\ v \notin mine /\ copies \intersect mine = {}
  BY <1>3, <1>4, <1>5, <1>6
<1>11. DictHeld(d, FreeStrings(h1, copies), other)
  <2>1. copies \subseteq (mine \union copies) \union {0} /\ (mine \union copies) \ copies = mine
    BY <1>10
  <2>2. Held(FreeStrings(h1, copies), mine, other)
    BY <1>9, <2>1, FreeHeld
  <2> QED BY <1>2, <2>2 DEF DictHeld, mine
<1>12. /\ OwnEntries(d2) /\ mine = Strings(d2) \union taken /\ Strings(d2) \intersect taken = {}
       /\ tag # 0 => old \in EntryType /\ old.k # old.v
  BY <1>2, <1>7, WithoutIs DEF mine
<1> HIDE DEF d2, old
<1>13. freed \subseteq taken /\ (appends => taken = freed \union {old.v} /\ freed = {old.k})
       /\ (~appends => freed = taken)
  OBVIOUS
<1>14. Held(h2, (mine \union copies) \ freed, other) /\ h2.live = h1.live \ freed
  <2>1. h2 = IF tag = 0 THEN h1 ELSE FreeStrings(h1, freed)
    BY DEF Released
  <2>2. tag = 0 => freed = {} /\ (mine \union copies) \ {} = mine \union copies /\ h1.live \ {} = h1.live
    OBVIOUS
  <2>3. freed \subseteq (mine \union copies) \union {0}
    BY <1>12, <1>13
  <2> HIDE DEF h2, freed
  <2>4. CASE tag = 0
    BY <1>9, <2>1, <2>2, <2>4
  <2>5. CASE tag # 0
    <3>1. h2 = FreeStrings(h1, freed)
      BY <2>1, <2>5
    <3> QED BY <1>9, <2>3, <3>1, FreeHeld
  <2> QED BY <2>4, <2>5
<1>15. kept = IF appends THEN [h2 EXCEPT !.lost = @ \union {old.v}] ELSE h2
  OBVIOUS
<1> HIDE DEF kept, h2, freed, taken
<1>16. Held(kept, Strings(d2) \union copies, other)
  <2>1. CASE appends
    <3>1. {old.v} \subseteq (mine \union copies) \ freed
      BY <1>12, <1>13, <2>1 DEF appends
    <3>2. ((mine \union copies) \ freed) \ {old.v} = Strings(d2) \union copies
      BY <1>10, <1>12, <1>13, <2>1
    <3>3. kept = Lose(h2, {old.v})
      BY <1>15, <2>1 DEF Lose
    <3> QED BY <1>14, <3>1, <3>2, <3>3, LoseHeld
  <2>2. CASE ~appends
    <3>1. (mine \union copies) \ freed = Strings(d2) \union copies
      BY <1>10, <1>12, <1>13, <2>2
    <3> QED BY <1>14, <1>15, <2>2, <3>1
  <2> QED BY <2>1, <2>2
<1>17. DictHeld(d2, FreeStrings(kept, copies), other)
  <2>1. copies \subseteq (Strings(d2) \union copies) \union {0} /\ (Strings(d2) \union copies) \ copies = Strings(d2)
    BY <1>10, <1>12
  <2>2. Held(FreeStrings(kept, copies), Strings(d2), other)
    BY <1>16, <2>1, FreeHeld
  <2> QED BY <1>12, <2>2 DEF DictHeld
<1> HIDE DEF appends, fails2
<1>18. CASE ~fails /\ ~stays /\ value # NoValue /\ ~fails2 /\ appends
  <2>1. copies = {k, v} /\ value \in Texts /\ old \in EntryType /\ old.k # old.v
    BY <1>6, <1>8, <1>12, <1>18 DEF appends
  <2>2. h2.live \subseteq Addresses /\ IsFiniteSet(h2.live)
    BY <1>14 DEF Held, HeapType
  <2>3. n \in Addresses /\ n \notin h2.live
    BY <2>2, FreshIs
  <2> HIDE DEF n
  <2>4. Held(Allocated(h2, {n}), ((mine \union copies) \ freed) \union {n}, other)
    <3>1. {n} \subseteq Addresses /\ {n} \intersect h2.live = {}
      BY <2>3
    <3>2. IsFiniteSet({n})
      BY FS_Singleton
    <3> QED BY <1>14, <3>1, <3>2, NewHeld
  <2>5. h2.live = (h.live \union {k, v}) \ {old.k}
    BY <1>9, <1>13, <1>14, <1>18, <2>1
  <2>6. old.v \in mine /\ old.k \in mine
    BY <1>12, <1>13, <1>18
  <2>7. k \in h2.live /\ v \in h2.live /\ old.v \in h2.live /\ mine \ {old.k} \subseteq h2.live
    BY <1>3, <1>10, <2>1, <2>5, <2>6
  <2>8. {old.v, v} \subseteq (((mine \union copies) \ freed) \union {n}) \union {0}
    BY <1>10, <1>13, <1>18, <2>1, <2>6
  <2>9. (((mine \union copies) \ freed) \union {n}) \ {old.v, v} = Strings(d2) \union {k, n}
    BY <1>5, <1>10, <1>12, <1>13, <1>18, <2>1, <2>3, <2>6, <2>7
  <2>10. Held(FreeStrings(Allocated(h2, {n}), {old.v, v}), Strings(d2) \union {k, n}, other)
    BY <2>4, <2>8, <2>9, FreeHeld
  <2>11. longer \in EntryType /\ longer.k = k /\ longer.v = n
    <3>1. old.value \in Texts
      BY <2>1 DEF EntryType
    <3>2. old.value \o value \in Texts
      BY <2>1, <3>1 DEF Texts
    <3>3. PICK t \in Texts : t = old.value \o value
      BY <3>2
    <3> QED BY <1>4, <2>3, <3>3 DEF EntryType
  <2>12. k # n /\ {k, n} \intersect Strings(d2) = {}
    BY <1>10, <1>12, <1>13, <1>18, <2>3, <2>7
  <2> HIDE DEF longer
  <2>13. OwnEntries(Append(d2, longer)) /\ Strings(Append(d2, longer)) = Strings(d2) \union {k, n}
    BY <1>12, <2>11, <2>12, AppendIs
  <2>14. DictHeld(Append(d2, longer), FreeStrings(Allocated(h2, {n}), {old.v, v}), other)
    BY <2>10, <2>13 DEF DictHeld
  <2>15. r = [d |-> Append(d2, longer), h |-> FreeStrings(Allocated(h2, {n}), {old.v, v}), ok |-> TRUE]
    BY <1>1, <1>18
  <2> QED BY <2>14, <2>15, ResultIs
<1>19. CASE ~fails /\ ~stays /\ value # NoValue /\ ~fails2 /\ ~appends
  <2>1. copies = {k, v} /\ value \in Texts
    BY <1>6, <1>8, <1>19
  <2>2. (mine \union copies) \ freed = Strings(d2) \union {k, v}
    BY <1>10, <1>12, <1>13, <1>19, <2>1
  <2>3. Held(h2, Strings(d2) \union {k, v}, other)
    BY <1>14, <2>2
  <2>4. new \in EntryType /\ new.k = k /\ new.v = v
    BY <1>4, <1>5, <2>1 DEF EntryType
  <2>5. k # v /\ {k, v} \intersect Strings(d2) = {}
    BY <1>5, <1>10, <1>12
  <2> HIDE DEF new
  <2>6. OwnEntries(Append(d2, new)) /\ Strings(Append(d2, new)) = Strings(d2) \union {k, v}
    BY <1>12, <2>4, <2>5, AppendIs
  <2>7. DictHeld(Append(d2, new), h2, other)
    BY <2>3, <2>6 DEF DictHeld
  <2>8. r = [d |-> Append(d2, new), h |-> h2, ok |-> TRUE]
    BY <1>1, <1>19
  <2> QED BY <2>7, <2>8, ResultIs
<1>20. CASE fails \/ stays
  <2> HIDE DEF longer, new, n
  <2>1. \E ok \in BOOLEAN : r = [d |-> d, h |-> FreeStrings(h1, copies), ok |-> ok]
    BY <1>1, <1>20
  <2> QED BY <1>11, <2>1, ResultIs
<1>21. CASE ~fails /\ ~stays /\ (value = NoValue \/ fails2)
  <2>1. value = NoValue => copies = {k}
    BY <1>6, <1>8, <1>21
  <2> HIDE DEF longer, new, n
  <2>2. \E ok \in BOOLEAN : r = [d |-> d2, h |-> FreeStrings(kept, copies), ok |-> ok]
    <3>1. CASE value = NoValue
      <4>1. r = [d |-> d2, h |-> FreeStrings(kept, {k}), ok |-> TRUE]
        BY <1>1, <1>21, <3>1
      <4> QED BY <2>1, <3>1, <4>1
    <3>2. CASE value # NoValue
      <4>1. r = [d |-> d2, h |-> FreeStrings(kept, copies), ok |-> FALSE]
        BY <1>1, <1>21, <3>2
      <4> QED BY <4>1
    <3> QED BY <3>1, <3>2
  <2> QED BY <1>17, <2>2, ResultIs
<1> QED BY <1>18, <1>19, <1>20, <1>21

\* Texts to set, whether in the entries of a dictionary or in pairs.
Settings(entries) ==
    /\ Len(entries) \in Nat
    /\ \A i \in 1 .. Len(entries) : entries[i].key \in Texts /\ entries[i].value \in Texts

LEMMA SetAllKeeps ==
  ASSUME NEW d, NEW h, NEW other, DictHeld(d, h, other), NEW entries, Settings(entries),
         NEW flags, NEW at, NEW fail, NEW r, r = SetAll(d, h, entries, flags, at, fail)
  PROVE  r \in Results(other)
<1>1. PICK n \in Nat : n = Len(entries)
  BY DEF Settings
<1>2. PICK first : first = [d |-> d, h |-> h, ok |-> TRUE]
  OBVIOUS
<1>3. first \in Results(other)
  BY <1>2, ResultIs
<1> DEFINE Next1(s, i) == SetNext(s, entries[i], flags, IF i = at THEN fail ELSE "none")
<1>4. ASSUME NEW i \in 1 .. n, NEW s \in Results(other)
      PROVE  Next1(s, i) \in Results(other)
  <2>1. DictHeld(s.d, s.h, other)
    BY DEF Results
  <2>2. entries[i].key \in Texts /\ entries[i].value \in Texts
    BY <1>1 DEF Settings
  <2>3. PICK fails : fails = IF i = at THEN fail ELSE "none"
    OBVIOUS
  <2>4. SetEntry(s.d, s.h, entries[i].key, entries[i].value, flags, fails) \in Results(other)
    BY <2>1, <2>2, SetEntryKeeps
  <2>5. Next1(s, i) = s \/ Next1(s, i) = SetEntry(s.d, s.h, entries[i].key, entries[i].value, flags, fails)
    BY <2>3 DEF SetNext
  <2> QED BY <2>4, <2>5
<1>5. PICK S : S = [k \in 0 .. n |-> Results(other)]
  OBVIOUS
<1>6. PICK next : next = [k \in 1 .. n |-> [s \in Results(other) |-> Next1(s, k)]]
  OBVIOUS
<1>7. \A k \in 1 .. n : \A s \in Results(other) : next[k][s] = Next1(s, k)
  BY <1>6
<1> HIDE DEF Next1
<1>8. \A k \in 1 .. n : \A s \in S[k - 1] : next[k][s] \in S[k]
  <2>1. \A k \in 1 .. n : k \in 0 .. n /\ k - 1 \in 0 .. n
    OBVIOUS
  <2>2. \A k \in 0 .. n : S[k] = Results(other)
    BY <1>5
  <2> QED BY <1>4, <1>7, <2>1, <2>2
<1>9. first \in S[0]
  <2>1. 0 \in 0 .. n
    OBVIOUS
  <2> QED BY <1>3, <1>5, <2>1
<1>10. PICK g : IsLoop(n, S, first, next, g)
  BY <1>8, <1>9, LoopExists
<1>11. \A k \in 0 .. n : g[k] \in Results(other)
  BY <1>5, <1>10 DEF IsLoop
<1> DEFINE Turns(t) == t = [i \in 0 .. n |-> IF i = 0 THEN first ELSE Next1(t[i - 1], i)]
<1>12. Turns(g)
  <2>1. \A k \in 1 .. n : next[k][g[k - 1]] = Next1(g[k - 1], k)
    <3>1. \A k \in 1 .. n : k - 1 \in 0 .. n
      OBVIOUS
    <3> QED BY <1>7, <1>11, <3>1
  <2>2. g = [k \in 0 .. n |-> IF k = 0 THEN first ELSE next[k][g[k - 1]]]
    BY <1>10 DEF IsLoop
  <2>3. \A k \in 0 .. n : k # 0 => k \in 1 .. n
    OBVIOUS
  <2>4. \A k \in 0 .. n : k # 0 => next[k][g[k - 1]] = Next1(g[k - 1], k)
    BY <2>1, <2>3
  <2> QED BY <2>2, <2>4
<1> DEFINE turn == CHOOSE t : Turns(t)
<1>13. Turns(turn)
  <2> HIDE DEF Turns
  <2> QED BY <1>12
<1>14. r = turn[n]
  BY <1>1, <1>2, Zenon DEF SetAll, Next1
<1> HIDE DEF turn
<1>15. \A k \in 0 .. n : turn[k] = IF k = 0 THEN first ELSE Next1(turn[k - 1], k)
  BY <1>13
<1>16. turn[0] = first /\ \A k \in 1 .. n : turn[k] = Next1(turn[k - 1], k)
  <2>1. 0 \in 0 .. n /\ \A k \in 1 .. n : k \in 0 .. n /\ k # 0
    OBVIOUS
  <2> QED BY <1>15, <2>1
<1>17. \A k \in 1 .. n : turn[k - 1] \in S[k - 1] => turn[k] \in S[k]
  <2>1. \A k \in 1 .. n : k \in 0 .. n /\ k - 1 \in 0 .. n
    OBVIOUS
  <2>2. \A k \in 0 .. n : S[k] = Results(other)
    BY <1>5
  <2> QED BY <1>4, <1>16, <2>1, <2>2
<1>18. \A k \in 0 .. n : turn[k] \in S[k]
  <2>1. turn[0] \in S[0]
    BY <1>9, <1>16
  <2> HIDE DEF Turns
  <2> QED BY <1>17, <2>1, LoopKeeps
<1>19. n \in 0 .. n
  OBVIOUS
<1> QED BY <1>5, <1>14, <1>18, <1>19

FieldType  == [p : Nat, text : Texts]
ObjectType == [s : FieldType, b : FieldType, d : Seq(EntryType), n : Texts]

Cell(p) == {p} \ {0}

\* The strings of an object are apart from each other.
OwnFields(x) ==
    /\ x \in ObjectType /\ OwnEntries(x.d)
    /\ x.s.p = x.b.p => x.s.p = 0
    /\ {x.s.p, x.b.p} \intersect Strings(x.d) = {}

ObjHeld(x, h, other) == OwnFields(x) /\ Held(h, Owned(x), other)

LEMMA NoTexts == <<>> \in Texts /\ NoString \in FieldType /\ NoString.p = 0
<1>1. <<>> \in Texts
  BY DEF Texts
<1> QED BY <1>1 DEF NoString, FieldType

LEMMA FieldsAre ==
  ASSUME NEW s \in FieldType, NEW b \in FieldType, NEW d, OwnEntries(d), NEW n \in Texts,
         s.p = b.p => s.p = 0, s.p \notin Strings(d), b.p \notin Strings(d),
         NEW x, x = [s |-> s, b |-> b, d |-> d, n |-> n]
  PROVE  OwnFields(x) /\ Owned(x) = Strings(d) \union Cell(s.p) \union Cell(b.p)
<1>1. d \in Seq(EntryType)
  BY DEF OwnEntries
<1>2. x \in ObjectType /\ x.s = s /\ x.b = b /\ x.d = d
  BY <1>1 DEF ObjectType
<1>3. Owned(x) = Strings(d) \union Cell(s.p) \union Cell(b.p)
  <2>1. Owned(x) = Strings(d) \union ({s.p, b.p} \ {0})
    BY <1>2 DEF Owned
  <2> QED BY <2>1 DEF Cell
<1> QED BY <1>2, <1>3 DEF OwnFields

LEMMA PartsAre ==
  ASSUME NEW x, OwnFields(x)
  PROVE  /\ x.s \in FieldType /\ x.b \in FieldType /\ OwnEntries(x.d) /\ x.n \in Texts
         /\ x.s.p \in Nat /\ x.b.p \in Nat
         /\ x.s.p = x.b.p => x.s.p = 0
         /\ x.s.p \notin Strings(x.d) /\ x.b.p \notin Strings(x.d)
         /\ Owned(x) = Strings(x.d) \union Cell(x.s.p) \union Cell(x.b.p)
         /\ x = [s |-> x.s, b |-> x.b, d |-> x.d, n |-> x.n]
<1>1. x \in ObjectType
  BY DEF OwnFields
<1>2. x.s \in FieldType /\ x.b \in FieldType /\ x.n \in Texts /\ x = [s |-> x.s, b |-> x.b, d |-> x.d, n |-> x.n]
  BY <1>1 DEF ObjectType
<1>3. x.s.p \in Nat /\ x.b.p \in Nat
  BY <1>2 DEF FieldType
<1>4. Owned(x) = Strings(x.d) \union Cell(x.s.p) \union Cell(x.b.p)
  BY DEF Owned, Cell
<1> QED BY <1>2, <1>3, <1>4 DEF OwnFields

\* A new string for a field that has none any more.
LEMMA NewStringIs ==
  ASSUME NEW h, NEW A, NEW B, Held(h, A, B), NEW text, NEW fails, fails \/ text \in Texts,
         NEW r, r = NewString(h, text, fails)
  PROVE  /\ r.f \in FieldType /\ Held(r.h, A \union Cell(r.f.p), B)
         /\ r.f.p \notin A /\ r.f.p \notin B
<1>1. h.live \subseteq Addresses /\ IsFiniteSet(h.live) /\ A \subseteq h.live /\ B \subseteq h.live
  BY DEF Held, HeapType
<1>2. CASE fails
  <2>1. r.f = NoString /\ r.h = h
    BY <1>2 DEF NewString
  <2>2. Cell(0) = {} /\ 0 \notin A /\ 0 \notin B
    BY <1>1 DEF Cell, Addresses
  <2>3. A \union Cell(0) = A
    BY <2>2
  <2> QED BY <2>1, <2>2, <2>3, NoTexts
<1>3. CASE ~fails
  <2>1. PICK p : p = Fresh(h.live)
    OBVIOUS
  <2>2. p \in Addresses /\ p \notin h.live
    BY <1>1, <2>1, FreshIs
  <2>3. r = [f |-> [p |-> p, text |-> text], h |-> Allocated(h, {p}), ok |-> TRUE]
    BY <1>3, <2>1 DEF NewString
  <2>4. PICK g : g = Allocated(h, {p})
    OBVIOUS
  <2>5. Held(g, A \union {p}, B)
    <3>1. {p} \subseteq Addresses /\ {p} \intersect h.live = {}
      BY <2>2
    <3>2. IsFiniteSet({p})
      BY FS_Singleton
    <3> QED BY <2>4, <3>1, <3>2, NewHeld
  <2>6. r.f.p = p /\ r.h = g /\ r.f = [p |-> p, text |-> text]
    BY <2>3, <2>4
  <2>7. r.f \in FieldType
    BY <1>3, <2>2, <2>6 DEF FieldType, Addresses
  <2>8. Cell(p) = {p}
    BY <2>2 DEF Cell, Addresses
  <2> QED BY <1>1, <1>3, <2>2, <2>5, <2>6, <2>7, <2>8
<1> QED BY <1>2, <1>3

LEMMA FreedHeld ==
  ASSUME NEW h, NEW A, NEW B, NEW p \in Nat, Held(h, A \union Cell(p), B), p \notin A
  PROVE  Held(FreeStrings(h, {p}), A, B)
<1>1. {p} \subseteq (A \union Cell(p)) \union {0} /\ (A \union Cell(p)) \ {p} = A
  BY DEF Cell
<1> QED BY <1>1, FreeHeld

LEMMA ReplacedHeld ==
  ASSUME NEW h, NEW A, NEW B, NEW p \in Nat, Held(h, A \union Cell(p), B), p \notin A,
         NEW text, NEW fails, fails \/ text \in Texts,
         NEW r, r = NewString(FreeStrings(h, {p}), text, fails)
  PROVE  /\ r.f \in FieldType /\ Held(r.h, A \union Cell(r.f.p), B)
         /\ r.f.p \notin A /\ r.f.p \notin B
<1>1. PICK g : g = FreeStrings(h, {p})
  OBVIOUS
<1>2. Held(g, A, B)
  BY <1>1, FreedHeld
<1>3. r = NewString(g, text, fails)
  BY <1>1
<1> QED BY <1>2, <1>3, NewStringIs

LEMMA SetStringHeld ==
  ASSUME NEW h, NEW A, NEW B, NEW field \in FieldType, Held(h, A \union Cell(field.p), B),
         field.p \notin A, NEW value, value = NoValue \/ value \in Texts, NEW fails,
         NEW r, r = SetString(field, h, value, fails)
  PROVE  r.f \in FieldType /\ Held(r.h, A \union Cell(r.f.p), B) /\ r.f.p \notin A
<1>1. field.p \in Nat
  BY DEF FieldType
<1>2. PICK no : no = (fails \/ value = NoValue)
  OBVIOUS
<1>3. r = NewString(FreeStrings(h, {field.p}), value, no) /\ (no \/ value \in Texts)
  BY <1>2 DEF SetString, Freed
<1> QED BY <1>1, <1>3, ReplacedHeld

LEMMA SetBinaryHeld ==
  ASSUME NEW h, NEW A, NEW B, NEW field \in FieldType, Held(h, A \union Cell(field.p), B),
         field.p \notin A, NEW value \in Texts, NEW fails,
         NEW r, r = SetBinary(field, h, value, fails)
  PROVE  r.f \in FieldType /\ Held(r.h, A \union Cell(r.f.p), B) /\ r.f.p \notin A
<1>1. field.p \in Nat
  BY DEF FieldType
<1>2. CASE value = <<>>
  <2>1. r.f = NoString /\ r.h = FreeStrings(h, {field.p})
    BY <1>2 DEF SetBinary, Freed
  <2>2. Held(r.h, A, B)
    BY <1>1, <2>1, FreedHeld
  <2>3. 0 \notin A /\ A \union Cell(0) = A
    BY <2>2 DEF Held, HeapType, Addresses, Cell
  <2> QED BY <2>1, <2>2, <2>3, NoTexts
<1>3. CASE value # <<>>
  <2>1. PICK no : no = (fails \/ value \notin Binaries)
    OBVIOUS
  <2>2. r = NewString(FreeStrings(h, {field.p}), value, no)
    BY <1>3, <2>1 DEF SetBinary, Freed
  <2> QED BY <1>1, <2>2, ReplacedHeld
<1> QED BY <1>2, <1>3

\* A field of an object that has been given another string.
LEMMA WithS ==
  ASSUME NEW x, OwnFields(x), NEW f \in FieldType, NEW h, NEW other,
         Held(h, (Strings(x.d) \union Cell(x.b.p)) \union Cell(f.p), other),
         f.p \notin Strings(x.d) \union Cell(x.b.p), NEW y, y = [x EXCEPT !.s = f]
  PROVE  ObjHeld(y, h, other)
<1>1. y = [s |-> f, b |-> x.b, d |-> x.d, n |-> x.n]
  BY PartsAre
<1>2. f.p = x.b.p => f.p = 0
  BY DEF Cell
<1>3. OwnFields(y) /\ Owned(y) = Strings(x.d) \union Cell(f.p) \union Cell(x.b.p)
  BY <1>1, <1>2, PartsAre, FieldsAre
<1>4. Owned(y) = (Strings(x.d) \union Cell(x.b.p)) \union Cell(f.p)
  BY <1>3
<1> QED BY <1>3, <1>4 DEF ObjHeld

LEMMA WithB ==
  ASSUME NEW x, OwnFields(x), NEW f \in FieldType, NEW h, NEW other,
         Held(h, (Strings(x.d) \union Cell(x.s.p)) \union Cell(f.p), other),
         f.p \notin Strings(x.d) \union Cell(x.s.p), NEW y, y = [x EXCEPT !.b = f]
  PROVE  ObjHeld(y, h, other)
<1>1. y = [s |-> x.s, b |-> f, d |-> x.d, n |-> x.n]
  BY PartsAre
<1>2. x.s.p = f.p => x.s.p = 0
  BY DEF Cell
<1>3. OwnFields(y) /\ Owned(y) = Strings(x.d) \union Cell(x.s.p) \union Cell(f.p)
  BY <1>1, <1>2, PartsAre, FieldsAre
<1>4. Owned(y) = (Strings(x.d) \union Cell(x.s.p)) \union Cell(f.p)
  BY <1>3
<1> QED BY <1>3, <1>4 DEF ObjHeld

LEMMA WithN ==
  ASSUME NEW x, NEW h, NEW other, ObjHeld(x, h, other), NEW n \in Texts, NEW y, y = [x EXCEPT !.n = n]
  PROVE  ObjHeld(y, h, other)
<1>1. OwnFields(x)
  BY DEF ObjHeld
<1>2. y = [s |-> x.s, b |-> x.b, d |-> x.d, n |-> n]
  BY <1>1, PartsAre
<1>3. OwnFields(y) /\ Owned(y) = Owned(x)
  BY <1>1, <1>2, PartsAre, FieldsAre
<1> QED BY <1>3 DEF ObjHeld

LEMMA OptSetKeeps ==
  ASSUME NEW x, NEW h, NEW other, ObjHeld(x, h, other), NEW name,
         NEW value, value = NoValue \/ value \in Texts, NEW fails,
         NEW r, r = OptSet(x, h, name, value, fails)
  PROVE  ObjHeld(r.x, r.h, other)
<1>1. OwnFields(x) /\ Held(h, Owned(x), other)
  BY DEF ObjHeld
<1>2. \/ r.x = x /\ r.h = h
      \/ name = <<"s">> /\ r.x = [x EXCEPT !.s = SetString(x.s, h, value, fails).f]
         /\ r.h = SetString(x.s, h, value, fails).h
      \/ value # NoValue /\ r.x = [x EXCEPT !.b = SetBinary(x.b, h, value, fails).f]
         /\ r.h = SetBinary(x.b, h, value, fails).h
      \/ value \in Numbers /\ r.x = [x EXCEPT !.n = value] /\ r.h = h
  <2> DEFINE q == IF name = <<"s">> THEN SetString(x.s, h, value, fails)
                  ELSE SetBinary(x.b, h, value, fails)
             ret == IF q.ok THEN "ok" ELSE "error"
  <2>1. \/ \E e : r = [x |-> x, h |-> h, ret |-> e]
        \/ name = <<"s">> /\ \E e : r = [x |-> [x EXCEPT !.s = q.f], h |-> q.h, ret |-> e]
        \/ name # <<"s">> /\ value # NoValue
           /\ \E e : r = [x |-> [x EXCEPT !.b = q.f], h |-> q.h, ret |-> e]
        \/ value \in Numbers /\ \E e : r = [x |-> [x EXCEPT !.n = value], h |-> h, ret |-> e]
    BY Zenon DEF OptSet
  <2> QED BY <2>1
<1>3. CASE r.x = x /\ r.h = h
  BY <1>3
<1>4. CASE name = <<"s">> /\ r.x = [x EXCEPT !.s = SetString(x.s, h, value, fails).f]
           /\ r.h = SetString(x.s, h, value, fails).h
  <2>1. PICK q : q = SetString(x.s, h, value, fails)
    OBVIOUS
  <2>2. PICK A : A = Strings(x.d) \union Cell(x.b.p)
    OBVIOUS
  <2>3. Held(h, A \union Cell(x.s.p), other) /\ x.s.p \notin A
    <3>1. Owned(x) = A \union Cell(x.s.p)
      BY <1>1, <2>2, PartsAre
    <3>2. x.s.p \notin A
      BY <1>1, <2>2, PartsAre DEF Cell
    <3> QED BY <1>1, <3>1, <3>2
  <2>4. q.f \in FieldType /\ Held(q.h, A \union Cell(q.f.p), other) /\ q.f.p \notin A
    BY <1>1, <2>1, <2>3, PartsAre, SetStringHeld
  <2>5. r.x = [x EXCEPT !.s = q.f] /\ r.h = q.h
    BY <1>4, <2>1
  <2> QED BY <1>1, <2>2, <2>4, <2>5, WithS
<1>5. CASE value # NoValue /\ r.x = [x EXCEPT !.b = SetBinary(x.b, h, value, fails).f]
           /\ r.h = SetBinary(x.b, h, value, fails).h
  <2>1. PICK q : q = SetBinary(x.b, h, value, fails)
    OBVIOUS
  <2>2. PICK A : A = Strings(x.d) \union Cell(x.s.p)
    OBVIOUS
  <2>3. Held(h, A \union Cell(x.b.p), other) /\ x.b.p \notin A
    <3>1. Owned(x) = A \union Cell(x.b.p)
      BY <1>1, <2>2, PartsAre
    <3>2. x.b.p \notin A
      BY <1>1, <2>2, PartsAre DEF Cell
    <3> QED BY <1>1, <3>1, <3>2
  <2>4. q.f \in FieldType /\ Held(q.h, A \union Cell(q.f.p), other) /\ q.f.p \notin A
    BY <1>1, <1>5, <2>1, <2>3, PartsAre, SetBinaryHeld
  <2>5. r.x = [x EXCEPT !.b = q.f] /\ r.h = q.h
    BY <1>5, <2>1
  <2> QED BY <1>1, <2>2, <2>4, <2>5, WithB
<1>6. CASE value \in Numbers /\ r.x = [x EXCEPT !.n = value] /\ r.h = h
  <2>1. value \in Texts
    BY <1>6, OwnersAssumption, StringsAreTexts
  <2> QED BY <1>6, <2>1, WithN
<1> QED BY <1>2, <1>3, <1>4, <1>5, <1>6

LEMMA EntriesAreSettings ==
  ASSUME NEW d, OwnEntries(d)
  PROVE  Settings(d)
<1>1. d \in Seq(EntryType)
  BY DEF OwnEntries
<1>2. Len(d) \in Nat /\ \A i \in 1 .. Len(d) : d[i] \in EntryType
  BY <1>1
<1> QED BY <1>2 DEF Settings, EntryType

\* A dictionary that is put together, next to the other strings of an owner.
LEMMA BuiltDict ==
  ASSUME NEW g, NEW A, NEW B, Held(g, A, B), NEW entries, Settings(entries), NEW flags, NEW at,
         NEW fail, NEW r, r = SetAll(<<>>, g, entries, flags, at, fail)
  PROVE  OwnEntries(r.d) /\ Held(r.h, Strings(r.d) \union A, B) /\ Strings(r.d) \intersect A = {}
<1>1. A \intersect B = {}
  BY DEF Held
<1>2. Held(g, {}, A \union B)
  BY <1>1, MoveHeld
<1>3. DictHeld(<<>>, g, A \union B)
  BY <1>2, NoEntries DEF DictHeld
<1>4. r \in Results(A \union B)
  BY <1>3, SetAllKeeps
<1>5. OwnEntries(r.d) /\ Held(r.h, Strings(r.d), A \union B)
  BY <1>4 DEF Results, DictHeld
<1>6. Strings(r.d) \intersect (A \union B) = {}
  BY <1>5 DEF Held
<1>7. Held(r.h, Strings(r.d) \union A, B)
  <2>1. (Strings(r.d) \union A) \intersect B = {}
    BY <1>1, <1>6
  <2>2. (Strings(r.d) \union A) \union B = Strings(r.d) \union (A \union B)
    OBVIOUS
  <2> QED BY <1>5, <2>1, <2>2, MoveHeld
<1> QED BY <1>5, <1>6, <1>7

LEMMA FreedDict ==
  ASSUME NEW h, NEW A, NEW B, NEW S, Held(h, S \union A, B), S \intersect A = {},
         NEW g, g = FreeStrings(h, S)
  PROVE  Held(g, A, B)
<1>1. S \subseteq (S \union A) \union {0} /\ (S \union A) \ S = A
  OBVIOUS
<1> QED BY <1>1, FreeHeld

\* One string of av_opt_copy, where the object's own is p.
LEMMA CopyFieldHeld ==
  ASSUME NEW h, NEW A, NEW B, NEW p \in Nat, Held(h, A \union Cell(p), B), p \notin A,
         NEW to \in FieldType, NEW from \in FieldType,
         p = IF to.p = from.p THEN 0 ELSE to.p, NEW fails,
         NEW r, r = CopyField(to, from, h, fails)
  PROVE  r.f \in FieldType /\ Held(r.h, A \union Cell(r.f.p), B) /\ r.f.p \notin A
<1>1. PICK g : g = IF to.p = from.p THEN h ELSE FreeStrings(h, {to.p})
  OBVIOUS
<1>2. Held(g, A, B)
  <2>1. CASE to.p = from.p
    <3>1. A \union Cell(p) = A
      BY <2>1 DEF Cell
    <3> QED BY <1>1, <2>1, <3>1
  <2>2. CASE to.p # from.p
    BY <1>1, <2>2, FreedHeld
  <2> QED BY <2>1, <2>2
<1>3. r = IF from.p = 0 THEN [f |-> NoString, h |-> g, ok |-> TRUE] ELSE NewString(g, from.text, fails)
  BY <1>1, Zenon DEF CopyField, Freed
<1>4. CASE from.p = 0
  <2>1. r.f = NoString /\ r.h = g
    BY <1>3, <1>4
  <2>2. 0 \notin A /\ A \union Cell(0) = A
    BY <1>2 DEF Held, HeapType, Addresses, Cell
  <2> QED BY <1>2, <2>1, <2>2, NoTexts
<1>5. CASE from.p # 0
  <2>1. r = NewString(g, from.text, fails)
    BY <1>3, <1>5
  <2>2. from.text \in Texts
    BY DEF FieldType
  <2> QED BY <1>2, <2>1, <2>2, NewStringIs
<1> QED BY <1>4, <1>5

LEMMA EmptyIs == OwnFields(Empty) /\ Owned(Empty) = {} /\ Empty.s.p = 0 /\ Empty.b.p = 0 /\ Empty.d = <<>>
<1>1. Empty = [s |-> NoString, b |-> NoString, d |-> <<>>, n |-> <<>>]
  BY DEF Empty
<1>2. NoString \in FieldType /\ NoString.p = 0 /\ <<>> \in Texts /\ OwnEntries(<<>>) /\ Strings(<<>>) = {}
  BY NoTexts, NoEntries
<1>3. OwnFields(Empty) /\ Owned(Empty) = Strings(<<>>) \union Cell(NoString.p) \union Cell(NoString.p)
  BY <1>1, <1>2, FieldsAre
<1>4. Owned(Empty) = {}
  BY <1>2, <1>3 DEF Cell
<1> QED BY <1>1, <1>2, <1>3, <1>4

Apart(x, y) == Owned(x) \intersect Owned(y) = {}

\* av_opt_copy from y to x, or to an empty x that is given the fields of y first.
LEMMA CopyHeld ==
  ASSUME NEW x, NEW y, OwnFields(x), OwnFields(y), NEW to,
         (to = y /\ x = Empty) \/ (to = x /\ Apart(x, y)), NEW h, NEW other, Held(h, Owned(x), other),
         NEW sFails, NEW bFails, NEW at, NEW fail,
         NEW sr, sr = CopyField(to.s, y.s, h, sFails),
         NEW br, br = CopyField(to.b, y.b, sr.h, bFails),
         NEW dr, dr = CopyDict(to.d, y.d, br.h, at, fail),
         NEW z, z = [s |-> sr.f, b |-> br.f, d |-> dr.d, n |-> y.n]
  PROVE  ObjHeld(z, dr.h, other)
<1>1. /\ x.s \in FieldType /\ x.b \in FieldType /\ OwnEntries(x.d) /\ x.s.p \in Nat /\ x.b.p \in Nat
      /\ x.s.p = x.b.p => x.s.p = 0
      /\ x.s.p \notin Strings(x.d) /\ x.b.p \notin Strings(x.d)
      /\ Owned(x) = Strings(x.d) \union Cell(x.s.p) \union Cell(x.b.p)
  BY PartsAre
<1>2. /\ y.s \in FieldType /\ y.b \in FieldType /\ OwnEntries(y.d) /\ y.s.p \in Nat /\ y.b.p \in Nat
      /\ y.n \in Texts
      /\ Owned(y) = Strings(y.d) \union Cell(y.s.p) \union Cell(y.b.p)
  BY PartsAre
<1>3. /\ to.s \in FieldType /\ to.b \in FieldType
      /\ x.s.p = IF to.s.p = y.s.p THEN 0 ELSE to.s.p
      /\ x.b.p = IF to.b.p = y.b.p THEN 0 ELSE to.b.p
      /\ Strings(x.d) = IF to.d = y.d THEN {} ELSE Strings(to.d)
  <2>1. CASE to = y /\ x = Empty
    BY <1>2, <2>1, EmptyIs, NoEntries
  <2>2. CASE to = x /\ Apart(x, y)
    <3>1. Cell(x.s.p) \intersect Cell(y.s.p) = {} /\ Cell(x.b.p) \intersect Cell(y.b.p) = {}
          /\ Strings(x.d) \intersect Strings(y.d) = {}
      BY <1>1, <1>2, <2>2 DEF Apart
    <3>2. (x.s.p = y.s.p => x.s.p = 0) /\ (x.b.p = y.b.p => x.b.p = 0)
      BY <3>1 DEF Cell
    <3>3. x.d = y.d => Strings(x.d) = {}
      BY <3>1
    <3> QED BY <1>1, <2>2, <3>2, <3>3
  <2> QED BY <2>1, <2>2
<1>4. PICK S : S = Strings(x.d)
  OBVIOUS
<1>5. sr.f \in FieldType /\ Held(sr.h, (S \union Cell(x.b.p)) \union Cell(sr.f.p), other)
      /\ sr.f.p \notin S \union Cell(x.b.p)
  <2>1. PICK A : A = S \union Cell(x.b.p)
    OBVIOUS
  <2>2. PICK p \in Nat : p = x.s.p
    BY <1>1
  <2>3. Held(h, A \union Cell(p), other)
    <3>1. Owned(x) = A \union Cell(p)
      BY <1>1, <1>4, <2>1, <2>2
    <3> QED BY <3>1
  <2>4. p \notin A
    BY <1>1, <1>4, <2>1, <2>2 DEF Cell
  <2>5. PICK u \in FieldType, w \in FieldType : u = to.s /\ w = y.s
    BY <1>2, <1>3
  <2>6. p = IF u.p = w.p THEN 0 ELSE u.p
    BY <1>3, <2>2, <2>5
  <2>7. PICK r : r = sr
    OBVIOUS
  <2>8. r = CopyField(u, w, h, sFails)
    BY <2>5, <2>7
  <2>9. r.f \in FieldType /\ Held(r.h, A \union Cell(r.f.p), other) /\ r.f.p \notin A
    BY <2>3, <2>4, <2>6, <2>8, CopyFieldHeld
  <2> QED BY <2>1, <2>7, <2>9
<1>6. br.f \in FieldType /\ Held(br.h, (S \union Cell(sr.f.p)) \union Cell(br.f.p), other)
      /\ br.f.p \notin S \union Cell(sr.f.p)
  <2>1. PICK A : A = S \union Cell(sr.f.p)
    OBVIOUS
  <2>2. PICK p \in Nat : p = x.b.p
    BY <1>1
  <2>3. Held(sr.h, A \union Cell(p), other)
    <3>1. (S \union Cell(x.b.p)) \union Cell(sr.f.p) = A \union Cell(p)
      BY <2>1, <2>2
    <3> QED BY <1>5, <3>1
  <2>4. p \notin A
    BY <1>1, <1>4, <1>5, <2>1, <2>2 DEF Cell
  <2>5. PICK u \in FieldType, w \in FieldType : u = to.b /\ w = y.b
    BY <1>2, <1>3
  <2>6. p = IF u.p = w.p THEN 0 ELSE u.p
    BY <1>3, <2>2, <2>5
  <2>7. PICK g : g = sr.h
    OBVIOUS
  <2>8. PICK r : r = br
    OBVIOUS
  <2>9. r = CopyField(u, w, g, bFails) /\ Held(g, A \union Cell(p), other)
    BY <2>3, <2>5, <2>7, <2>8
  <2>10. r.f \in FieldType /\ Held(r.h, A \union Cell(r.f.p), other) /\ r.f.p \notin A
    BY <2>4, <2>6, <2>9, CopyFieldHeld
  <2> QED BY <2>1, <2>8, <2>10
<1>7. PICK C : C = Cell(sr.f.p) \union Cell(br.f.p)
  OBVIOUS
<1>8. Held(br.h, S \union C, other) /\ S \intersect C = {}
  <2>1. (S \union Cell(sr.f.p)) \union Cell(br.f.p) = S \union C
    BY <1>7
  <2>2. S \intersect C = {}
    BY <1>5, <1>6, <1>7 DEF Cell
  <2> QED BY <1>6, <2>1, <2>2
<1>9. PICK r : r = dr
  OBVIOUS
<1>10. OwnEntries(r.d) /\ Held(r.h, Strings(r.d) \union C, other) /\ Strings(r.d) \intersect C = {}
  <2>1. PICK g : g = IF to.d = y.d THEN br.h ELSE FreeStrings(br.h, Strings(to.d))
    OBVIOUS
  <2>2. r = SetAll(<<>>, g, y.d, {}, at, fail)
    BY <1>9, <2>1, Zenon DEF CopyDict
  <2>3. Held(g, C, other)
    <3>1. CASE to.d = y.d
      <4>1. S \union C = C /\ g = br.h
        BY <1>3, <1>4, <2>1, <3>1
      <4> QED BY <1>8, <4>1
    <3>2. CASE to.d # y.d
      <4>1. g = FreeStrings(br.h, S)
        BY <1>3, <1>4, <2>1, <3>2
      <4> QED BY <1>8, <4>1, FreedDict
    <3> QED BY <3>1, <3>2
  <2>4. PICK w : w = y.d
    OBVIOUS
  <2>5. r = SetAll(<<>>, g, w, {}, at, fail) /\ Settings(w)
    BY <1>2, <2>2, <2>4, EntriesAreSettings
  <2> QED BY <2>3, <2>5, BuiltDict
<1>11. OwnEntries(dr.d) /\ Held(dr.h, Strings(dr.d) \union C, other) /\ Strings(dr.d) \intersect C = {}
  BY <1>9, <1>10
<1>12. sr.f.p \notin Strings(dr.d) /\ br.f.p \notin Strings(dr.d)
  <2>1. 0 \notin Strings(dr.d)
    <3>1. dr.d \in Seq(EntryType)
      BY <1>11 DEF OwnEntries
    <3> QED BY <3>1, StringsAre DEF Addresses
  <2> QED BY <1>7, <1>11, <2>1 DEF Cell
<1>13. sr.f.p = br.f.p => sr.f.p = 0
  BY <1>6 DEF Cell
<1>14. OwnFields(z) /\ Owned(z) = Strings(dr.d) \union Cell(sr.f.p) \union Cell(br.f.p)
  <2>1. PICK sf, bf, w, n : sf = sr.f /\ bf = br.f /\ w = dr.d /\ n = y.n
    OBVIOUS
  <2>2. sf \in FieldType /\ bf \in FieldType /\ n \in Texts
    BY <1>2, <1>5, <1>6, <2>1
  <2>3. OwnEntries(w) /\ (sf.p = bf.p => sf.p = 0) /\ sf.p \notin Strings(w) /\ bf.p \notin Strings(w)
    BY <1>11, <1>12, <1>13, <2>1
  <2>4. z = [s |-> sf, b |-> bf, d |-> w, n |-> n]
    BY <2>1
  <2>5. OwnFields(z) /\ Owned(z) = Strings(w) \union Cell(sf.p) \union Cell(bf.p)
    BY <2>2, <2>3, <2>4, FieldsAre
  <2> QED BY <2>1, <2>5
<1>15. Owned(z) = Strings(dr.d) \union C
  BY <1>7, <1>14
<1>16. Held(dr.h, Owned(z), other)
  BY <1>11, <1>15
<1> QED BY <1>14, <1>16, Zenon DEF ObjHeld

LEMMA SetBinHeld ==
  ASSUME NEW x, NEW h, NEW other, ObjHeld(x, h, other), NEW value \in Texts, NEW fails,
         NEW r, r = IF value = <<>> THEN [f |-> NoString, h |-> h, ok |-> TRUE]
                    ELSE NewString(h, value, fails),
         NEW y, y = [x EXCEPT !.b = r.f], NEW g, g = FreeStrings(r.h, {x.b.p})
  PROVE  ObjHeld(y, g, other)
<1>1. OwnFields(x) /\ Held(h, Owned(x), other)
  BY DEF ObjHeld
<1>2. PICK A : A = Strings(x.d) \union Cell(x.s.p)
  OBVIOUS
<1>3. Owned(x) = A \union Cell(x.b.p) /\ x.b.p \notin A /\ x.b.p \in Nat /\ 0 \notin A
  <2>1. 0 \notin Owned(x)
    BY <1>1 DEF Held, HeapType, Addresses
  <2> QED BY <1>1, <1>2, <2>1, PartsAre DEF Cell
<1>4. PICK p \in Nat : p = x.b.p
  BY <1>3
<1>5. Held(h, A \union Cell(p), other)
  BY <1>1, <1>3, <1>4
<1>6. PICK q : q = r
  OBVIOUS
<1>7. q.f \in FieldType /\ Held(q.h, (A \union Cell(p)) \union Cell(q.f.p), other)
      /\ q.f.p \notin A \union Cell(p)
  <2>1. CASE value = <<>>
    <3>1. q.f = NoString /\ q.h = h
      BY <1>6, <2>1
    <3>2. (A \union Cell(p)) \union Cell(0) = A \union Cell(p) /\ 0 \notin A \union Cell(p)
      BY <1>3 DEF Cell
    <3> QED BY <1>5, <3>1, <3>2, NoTexts
  <2>2. CASE value # <<>>
    <3>1. q = NewString(h, value, fails)
      BY <1>6, <2>2
    <3>2. PICK C : C = A \union Cell(p)
      OBVIOUS
    <3>3. Held(h, C, other)
      BY <1>5, <3>2
    <3>4. q.f \in FieldType /\ Held(q.h, C \union Cell(q.f.p), other) /\ q.f.p \notin C
      BY <3>1, <3>3, NewStringIs
    <3> QED BY <3>2, <3>4
  <2> QED BY <2>1, <2>2
<1>8. PICK D : D = A \union Cell(q.f.p)
  OBVIOUS
<1>9. p \notin D
  BY <1>3, <1>4, <1>7, <1>8 DEF Cell
<1>10. Held(q.h, D \union Cell(p), other)
  <2>1. (A \union Cell(p)) \union Cell(q.f.p) = D \union Cell(p)
    BY <1>8
  <2> QED BY <1>7, <2>1
<1>11. g = FreeStrings(q.h, {p})
  BY <1>4, <1>6
<1>12. Held(g, D, other)
  BY <1>9, <1>10, <1>11, FreedHeld
<1>13. PICK f \in FieldType : f = q.f
  BY <1>7
<1>14. Held(g, A \union Cell(f.p), other) /\ f.p \notin A /\ y = [x EXCEPT !.b = f]
  BY <1>6, <1>7, <1>8, <1>12, <1>13
<1> QED BY <1>1, <1>2, <1>14, WithB

LEMMA SetDictValHeld ==
  ASSUME NEW x, NEW h, NEW other, ObjHeld(x, h, other), NEW entries, Settings(entries),
         NEW at, NEW fail, NEW r, r = SetAll(<<>>, FreeStrings(h, Strings(x.d)), entries, {}, at, fail),
         NEW y, y = [x EXCEPT !.d = r.d]
  PROVE  ObjHeld(y, r.h, other)
<1>1. OwnFields(x) /\ Held(h, Owned(x), other)
  BY DEF ObjHeld
<1>2. PICK A : A = Cell(x.s.p) \union Cell(x.b.p)
  OBVIOUS
<1>3. PICK S : S = Strings(x.d)
  OBVIOUS
<1>4. Held(h, S \union A, other) /\ S \intersect A = {}
  <2>1. Owned(x) = S \union A
    BY <1>1, <1>2, <1>3, PartsAre
  <2>2. S \intersect A = {}
    BY <1>1, <1>2, <1>3, PartsAre DEF Cell
  <2> QED BY <1>1, <2>1, <2>2
<1>5. PICK g : g = FreeStrings(h, S)
  OBVIOUS
<1>6. Held(g, A, other)
  BY <1>4, <1>5, FreedDict
<1>7. PICK q : q = r
  OBVIOUS
<1>8. q = SetAll(<<>>, g, entries, {}, at, fail)
  BY <1>3, <1>5, <1>7
<1>9. OwnEntries(q.d) /\ Held(q.h, Strings(q.d) \union A, other) /\ Strings(q.d) \intersect A = {}
  BY <1>6, <1>8, BuiltDict
<1>10. PICK w : w = q.d
  OBVIOUS
<1>11. OwnEntries(w) /\ x.s.p \notin Strings(w) /\ x.b.p \notin Strings(w)
  <2>1. w \in Seq(EntryType)
    BY <1>9, <1>10 DEF OwnEntries
  <2>2. 0 \notin Strings(w)
    BY <2>1, StringsAre DEF Addresses
  <2> QED BY <1>2, <1>9, <1>10, <2>2 DEF Cell
<1>12. y = [s |-> x.s, b |-> x.b, d |-> w, n |-> x.n]
  BY <1>1, <1>7, <1>10, PartsAre
<1>13. OwnFields(y) /\ Owned(y) = Strings(w) \union Cell(x.s.p) \union Cell(x.b.p)
  BY <1>1, <1>11, <1>12, PartsAre, FieldsAre
<1>14. Owned(y) = Strings(w) \union A
  BY <1>2, <1>13
<1>15. Held(r.h, Owned(y), other)
  BY <1>7, <1>9, <1>10, <1>14
<1> QED BY <1>13, <1>15 DEF ObjHeld

LEMMA SetDefaultsHeld ==
  ASSUME NEW x, NEW h, NEW other, ObjHeld(x, h, other), NEW value, value = NoValue \/ value \in Texts,
         NEW fails, NEW r, r = SetString(x.s, h, value, fails),
         NEW y, y = [x EXCEPT !.s = r.f, !.b = NoString, !.n = <<>>],
         NEW g, g = FreeStrings(r.h, {x.b.p})
  PROVE  ObjHeld(y, g, other)
<1>1. OwnFields(x) /\ Held(h, Owned(x), other)
  BY DEF ObjHeld
<1>2. PICK A : A = Strings(x.d) \union Cell(x.b.p)
  OBVIOUS
<1>3. PICK s \in FieldType : s = x.s
  BY <1>1, PartsAre
<1>4. Held(h, A \union Cell(s.p), other) /\ s.p \notin A
  <2>1. Owned(x) = A \union Cell(s.p)
    BY <1>1, <1>2, <1>3, PartsAre
  <2>2. s.p \notin A
    BY <1>1, <1>2, <1>3, PartsAre DEF Cell
  <2> QED BY <1>1, <2>1, <2>2
<1>5. r = SetString(s, h, value, fails)
  BY <1>3
<1>6. PICK q : q = r
  OBVIOUS
<1>7. q.f \in FieldType /\ Held(q.h, A \union Cell(q.f.p), other) /\ q.f.p \notin A
  BY <1>4, <1>5, <1>6, SetStringHeld
<1>8. PICK f \in FieldType : f = q.f
  BY <1>7
<1>9. PICK S : S = Strings(x.d)
  OBVIOUS
<1>10. PICK p \in Nat : p = x.b.p
  BY <1>1, PartsAre
<1>11. p \notin S \union Cell(f.p)
  BY <1>1, <1>2, <1>7, <1>8, <1>9, <1>10, PartsAre DEF Cell
<1>12. Held(q.h, (S \union Cell(f.p)) \union Cell(p), other)
  <2>1. A \union Cell(f.p) = (S \union Cell(f.p)) \union Cell(p)
    BY <1>2, <1>9, <1>10
  <2> QED BY <1>7, <1>8, <2>1
<1>13. Held(g, S \union Cell(f.p), other)
  <2>1. PICK D : D = S \union Cell(f.p)
    OBVIOUS
  <2>2. Held(q.h, D \union Cell(p), other) /\ p \notin D
    BY <1>11, <1>12, <2>1
  <2>3. g = FreeStrings(q.h, {p})
    BY <1>6, <1>10
  <2>4. Held(g, D, other)
    BY <2>2, <2>3, FreedHeld
  <2> QED BY <2>1, <2>4
<1>14. PICK d : d = x.d
  OBVIOUS
<1>15. OwnEntries(d) /\ Strings(d) = S /\ 0 \notin S /\ f.p \notin S
  <2>1. OwnEntries(d) /\ Strings(d) = S
    BY <1>1, <1>9, <1>14, PartsAre
  <2>2. d \in Seq(EntryType)
    BY <2>1 DEF OwnEntries
  <2>3. 0 \notin S
    BY <2>1, <2>2, StringsAre DEF Addresses
  <2> QED BY <1>2, <1>7, <1>8, <1>9, <2>1, <2>3
<1>16. y = [s |-> f, b |-> NoString, d |-> d, n |-> <<>>]
  <2>1. x = [s |-> x.s, b |-> x.b, d |-> x.d, n |-> x.n]
    BY <1>1, PartsAre
  <2> QED BY <1>6, <1>8, <1>14, <2>1
<1>17. PICK b \in FieldType, e \in Texts : b = NoString /\ b.p = 0 /\ e = <<>>
  BY NoTexts
<1>18. OwnFields(y) /\ Owned(y) = Strings(d) \union Cell(f.p) \union Cell(b.p)
  <2>1. PICK u : u = y
    OBVIOUS
  <2>2. u = [s |-> f, b |-> b, d |-> d, n |-> e]
    BY <1>16, <1>17, <2>1
  <2>3. (f.p = b.p => f.p = 0) /\ f.p \notin Strings(d) /\ b.p \notin Strings(d) /\ OwnEntries(d)
    BY <1>15, <1>17
  <2>4. OwnFields(u) /\ Owned(u) = Strings(d) \union Cell(f.p) \union Cell(b.p)
    BY <2>2, <2>3, FieldsAre
  <2> QED BY <2>1, <2>4
<1>19. Owned(y) = S \union Cell(f.p)
  BY <1>15, <1>17, <1>18 DEF Cell
<1> QED BY <1>13, <1>18, <1>19 DEF ObjHeld

LEMMA OptFreeHeld ==
  ASSUME NEW x, NEW h, NEW other, ObjHeld(x, h, other),
         NEW g, g = FreeStrings(h, Strings(x.d) \union {x.s.p, x.b.p})
  PROVE  ObjHeld(Empty, g, other)
<1>1. OwnFields(x) /\ Held(h, Owned(x), other)
  BY DEF ObjHeld
<1>2. PICK P : P = Strings(x.d) \union {x.s.p, x.b.p}
  OBVIOUS
<1>3. P \subseteq Owned(x) \union {0} /\ Owned(x) \ P = {}
  BY <1>1, <1>2, PartsAre DEF Cell
<1>4. g = FreeStrings(h, P)
  BY <1>2
<1>5. Held(g, {}, other)
  <2>1. Held(g, Owned(x) \ P, other)
    BY <1>1, <1>3, <1>4, FreeHeld
  <2> QED BY <1>3, <2>1
<1> QED BY <1>5, EmptyIs DEF ObjHeld

\* An object and the options that were not found in it, apart from each other.
TurnHeld(r, other) ==
    /\ OwnFields(r.x) /\ OwnEntries(r.tmp) /\ Owned(r.x) \intersect Strings(r.tmp) = {}
    /\ Held(r.h, Owned(r.x) \union Strings(r.tmp), other)

Turned(other) == {r \in [x : ObjectType, tmp : Seq(EntryType), h : HeapType, ok : BOOLEAN] : TurnHeld(r, other)}

LEMMA TurnedIs ==
  ASSUME NEW x, NEW tmp, NEW h, NEW other, OwnFields(x), OwnEntries(tmp),
         Owned(x) \intersect Strings(tmp) = {}, Held(h, Owned(x) \union Strings(tmp), other),
         NEW ok \in BOOLEAN, NEW r, r = [x |-> x, tmp |-> tmp, h |-> h, ok |-> ok]
  PROVE  r \in Turned(other)
<1>1. x \in ObjectType /\ tmp \in Seq(EntryType) /\ h \in HeapType
  BY DEF OwnFields, OwnEntries, Held
<1>2. r \in [x : ObjectType, tmp : Seq(EntryType), h : HeapType, ok : BOOLEAN]
      /\ r.x = x /\ r.tmp = tmp /\ r.h = h
  BY <1>1
<1> QED BY <1>2 DEF Turned, TurnHeld

LEMMA DictTurnKeeps ==
  ASSUME NEW other, NEW r \in Turned(other), NEW entry, entry.key \in Texts, entry.value \in Texts,
         NEW fail, NEW q, q = DictTurn(r, entry, fail)
  PROVE  q \in Turned(other)
<1>1. PICK x, tmp, h : x = r.x /\ tmp = r.tmp /\ h = r.h
  OBVIOUS
<1>2. /\ OwnFields(x) /\ OwnEntries(tmp) /\ Owned(x) \intersect Strings(tmp) = {}
      /\ Held(h, Owned(x) \union Strings(tmp), other)
  BY <1>1 DEF Turned, TurnHeld
<1>3. PICK O, S : O = Owned(x) /\ S = Strings(tmp)
  OBVIOUS
<1>4. O \intersect S = {} /\ Held(h, O \union S, other)
  BY <1>2, <1>3
<1>5. O \intersect other = {} /\ S \intersect other = {}
  BY <1>4 DEF Held
<1>6. PICK no : no = (fail # "none")
  OBVIOUS
<1>7. PICK key, value : key = entry.key /\ value = entry.value
  OBVIOUS
<1>8. key \in Texts /\ value \in Texts
  BY <1>7
<1>9. PICK set : set = OptSet(x, h, key, value, no)
  OBVIOUS
<1>10. PICK put : put = SetEntry(tmp, h, key, value, {}, fail)
  OBVIOUS
<1>11. \/ q = r
       \/ q = [x |-> x, tmp |-> put.d, h |-> put.h, ok |-> put.ok]
       \/ q = [x |-> set.x, tmp |-> tmp, h |-> set.h, ok |-> set.ret = "ok"]
  <2>1. q = IF ~r.ok THEN r
            ELSE IF set.ret = "not found" THEN [x |-> x, tmp |-> put.d, h |-> put.h, ok |-> put.ok]
            ELSE [x |-> set.x, tmp |-> tmp, h |-> set.h, ok |-> set.ret = "ok"]
    BY <1>1, <1>6, <1>7, <1>9, <1>10, Zenon DEF DictTurn
  <2> QED BY <2>1
<1>12. CASE q = [x |-> x, tmp |-> put.d, h |-> put.h, ok |-> put.ok]
  <2>1. Held(h, S, O \union other)
    <3>1. S \intersect (O \union other) = {} /\ S \union (O \union other) = (O \union S) \union other
      BY <1>4, <1>5
    <3> QED BY <1>4, <3>1, MoveHeld
  <2>2. DictHeld(tmp, h, O \union other)
    BY <1>2, <1>3, <2>1 DEF DictHeld
  <2>3. PICK rest : rest = O \union other
    OBVIOUS
  <2>4. DictHeld(tmp, h, rest)
    BY <2>2, <2>3
  <2>5. put \in Results(rest)
    BY <1>8, <1>10, <2>4, SetEntryKeeps
  <2>6. put.ok \in BOOLEAN /\ OwnEntries(put.d) /\ Held(put.h, Strings(put.d), rest)
    BY <2>5 DEF Results, DictHeld
  <2>7. PICK w, g, ok : w = put.d /\ g = put.h /\ ok = put.ok
    OBVIOUS
  <2>8. OwnEntries(w) /\ Held(g, Strings(w), O \union other) /\ ok \in BOOLEAN
    BY <2>3, <2>6, <2>7
  <2>9. Strings(w) \intersect (O \union other) = {}
    BY <2>8 DEF Held
  <2>10. Held(g, O \union Strings(w), other)
    <3>1. (O \union Strings(w)) \intersect other = {}
          /\ (O \union Strings(w)) \union other = Strings(w) \union (O \union other)
      BY <1>5, <2>9
    <3> QED BY <2>8, <3>1, MoveHeld
  <2>11. q = [x |-> x, tmp |-> w, h |-> g, ok |-> ok]
    BY <1>12, <2>7
  <2>12. Owned(x) \intersect Strings(w) = {} /\ Held(g, Owned(x) \union Strings(w), other)
    BY <1>3, <2>9, <2>10
  <2> QED BY <1>2, <2>8, <2>11, <2>12, TurnedIs
<1>13. CASE q = [x |-> set.x, tmp |-> tmp, h |-> set.h, ok |-> set.ret = "ok"]
  <2>1. Held(h, O, S \union other)
    <3>1. O \intersect (S \union other) = {} /\ O \union (S \union other) = (O \union S) \union other
      BY <1>4, <1>5
    <3> QED BY <1>4, <3>1, MoveHeld
  <2>2. PICK B : B = S \union other
    OBVIOUS
  <2>3. ObjHeld(x, h, B)
    BY <1>2, <1>3, <2>1, <2>2 DEF ObjHeld
  <2>4. ObjHeld(set.x, set.h, B)
    BY <1>8, <1>9, <2>3, OptSetKeeps
  <2>5. PICK z, g, ok : z = set.x /\ g = set.h /\ ok = (set.ret = "ok") /\ ok \in BOOLEAN
    OBVIOUS
  <2>6. OwnFields(z) /\ Held(g, Owned(z), S \union other)
    BY <2>2, <2>4, <2>5 DEF ObjHeld
  <2>7. Owned(z) \intersect (S \union other) = {}
    BY <2>6 DEF Held
  <2>8. Held(g, Owned(z) \union S, other)
    <3>1. (Owned(z) \union S) \intersect other = {}
          /\ (Owned(z) \union S) \union other = Owned(z) \union (S \union other)
      BY <1>5, <2>7
    <3> QED BY <2>6, <3>1, MoveHeld
  <2>9. q = [x |-> z, tmp |-> tmp, h |-> g, ok |-> ok] /\ ok \in BOOLEAN
    BY <1>13, <2>5
  <2>10. Owned(z) \intersect Strings(tmp) = {} /\ Held(g, Owned(z) \union Strings(tmp), other)
    BY <1>3, <2>7, <2>8
  <2> QED BY <1>2, <2>6, <2>9, <2>10, TurnedIs
<1> QED BY <1>11, <1>12, <1>13

LEMMA DictTurnsKeep ==
  ASSUME NEW x, NEW h, NEW other, ObjHeld(x, h, other), NEW entries, Settings(entries),
         NEW at, NEW fail, NEW r, r = DictTurns(x, h, entries, at, fail)
  PROVE  r \in Turned(other)
<1>1. PICK n \in Nat : n = Len(entries)
  BY DEF Settings
<1>2. PICK first : first = [x |-> x, tmp |-> <<>>, h |-> h, ok |-> TRUE]
  OBVIOUS
<1>3. first \in Turned(other)
  <2>1. OwnFields(x) /\ Held(h, Owned(x), other)
    BY DEF ObjHeld
  <2>2. PICK e : e = <<>>
    OBVIOUS
  <2>3. OwnEntries(e) /\ Strings(e) = {}
    BY <2>2, NoEntries
  <2>4. Owned(x) \intersect Strings(e) = {} /\ Owned(x) \union Strings(e) = Owned(x)
    BY <2>3
  <2>5. Held(h, Owned(x) \union Strings(e), other)
    BY <2>1, <2>4
  <2>6. first = [x |-> x, tmp |-> e, h |-> h, ok |-> TRUE]
    BY <1>2, <2>2
  <2> QED BY <2>1, <2>3, <2>4, <2>5, <2>6, TurnedIs
<1> DEFINE Next1(s, i) == DictTurn(s, entries[i], IF i = at THEN fail ELSE "none")
<1>4. ASSUME NEW i \in 1 .. n, NEW s \in Turned(other)
      PROVE  Next1(s, i) \in Turned(other)
  <2>1. PICK entry : entry = entries[i]
    OBVIOUS
  <2>2. entry.key \in Texts /\ entry.value \in Texts
    BY <1>1, <2>1 DEF Settings
  <2>3. PICK fails : fails = IF i = at THEN fail ELSE "none"
    OBVIOUS
  <2>4. DictTurn(s, entry, fails) \in Turned(other)
    BY <2>2, DictTurnKeeps
  <2> QED BY <2>1, <2>3, <2>4
<1>5. PICK S : S = [k \in 0 .. n |-> Turned(other)]
  OBVIOUS
<1>6. PICK next : next = [k \in 1 .. n |-> [s \in Turned(other) |-> Next1(s, k)]]
  OBVIOUS
<1>7. \A k \in 1 .. n : \A s \in Turned(other) : next[k][s] = Next1(s, k)
  BY <1>6
<1> HIDE DEF Next1
<1>8. \A k \in 1 .. n : \A s \in S[k - 1] : next[k][s] \in S[k]
  <2>1. \A k \in 1 .. n : k \in 0 .. n /\ k - 1 \in 0 .. n
    OBVIOUS
  <2>2. \A k \in 0 .. n : S[k] = Turned(other)
    BY <1>5
  <2> QED BY <1>4, <1>7, <2>1, <2>2
<1>9. first \in S[0]
  <2>1. 0 \in 0 .. n
    OBVIOUS
  <2> QED BY <1>3, <1>5, <2>1
<1>10. PICK g : IsLoop(n, S, first, next, g)
  BY <1>8, <1>9, LoopExists
<1>11. \A k \in 0 .. n : g[k] \in Turned(other)
  BY <1>5, <1>10 DEF IsLoop
<1> DEFINE Turns(t) == t = [i \in 0 .. n |-> IF i = 0 THEN first ELSE Next1(t[i - 1], i)]
<1>12. Turns(g)
  <2>1. \A k \in 1 .. n : next[k][g[k - 1]] = Next1(g[k - 1], k)
    <3>1. \A k \in 1 .. n : k - 1 \in 0 .. n
      OBVIOUS
    <3> QED BY <1>7, <1>11, <3>1
  <2>2. g = [k \in 0 .. n |-> IF k = 0 THEN first ELSE next[k][g[k - 1]]]
    BY <1>10 DEF IsLoop
  <2>3. \A k \in 0 .. n : k # 0 => k \in 1 .. n
    OBVIOUS
  <2>4. \A k \in 0 .. n : k # 0 => next[k][g[k - 1]] = Next1(g[k - 1], k)
    BY <2>1, <2>3
  <2> QED BY <2>2, <2>4
<1> DEFINE turn == CHOOSE t : Turns(t)
<1>13. Turns(turn)
  <2> HIDE DEF Turns
  <2> QED BY <1>12
<1>14. r = turn[n]
  BY <1>1, <1>2, Zenon DEF DictTurns, Next1
<1> HIDE DEF turn
<1>15. \A k \in 0 .. n : turn[k] = IF k = 0 THEN first ELSE Next1(turn[k - 1], k)
  BY <1>13
<1>16. turn[0] = first /\ \A k \in 1 .. n : turn[k] = Next1(turn[k - 1], k)
  <2>1. 0 \in 0 .. n /\ \A k \in 1 .. n : k \in 0 .. n /\ k # 0
    OBVIOUS
  <2> QED BY <1>15, <2>1
<1>17. \A k \in 1 .. n : turn[k - 1] \in S[k - 1] => turn[k] \in S[k]
  <2>1. \A k \in 1 .. n : k \in 0 .. n /\ k - 1 \in 0 .. n
    OBVIOUS
  <2>2. \A k \in 0 .. n : S[k] = Turned(other)
    BY <1>5
  <2> QED BY <1>4, <1>16, <2>1, <2>2
<1>18. \A k \in 0 .. n : turn[k] \in S[k]
  <2>1. turn[0] \in S[0]
    BY <1>9, <1>16
  <2> HIDE DEF Turns
  <2> QED BY <1>17, <2>1, LoopKeeps
<1>19. n \in 0 .. n
  OBVIOUS
<1> QED BY <1>5, <1>14, <1>18, <1>19

\* av_opt_set_dict2, of an object and a dictionary d next to the others' strings.
LEMMA SetDict2Held ==
  ASSUME NEW x, NEW d, OwnFields(x), OwnEntries(d), Owned(x) \intersect Strings(d) = {},
         NEW h, NEW other, Held(h, Owned(x) \union Strings(d), other), NEW at, NEW fail,
         NEW r, r = DictTurns(x, h, d, at, fail)
  PROVE  /\ OwnFields(r.x) /\ OwnEntries(r.tmp) /\ r.ok \in BOOLEAN
         /\ Owned(r.x) \intersect Strings(r.tmp) = {} /\ Owned(r.x) \intersect Strings(d) = {}
         /\ Held(FreeStrings(r.h, Strings(d)), Owned(r.x) \union Strings(r.tmp), other)
         /\ Held(FreeStrings(r.h, Strings(r.tmp)), Owned(r.x) \union Strings(d), other)
<1>1. PICK S : S = Strings(d)
  OBVIOUS
<1>2. Owned(x) \intersect other = {} /\ S \intersect other = {}
  BY <1>1 DEF Held
<1>3. Held(h, Owned(x), S \union other)
  <2>1. Owned(x) \intersect (S \union other) = {}
        /\ Owned(x) \union (S \union other) = (Owned(x) \union Strings(d)) \union other
    BY <1>1, <1>2
  <2> QED BY <2>1, MoveHeld
<1>4. PICK B : B = S \union other
  OBVIOUS
<1>5. ObjHeld(x, h, B) /\ Settings(d)
  BY <1>3, <1>4, EntriesAreSettings DEF ObjHeld
<1>6. r \in Turned(B)
  BY <1>5, DictTurnsKeep
<1>7. PICK y, tmp, g : y = r.x /\ tmp = r.tmp /\ g = r.h
  OBVIOUS
<1>8. /\ OwnFields(y) /\ OwnEntries(tmp) /\ r.ok \in BOOLEAN /\ Owned(y) \intersect Strings(tmp) = {}
      /\ Held(g, Owned(y) \union Strings(tmp), S \union other)
  BY <1>4, <1>6, <1>7 DEF Turned, TurnHeld
<1>9. PICK O, T : O = Owned(y) /\ T = Strings(tmp)
  OBVIOUS
<1>10. O \intersect T = {} /\ Held(g, O \union T, S \union other)
  BY <1>8, <1>9
<1>11. (O \union T) \intersect (S \union other) = {}
  BY <1>10 DEF Held
<1>12. Held(FreeStrings(g, S), O \union T, other)
  <2>1. Held(g, S \union (O \union T), other)
    <3>1. (S \union (O \union T)) \intersect other = {}
          /\ (S \union (O \union T)) \union other = (O \union T) \union (S \union other)
      BY <1>2, <1>11
    <3> QED BY <1>10, <3>1, MoveHeld
  <2>2. PICK A : A = O \union T
    OBVIOUS
  <2>3. Held(g, S \union A, other) /\ S \intersect A = {}
    BY <1>11, <2>1, <2>2
  <2>4. Held(FreeStrings(g, S), A, other)
    BY <2>3, FreedDict
  <2> QED BY <2>2, <2>4
<1>13. Held(FreeStrings(g, T), O \union S, other)
  <2>1. Held(g, T \union (O \union S), other)
    <3>1. (T \union (O \union S)) \intersect other = {}
          /\ (T \union (O \union S)) \union other = (O \union T) \union (S \union other)
      BY <1>2, <1>11
    <3> QED BY <1>10, <3>1, MoveHeld
  <2>2. PICK A : A = O \union S
    OBVIOUS
  <2>3. Held(g, T \union A, other) /\ T \intersect A = {}
    BY <1>10, <1>11, <2>1, <2>2
  <2>4. Held(FreeStrings(g, T), A, other)
    BY <2>3, FreedDict
  <2> QED BY <2>2, <2>4
<1>14. O \intersect S = {}
  BY <1>11
<1>15. /\ OwnFields(r.x) /\ OwnEntries(r.tmp) /\ r.ok \in BOOLEAN
       /\ Owned(r.x) \intersect Strings(r.tmp) = {} /\ Owned(r.x) \intersect Strings(d) = {}
  BY <1>1, <1>7, <1>8, <1>9, <1>14
<1>16. Held(FreeStrings(r.h, Strings(d)), Owned(r.x) \union Strings(r.tmp), other)
  BY <1>1, <1>7, <1>9, <1>12
<1>17. Held(FreeStrings(r.h, Strings(r.tmp)), Owned(r.x) \union Strings(d), other)
  BY <1>1, <1>7, <1>9, <1>13
<1> QED BY <1>15, <1>16, <1>17

\* What the dictionaries u and the objects w own.
Owners == Dicts \union Objects
Owns(u, w) == [x \in Owners |-> IF x \in Dicts THEN Strings(u[x]) ELSE Owned(w[x])]
Of(own, W) == UNION {own[x] : x \in W}

\* Dictionaries u and objects w whose strings are all their own, in the heap h.
Whole(u, w, h) ==
    /\ u \in [Dicts -> Seq(EntryType)] /\ \A d \in Dicts : OwnEntries(u[d])
    /\ w \in [Objects -> ObjectType] /\ \A o \in Objects : OwnFields(w[o])
    /\ h \in HeapType /\ IsFiniteSet(h.live)
    /\ OwnedOnce(Owns(u, w), h)

LEMMA OwnsIs ==
  ASSUME NEW u, NEW w, NEW own, own = Owns(u, w)
  PROVE  /\ DOMAIN own = Owners
         /\ \A d \in Dicts : d \in Owners /\ own[d] = Strings(u[d])
         /\ \A o \in Objects : o \in Owners /\ o \notin Dicts /\ own[o] = Owned(w[o])
BY OwnersAssumption DEF Owns, Owners

\* The strings of some owners, apart from those of the rest.
LEMMA Parted ==
  ASSUME NEW own, NEW h, OwnedOnce(own, h), h \in HeapType, IsFiniteSet(h.live),
         NEW W, W \subseteq DOMAIN own, NEW A, A = Of(own, W), NEW B, B = Of(own, DOMAIN own \ W)
  PROVE  Held(h, A, B)
<1>1. PICK T : T = AllStrings(own)
  OBVIOUS
<1>2. ~h.bad /\ h.live = T \union h.lost
  BY <1>1 DEF OwnedOnce
<1>3. \A s : s \in A <=> \E x \in W : s \in own[x]
  BY DEF Of
<1>4. \A s : s \in B <=> \E x \in DOMAIN own \ W : s \in own[x]
  BY DEF Of
<1>5. A \union B = T
  <2>1. \A s : s \in T <=> \E x \in DOMAIN own : s \in own[x]
    BY <1>1 DEF AllStrings
  <2> QED BY <1>3, <1>4, <2>1
<1>6. \A x \in DOMAIN own : own[x] \intersect h.lost = {}
  BY DEF OwnedOnce
<1>7. \A x, y \in DOMAIN own : x # y => own[x] \intersect own[y] = {}
  BY DEF OwnedOnce
<1>8. A \intersect h.lost = {} /\ B \intersect h.lost = {}
  BY <1>3, <1>4, <1>6
<1>9. A \intersect B = {}
  <2>1. ASSUME NEW s, s \in A, s \in B  PROVE FALSE
    <3>1. PICK x \in W : s \in own[x]
      BY <1>3, <2>1
    <3>2. PICK y \in DOMAIN own \ W : s \in own[y]
      BY <1>4, <2>1
    <3>3. x # y /\ x \in DOMAIN own /\ y \in DOMAIN own
      BY <3>1, <3>2
    <3> QED BY <1>7, <3>1, <3>2, <3>3
  <2> QED BY <2>1
<1> QED BY <1>2, <1>5, <1>8, <1>9 DEF Held

\* What some owners own has become something else.
LEMMA Rejoined ==
  ASSUME NEW own, NEW h, OwnedOnce(own, h), NEW W, W \subseteq DOMAIN own,
         NEW new, DOMAIN new = DOMAIN own, \A x \in DOMAIN own \ W : new[x] = own[x],
         \A x, y \in W : x # y => new[x] \intersect new[y] = {},
         NEW g, NEW A, A = Of(new, W), NEW B, B = Of(own, DOMAIN own \ W), Held(g, A, B)
  PROVE  OwnedOnce(new, g)
<1>1. /\ ~g.bad /\ g.live = A \union B \union g.lost
      /\ A \intersect B = {} /\ A \intersect g.lost = {} /\ B \intersect g.lost = {}
  BY DEF Held
<1>2. \A s : s \in A <=> \E x \in W : s \in new[x]
  BY DEF Of
<1>3. \A s : s \in B <=> \E x \in DOMAIN own \ W : s \in new[x]
  BY DEF Of
<1>4. PICK T : T = AllStrings(new)
  OBVIOUS
<1>5. A \union B = T
  <2>1. \A s : s \in T <=> \E x \in DOMAIN own : s \in new[x]
    BY <1>4 DEF AllStrings
  <2> QED BY <1>2, <1>3, <2>1
<1>6. \A x \in DOMAIN new : new[x] \subseteq A \/ new[x] \subseteq B
  <2>1. \A x \in W : new[x] \subseteq A
    BY <1>2
  <2>2. \A x \in DOMAIN own \ W : new[x] \subseteq B
    BY <1>3
  <2> QED BY <2>1, <2>2
<1>7. \A x \in DOMAIN new : new[x] \intersect g.lost = {}
  BY <1>1, <1>6
<1>8. ASSUME NEW x \in DOMAIN new, NEW y \in DOMAIN new, x # y
      PROVE  new[x] \intersect new[y] = {}
  <2>1. CASE x \in W /\ y \in W
    BY <1>8, <2>1
  <2>2. CASE x \in W /\ y \notin W
    BY <1>1, <1>2, <1>3, <2>2
  <2>3. CASE x \notin W /\ y \in W
    BY <1>1, <1>2, <1>3, <2>3
  <2>4. CASE x \notin W /\ y \notin W
    <3>1. new[x] = own[x] /\ new[y] = own[y] /\ x \in DOMAIN own /\ y \in DOMAIN own
      BY <2>4
    <3>2. own[x] \intersect own[y] = {}
      BY <1>8, <3>1 DEF OwnedOnce
    <3> QED BY <3>1, <3>2
  <2> QED BY <2>1, <2>2, <2>3, <2>4
<1>9. g.live = T \union g.lost
  BY <1>1, <1>5
<1> QED BY <1>1, <1>4, <1>7, <1>8, <1>9 DEF OwnedOnce

\* The strings of all owners but these.
Others(u, w, W) == Of(Owns(u, w), Owners \ W)

LEMMA DictApart ==
  ASSUME NEW u, NEW w, NEW h, Whole(u, w, h), NEW d \in Dicts
  PROVE  DictHeld(u[d], h, Others(u, w, {d}))
<1>1. PICK own : own = Owns(u, w)
  OBVIOUS
<1>2. DOMAIN own = Owners /\ d \in Owners /\ own[d] = Strings(u[d])
  BY <1>1, OwnsIs
<1>3. OwnedOnce(own, h) /\ h \in HeapType /\ IsFiniteSet(h.live) /\ OwnEntries(u[d])
  BY <1>1 DEF Whole
<1>4. own[d] = Of(own, {d})
  BY DEF Of
<1>5. PICK W : W = {d}
  OBVIOUS
<1>6. W \subseteq DOMAIN own /\ own[d] = Of(own, W)
  BY <1>2, <1>4, <1>5
<1>7. Held(h, own[d], Of(own, DOMAIN own \ W))
  BY <1>3, <1>6, Parted
<1>8. Of(own, DOMAIN own \ W) = Others(u, w, {d})
  BY <1>1, <1>2, <1>5 DEF Others
<1> QED BY <1>2, <1>3, <1>7, <1>8 DEF DictHeld

LEMMA ObjApart ==
  ASSUME NEW u, NEW w, NEW h, Whole(u, w, h), NEW o \in Objects
  PROVE  ObjHeld(w[o], h, Others(u, w, {o}))
<1>1. PICK own : own = Owns(u, w)
  OBVIOUS
<1>2. DOMAIN own = Owners /\ o \in Owners /\ own[o] = Owned(w[o])
  BY <1>1, OwnsIs
<1>3. OwnedOnce(own, h) /\ h \in HeapType /\ IsFiniteSet(h.live) /\ OwnFields(w[o])
  BY <1>1 DEF Whole
<1>4. own[o] = Of(own, {o})
  BY DEF Of
<1>5. PICK W : W = {o}
  OBVIOUS
<1>6. W \subseteq DOMAIN own /\ own[o] = Of(own, W)
  BY <1>2, <1>4, <1>5
<1>7. Held(h, own[o], Of(own, DOMAIN own \ W))
  BY <1>3, <1>6, Parted
<1>8. Of(own, DOMAIN own \ W) = Others(u, w, {o})
  BY <1>1, <1>2, <1>5 DEF Others
<1> QED BY <1>2, <1>3, <1>7, <1>8 DEF ObjHeld

Changed(f, x, e) == [f EXCEPT ![x] = e]

\* A dictionary has changed, and the rest has not.
LEMMA DictRejoined ==
  ASSUME NEW u, NEW w, NEW h, Whole(u, w, h), NEW d \in Dicts, NEW e, NEW g,
         DictHeld(e, g, Others(u, w, {d})), NEW v, v = Changed(u, d, e)
  PROVE  Whole(v, w, g)
<1>1. PICK own, new, W : own = Owns(u, w) /\ new = Owns(v, w) /\ W = {d}
  OBVIOUS
<1>2. OwnEntries(e) /\ Held(g, Strings(e), Others(u, w, {d})) /\ e \in Seq(EntryType)
  BY DEF DictHeld, OwnEntries
<1>3. u \in [Dicts -> Seq(EntryType)] /\ \A c \in Dicts : OwnEntries(u[c])
  BY DEF Whole
<1>4. v \in [Dicts -> Seq(EntryType)] /\ v[d] = e /\ \A c \in Dicts \ {d} : v[c] = u[c]
  BY <1>2, <1>3 DEF Changed
<1>5. \A c \in Dicts : OwnEntries(v[c])
  BY <1>2, <1>3, <1>4
<1>6. DOMAIN own = Owners /\ DOMAIN new = Owners /\ d \in Owners /\ new[d] = Strings(e)
  BY <1>1, <1>4, OwnsIs
<1>7. \A x \in Owners \ {d} : new[x] = own[x]
  <2>1. \A c \in Dicts : own[c] = Strings(u[c]) /\ new[c] = Strings(v[c])
    BY <1>1, OwnsIs
  <2>2. \A o \in Objects : own[o] = Owned(w[o]) /\ new[o] = Owned(w[o])
    BY <1>1, OwnsIs
  <2>3. \A c \in Dicts \ {d} : new[c] = own[c]
    BY <1>4, <2>1
  <2> QED BY <2>2, <2>3 DEF Owners
<1>8. OwnedOnce(own, h)
  BY <1>1 DEF Whole
<1>9. PICK A, B : A = Of(new, W) /\ B = Of(own, DOMAIN own \ W)
  OBVIOUS
<1>10. Held(g, A, B)
  <2>1. Of(new, {d}) = new[d]
    BY DEF Of
  <2>2. A = Strings(e)
    BY <1>1, <1>6, <1>9, <2>1
  <2>3. B = Others(u, w, {d})
    BY <1>1, <1>6, <1>9 DEF Others
  <2> QED BY <1>2, <2>2, <2>3
<1>11. /\ W \subseteq DOMAIN own /\ DOMAIN new = DOMAIN own
       /\ \A x \in DOMAIN own \ W : new[x] = own[x]
       /\ \A x, y \in W : x # y => new[x] \intersect new[y] = {}
  BY <1>1, <1>6, <1>7
<1>12. OwnedOnce(new, g)
  BY <1>8, <1>9, <1>10, <1>11, Rejoined
<1>13. g \in HeapType /\ IsFiniteSet(g.live)
  BY <1>2 DEF Held
<1>14. w \in [Objects -> ObjectType] /\ \A o \in Objects : OwnFields(w[o])
  BY DEF Whole
<1> QED BY <1>1, <1>4, <1>5, <1>12, <1>13, <1>14 DEF Whole

LEMMA ObjRejoined ==
  ASSUME NEW u, NEW w, NEW h, Whole(u, w, h), NEW o \in Objects, NEW y, NEW g,
         ObjHeld(y, g, Others(u, w, {o})), NEW v, v = Changed(w, o, y)
  PROVE  Whole(u, v, g)
<1>1. PICK own, new, W : own = Owns(u, w) /\ new = Owns(u, v) /\ W = {o}
  OBVIOUS
<1>2. OwnFields(y) /\ Held(g, Owned(y), Others(u, w, {o})) /\ y \in ObjectType
  BY DEF ObjHeld, OwnFields
<1>3. w \in [Objects -> ObjectType] /\ \A c \in Objects : OwnFields(w[c])
  BY DEF Whole
<1>4. v \in [Objects -> ObjectType] /\ v[o] = y /\ \A c \in Objects \ {o} : v[c] = w[c]
  BY <1>2, <1>3 DEF Changed
<1>5. \A c \in Objects : OwnFields(v[c])
  BY <1>2, <1>3, <1>4
<1>6. DOMAIN own = Owners /\ DOMAIN new = Owners /\ o \in Owners /\ new[o] = Owned(y)
  BY <1>1, <1>4, OwnsIs
<1>7. \A x \in Owners \ {o} : new[x] = own[x]
  <2>1. \A c \in Dicts : own[c] = Strings(u[c]) /\ new[c] = Strings(u[c])
    BY <1>1, OwnsIs
  <2>2. \A c \in Objects : own[c] = Owned(w[c]) /\ new[c] = Owned(v[c])
    BY <1>1, OwnsIs
  <2>3. \A c \in Objects \ {o} : new[c] = own[c]
    BY <1>4, <2>2
  <2> QED BY <2>1, <2>3 DEF Owners
<1>8. OwnedOnce(own, h)
  BY <1>1 DEF Whole
<1>9. PICK A, B : A = Of(new, W) /\ B = Of(own, DOMAIN own \ W)
  OBVIOUS
<1>10. Held(g, A, B)
  <2>1. Of(new, {o}) = new[o]
    BY DEF Of
  <2>2. A = Owned(y)
    BY <1>1, <1>6, <1>9, <2>1
  <2>3. B = Others(u, w, {o})
    BY <1>1, <1>6, <1>9 DEF Others
  <2> QED BY <1>2, <2>2, <2>3
<1>11. /\ W \subseteq DOMAIN own /\ DOMAIN new = DOMAIN own
       /\ \A x \in DOMAIN own \ W : new[x] = own[x]
       /\ \A x, z \in W : x # z => new[x] \intersect new[z] = {}
  BY <1>1, <1>6, <1>7
<1>12. OwnedOnce(new, g)
  BY <1>8, <1>9, <1>10, <1>11, Rejoined
<1>13. g \in HeapType /\ IsFiniteSet(g.live)
  BY <1>2 DEF Held
<1>14. u \in [Dicts -> Seq(EntryType)] /\ \A d \in Dicts : OwnEntries(u[d])
  BY DEF Whole
<1> QED BY <1>1, <1>4, <1>5, <1>12, <1>13, <1>14 DEF Whole

\* The strings of a dictionary and of an object, apart from those of the rest.
LEMMA PairApart ==
  ASSUME NEW u, NEW w, NEW h, Whole(u, w, h), NEW d \in Dicts, NEW o \in Objects
  PROVE  /\ OwnEntries(u[d]) /\ OwnFields(w[o]) /\ Owned(w[o]) \intersect Strings(u[d]) = {}
         /\ Held(h, Owned(w[o]) \union Strings(u[d]), Others(u, w, {d, o}))
<1>1. PICK own : own = Owns(u, w)
  OBVIOUS
<1>2. DOMAIN own = Owners /\ d \in Owners /\ own[d] = Strings(u[d])
  BY <1>1, OwnsIs
<1>3. o \in Owners /\ o # d /\ own[o] = Owned(w[o])
  BY <1>1, OwnsIs
<1>4. OwnedOnce(own, h) /\ h \in HeapType /\ IsFiniteSet(h.live) /\ OwnEntries(u[d]) /\ OwnFields(w[o])
  BY <1>1 DEF Whole
<1>5. PICK W : W = {d, o}
  OBVIOUS
<1>6. PICK A : A = Of(own, W)
  OBVIOUS
<1>7. A = own[o] \union own[d]
  BY <1>5, <1>6 DEF Of
<1>8. W \subseteq DOMAIN own
  BY <1>2, <1>3, <1>5
<1>9. Held(h, A, Of(own, DOMAIN own \ W))
  BY <1>4, <1>6, <1>8, Parted
<1>10. Of(own, DOMAIN own \ W) = Others(u, w, {d, o})
  BY <1>1, <1>2, <1>5 DEF Others
<1>11. own[o] \intersect own[d] = {}
  BY <1>2, <1>3, <1>4 DEF OwnedOnce
<1> QED BY <1>2, <1>3, <1>4, <1>7, <1>9, <1>10, <1>11

\* A dictionary and an object have changed.
LEMMA PairRejoined ==
  ASSUME NEW u, NEW w, NEW h, Whole(u, w, h), NEW d \in Dicts, NEW o \in Objects,
         NEW e, OwnEntries(e), NEW y, OwnFields(y), Owned(y) \intersect Strings(e) = {},
         NEW g, Held(g, Owned(y) \union Strings(e), Others(u, w, {d, o})),
         NEW v, v = Changed(u, d, e), NEW z, z = Changed(w, o, y)
  PROVE  Whole(v, z, g)
<1>1. PICK own, new, W : own = Owns(u, w) /\ new = Owns(v, z) /\ W = {d, o}
  OBVIOUS
<1>2. e \in Seq(EntryType) /\ y \in ObjectType
  BY DEF OwnEntries, OwnFields
<1>3. /\ u \in [Dicts -> Seq(EntryType)] /\ \A c \in Dicts : OwnEntries(u[c])
      /\ w \in [Objects -> ObjectType] /\ \A c \in Objects : OwnFields(w[c])
  BY DEF Whole
<1>4. v \in [Dicts -> Seq(EntryType)] /\ v[d] = e /\ \A c \in Dicts \ {d} : v[c] = u[c]
  BY <1>2, <1>3 DEF Changed
<1>5. z \in [Objects -> ObjectType] /\ z[o] = y /\ \A c \in Objects \ {o} : z[c] = w[c]
  BY <1>2, <1>3 DEF Changed
<1>6. \A c \in Dicts : OwnEntries(v[c])
  BY <1>3, <1>4
<1>7. \A c \in Objects : OwnFields(z[c])
  BY <1>3, <1>5
<1>8. \A c \in Dicts : own[c] = Strings(u[c]) /\ new[c] = Strings(v[c])
  BY <1>1, OwnsIs
<1>9. \A c \in Objects : own[c] = Owned(w[c]) /\ new[c] = Owned(z[c])
  BY <1>1, OwnsIs
<1>10. DOMAIN own = Owners /\ DOMAIN new = Owners /\ d \in Owners /\ o \in Owners
  BY <1>1, OwnsIs
<1>11. \A x \in Owners \ {d, o} : new[x] = own[x]
  <2>1. \A c \in Dicts \ {d} : new[c] = own[c]
    BY <1>4, <1>8
  <2>2. \A c \in Objects \ {o} : new[c] = own[c]
    BY <1>5, <1>9
  <2> QED BY <2>1, <2>2 DEF Owners
<1>12. OwnedOnce(own, h)
  BY <1>1 DEF Whole
<1>13. new[d] = Strings(e) /\ new[o] = Owned(y)
  BY <1>4, <1>5, <1>8, <1>9
<1>14. PICK A, B : A = Of(new, W) /\ B = Of(own, DOMAIN own \ W)
  OBVIOUS
<1>15. Held(g, A, B)
  <2>1. Of(new, {d, o}) = new[o] \union new[d]
    BY DEF Of
  <2>2. A = Owned(y) \union Strings(e)
    BY <1>1, <1>13, <1>14, <2>1
  <2>3. B = Others(u, w, {d, o})
    BY <1>1, <1>10, <1>14 DEF Others
  <2> QED BY <2>2, <2>3
<1>16. /\ W \subseteq DOMAIN own /\ DOMAIN new = DOMAIN own
       /\ \A x \in DOMAIN own \ W : new[x] = own[x]
  BY <1>1, <1>10, <1>11
<1>17. \A x, c \in W : x # c => new[x] \intersect new[c] = {}
  BY <1>1, <1>13
<1>18. OwnedOnce(new, g)
  BY <1>12, <1>14, <1>15, <1>16, <1>17, Rejoined
<1>19. g \in HeapType /\ IsFiniteSet(g.live)
  BY DEF Held
<1> QED BY <1>1, <1>4, <1>5, <1>6, <1>7, <1>18, <1>19 DEF Whole

OptInv == Whole(dict, obj, heap)

LEMMA OptStarts == OptInit => OptInv
<1> SUFFICES ASSUME OptInit  PROVE OptInv
  OBVIOUS
<1>1. /\ dict = [d \in Dicts |-> <<>>] /\ obj = [o \in Objects |-> Empty]
      /\ heap = [live |-> {}, lost |-> {}, bad |-> FALSE]
  BY DEF OptInit, DictInit
<1>2. dict \in [Dicts -> Seq(EntryType)] /\ \A d \in Dicts : OwnEntries(dict[d]) /\ Strings(dict[d]) = {}
  <2>1. PICK e : e = <<>>
    OBVIOUS
  <2>2. e \in Seq(EntryType) /\ OwnEntries(e) /\ Strings(e) = {}
    BY <2>1, NoEntries DEF OwnEntries
  <2>3. dict = [d \in Dicts |-> e]
    BY <1>1, <2>1
  <2> QED BY <2>2, <2>3
<1>3. obj \in [Objects -> ObjectType] /\ \A o \in Objects : OwnFields(obj[o]) /\ Owned(obj[o]) = {}
  <2>1. Empty \in ObjectType
    BY EmptyIs DEF OwnFields
  <2> QED BY <1>1, <2>1, EmptyIs
<1>4. heap \in HeapType /\ heap.live = {} /\ heap.lost = {} /\ ~heap.bad
  BY <1>1 DEF HeapType
<1>5. IsFiniteSet(heap.live)
  BY <1>4, FS_EmptySet
<1>6. PICK own : own = Owns(dict, obj)
  OBVIOUS
<1>7. DOMAIN own = Owners /\ \A x \in Owners : own[x] = {}
  <2>1. \A d \in Dicts : own[d] = {}
    BY <1>2, <1>6, OwnsIs
  <2>2. \A o \in Objects : own[o] = {}
    BY <1>3, <1>6, OwnsIs
  <2>3. DOMAIN own = Owners
    BY <1>6, OwnsIs
  <2> QED BY <2>1, <2>2, <2>3 DEF Owners
<1>8. OwnedOnce(own, heap)
  <2>1. AllStrings(own) = {}
    BY <1>7 DEF AllStrings
  <2> QED BY <1>4, <1>7, <2>1 DEF OwnedOnce
<1> QED BY <1>2, <1>3, <1>4, <1>5, <1>6, <1>8 DEF OptInv, Whole

\* A call on a dictionary, and one on an object.
LEMMA DictDone ==
  ASSUME OptInv, NEW d \in Dicts, NEW r, r \in Results(Others(dict, obj, {d})), NEW call,
         Does(d, r, call), UNCHANGED obj
  PROVE  OptInv'
<1>1. PICK u, w, h : u = dict /\ w = obj /\ h = heap
  OBVIOUS
<1>2. PICK e, g : e = r.d /\ g = r.h
  OBVIOUS
<1>3. Whole(u, w, h) /\ DictHeld(e, g, Others(u, w, {d}))
  BY <1>1, <1>2 DEF OptInv, Results
<1>4. PICK v : v = Changed(u, d, e)
  OBVIOUS
<1>5. Whole(v, w, g)
  BY <1>3, <1>4, DictRejoined
<1>6. dict' = v /\ heap' = g /\ obj' = w
  BY <1>1, <1>2, <1>4 DEF Does, Changed
<1> QED BY <1>5, <1>6 DEF OptInv

LEMMA ObjDone ==
  ASSUME OptInv, NEW o \in Objects, NEW r, ObjHeld(r.x, r.h, Others(dict, obj, {o})), Sets(o, r)
  PROVE  OptInv'
<1>1. PICK u, w, h : u = dict /\ w = obj /\ h = heap
  OBVIOUS
<1>2. PICK y, g : y = r.x /\ g = r.h
  OBVIOUS
<1>3. Whole(u, w, h) /\ ObjHeld(y, g, Others(u, w, {o}))
  BY <1>1, <1>2 DEF OptInv
<1>4. PICK v : v = Changed(w, o, y)
  OBVIOUS
<1>5. Whole(u, v, g)
  BY <1>3, <1>4, ObjRejoined
<1>6. dict' = u /\ heap' = g /\ obj' = v
  BY <1>1, <1>2, <1>4 DEF Sets, Changed
<1> QED BY <1>5, <1>6 DEF OptInv

\* The dictionary, or the object, of a call.
LEMMA DictIs ==
  ASSUME OptInv, NEW d \in Dicts
  PROVE  DictHeld(dict[d], heap, Others(dict, obj, {d})) /\ OwnEntries(dict[d]) /\ Settings(dict[d])
<1>1. Whole(dict, obj, heap)
  BY DEF OptInv
<1>2. PICK u, w, h, e, other : u = dict /\ w = obj /\ h = heap /\ e = u[d] /\ other = Others(u, w, {d})
  OBVIOUS
<1>3. DictHeld(e, h, other)
  BY <1>1, <1>2, DictApart
<1>4. OwnEntries(e) /\ Settings(e)
  BY <1>3, EntriesAreSettings DEF DictHeld
<1> QED BY <1>2, <1>3, <1>4

LEMMA ObjIs ==
  ASSUME OptInv, NEW o \in Objects
  PROVE  ObjHeld(obj[o], heap, Others(dict, obj, {o}))
BY ObjApart DEF OptInv

LEMMA SetStep ==
  ASSUME OptInv, NEW d \in Dicts, NEW key \in Texts, NEW value, value = NoValue \/ value \in Texts,
         NEW flags, NEW fail, Set(d, key, value, flags, fail), UNCHANGED obj
  PROVE  OptInv'
<1>1. PICK e, h, other : e = dict[d] /\ h = heap /\ other = Others(dict, obj, {d})
  OBVIOUS
<1>2. DictHeld(e, h, other)
  BY <1>1, DictIs
<1>3. PICK r : r = SetEntry(e, h, key, value, flags, fail)
  OBVIOUS
<1>4. r \in Results(other)
  BY <1>2, <1>3, SetEntryKeeps
<1>5. \E call : Does(d, r, call)
  BY <1>1, <1>3 DEF Set
<1>6. r \in Results(Others(dict, obj, {d}))
  BY <1>1, <1>4
<1> QED BY <1>5, <1>6, DictDone

LEMMA SetAllStep ==
  ASSUME OptInv, NEW d \in Dicts, NEW entries, Settings(entries), NEW flags, NEW at, NEW fail,
         NEW call, Does(d, SetAll(dict[d], heap, entries, flags, at, fail), call), UNCHANGED obj
  PROVE  OptInv'
<1>1. PICK e, h, other : e = dict[d] /\ h = heap /\ other = Others(dict, obj, {d})
  OBVIOUS
<1>2. DictHeld(e, h, other)
  BY <1>1, DictIs
<1>3. PICK r : r = SetAll(e, h, entries, flags, at, fail)
  OBVIOUS
<1>4. r \in Results(other)
  BY <1>2, <1>3, SetAllKeeps
<1>5. Does(d, r, call)
  BY <1>1, <1>3
<1>6. r \in Results(Others(dict, obj, {d}))
  BY <1>1, <1>4
<1> QED BY <1>5, <1>6, DictDone

LEMMA FreeDictStep ==
  ASSUME OptInv, NEW d \in Dicts, FreeDict(d), UNCHANGED obj
  PROVE  OptInv'
<1>1. PICK e, h, other : e = dict[d] /\ h = heap /\ other = Others(dict, obj, {d})
  OBVIOUS
<1>2. OwnEntries(e) /\ Held(h, Strings(e), other)
  BY <1>1, DictIs DEF DictHeld
<1>3. PICK S, g : S = Strings(e) /\ g = FreeStrings(h, S)
  OBVIOUS
<1>4. Held(g, {}, other)
  <2>1. S \subseteq S \union {0} /\ S \ S = {}
    OBVIOUS
  <2>2. Held(g, S \ S, other)
    BY <1>2, <1>3, <2>1, FreeHeld
  <2> QED BY <2>1, <2>2
<1>5. PICK z : z = <<>>
  OBVIOUS
<1>6. DictHeld(z, g, other)
  BY <1>4, <1>5, NoEntries DEF DictHeld
<1>7. PICK r : r = [d |-> z, h |-> g, ok |-> TRUE]
  OBVIOUS
<1>8. r \in Results(other)
  BY <1>6, <1>7, ResultIs
<1>9. \E call : Does(d, r, call)
  BY <1>1, <1>3, <1>5, <1>7 DEF FreeDict
<1>10. r \in Results(Others(dict, obj, {d}))
  BY <1>1, <1>8
<1> QED BY <1>9, <1>10, DictDone

LEMMA CallersTexts ==
  /\ \A key \in Keys \union OptionNames : key \in Texts
  /\ \A value \in Values : value \in Texts
  /\ \A pair \in Pairs : pair.key \in Texts /\ pair.value \in Texts
<1>1. \A text \in Keys \union Values : text \in Texts
  BY TextsAssumption, StringsAreTexts
<1>2. \A key \in OptionNames : key \in Texts
  <2>1. ASSUME NEW letter \in Letters  PROVE <<letter>> \in Texts
    BY DEF Texts
  <2>2. "s" \in Letters /\ "b" \in Letters /\ "d" \in Letters /\ "n" \in Letters
    BY DEF Letters
  <2> QED BY <2>1, <2>2 DEF OptionNames
<1> QED BY <1>1, <1>2 DEF Pairs

LEMMA DictNextKeeps ==
  ASSUME OptInv, DictNext, UNCHANGED obj
  PROVE  OptInv'
<1>1. PICK d \in Dicts :
        \/ \E flags \in FlagSets, fail \in Fails :
              \E key \in Keys, value \in Values \union {NoValue} :
                 Set(d, key, value, flags, fail) \/ SetInt(d, key, value, flags, fail)
        \/ \E flags \in FlagSets, fail \in FewFails :
              \/ \E p, q \in Pairs : p.key # q.key /\ ParseString(d, <<p, q>>, flags, 2, fail)
              \/ \E src \in Dicts : \E at \in DOMAIN dict[src] : Copy(d, src, flags, at, fail)
        \/ FreeDict(d)
  BY DEF DictNext
<1>2. ASSUME NEW flags, NEW fail, NEW key \in Keys, NEW value \in Values \union {NoValue},
             Set(d, key, value, flags, fail) \/ SetInt(d, key, value, flags, fail)
      PROVE  OptInv'
  <2>1. key \in Texts /\ (value = NoValue \/ value \in Texts)
    BY CallersTexts
  <2>2. \E taken : Set(d, key, value, taken, fail)
    BY <1>2 DEF SetInt
  <2> QED BY <2>1, <2>2, SetStep
<1>3. ASSUME NEW flags, NEW fail, NEW p \in Pairs, NEW q \in Pairs, ParseString(d, <<p, q>>, flags, 2, fail)
      PROVE  OptInv'
  <2>1. PICK entries : entries = <<p, q>>
    OBVIOUS
  <2>2. Settings(entries)
    <3>1. Len(entries) = 2 /\ entries[1] = p /\ entries[2] = q
      BY <2>1
    <3>2. \A i \in 1 .. 2 : i = 1 \/ i = 2
      OBVIOUS
    <3>3. \A i \in 1 .. 2 : entries[i] \in Pairs
      BY <3>1, <3>2
    <3> QED BY <3>1, <3>3, CallersTexts DEF Settings
  <2>3. \E taken, call : Does(d, SetAll(dict[d], heap, entries, taken, 2, fail), call)
    BY <1>3, <2>1 DEF ParseString
  <2> QED BY <2>2, <2>3, SetAllStep
<1>4. ASSUME NEW flags, NEW fail, NEW src \in Dicts, NEW at, Copy(d, src, flags, at, fail)
      PROVE  OptInv'
  <2>1. Settings(dict[src])
    BY DictIs
  <2>2. PICK entries : entries = dict[src]
    OBVIOUS
  <2>3. Settings(entries) /\ \E call : Does(d, SetAll(dict[d], heap, entries, flags, at, fail), call)
    BY <1>4, <2>1, <2>2 DEF Copy
  <2> QED BY <2>3, SetAllStep
<1>5. FreeDict(d) => OptInv'
  BY FreeDictStep
<1> QED BY <1>1, <1>2, <1>3, <1>4, <1>5

LEMMA CallerKeeps ==
  ASSUME OptInv, Caller
  PROVE  OptInv'
<1>1. UNCHANGED obj /\ Source \in Dicts
  BY OwnersAssumption DEF Caller
<1>2. ASSUME NEW key \in Keys \union OptionNames, NEW value \in Values, NEW flags,
             Set(Source, key, value, flags, "none")
      PROVE  OptInv'
  <2>1. key \in Texts /\ value \in Texts
    BY CallersTexts
  <2> QED BY <1>1, <1>2, <2>1, SetStep
<1>3. FreeDict(Source) => OptInv'
  BY <1>1, FreeDictStep
<1> QED BY <1>2, <1>3 DEF Caller

LEMMA Set1Step ==
  ASSUME OptInv, NEW o \in Objects, NEW name, NEW value, value = NoValue \/ value \in Texts, NEW fails,
         Set1(o, name, value, fails)
  PROVE  OptInv'
<1>1. PICK x, h, other : x = obj[o] /\ h = heap /\ other = Others(dict, obj, {o})
  OBVIOUS
<1>2. ObjHeld(x, h, other)
  BY <1>1, ObjIs
<1>3. PICK r : r = OptSet(x, h, name, value, fails)
  OBVIOUS
<1>4. ObjHeld(r.x, r.h, other)
  BY <1>2, <1>3, OptSetKeeps
<1>5. Sets(o, r)
  BY <1>1, <1>3 DEF Set1
<1>6. ObjHeld(r.x, r.h, Others(dict, obj, {o}))
  BY <1>1, <1>4
<1> QED BY <1>5, <1>6, ObjDone

LEMMA SetBinStep ==
  ASSUME OptInv, NEW o \in Objects, NEW value \in Texts, NEW fails, SetBin(o, value, fails)
  PROVE  OptInv'
<1>1. PICK x, h, other : x = obj[o] /\ h = heap /\ other = Others(dict, obj, {o})
  OBVIOUS
<1>2. ObjHeld(x, h, other)
  BY <1>1, ObjIs
<1>3. PICK q : q = IF value = <<>> THEN [f |-> NoString, h |-> h, ok |-> TRUE]
                   ELSE NewString(h, value, fails)
  OBVIOUS
<1>4. PICK y, g : y = [x EXCEPT !.b = q.f] /\ g = FreeStrings(q.h, {x.b.p})
  OBVIOUS
<1>5. ObjHeld(y, g, other)
  BY <1>2, <1>3, <1>4, SetBinHeld
<1>6. PICK r : r = IF q.ok THEN [x |-> y, h |-> g, ret |-> "ok"] ELSE [x |-> x, h |-> h, ret |-> "error"]
  OBVIOUS
<1>7. ObjHeld(r.x, r.h, other)
  BY <1>2, <1>5, <1>6
<1>8. Sets(o, r)
  BY <1>1, <1>3, <1>4, <1>6 DEF SetBin, Freed
<1>9. ObjHeld(r.x, r.h, Others(dict, obj, {o}))
  BY <1>1, <1>7
<1> QED BY <1>8, <1>9, ObjDone

LEMMA SetDictValStep ==
  ASSUME OptInv, NEW o \in Objects, NEW at, NEW fail, SetDictVal(o, at, fail)
  PROVE  OptInv'
<1>1. PICK x, h, other, entries :
         x = obj[o] /\ h = heap /\ other = Others(dict, obj, {o}) /\ entries = dict[Source]
  OBVIOUS
<1>2. ObjHeld(x, h, other)
  BY <1>1, ObjIs
<1>3. Settings(entries)
  BY <1>1, DictIs, OwnersAssumption
<1>4. PICK q : q = SetAll(<<>>, FreeStrings(h, Strings(x.d)), entries, {}, at, fail)
  OBVIOUS
<1>5. PICK y : y = [x EXCEPT !.d = q.d]
  OBVIOUS
<1>6. ObjHeld(y, q.h, other)
  BY <1>2, <1>3, <1>4, <1>5, SetDictValHeld
<1>7. PICK r : r = [x |-> y, h |-> q.h, ret |-> "ok"]
  OBVIOUS
<1>8. Sets(o, r)
  BY <1>1, <1>4, <1>5, <1>7 DEF SetDictVal
<1>9. r.x = y /\ r.h = q.h
  BY <1>7
<1>10. ObjHeld(r.x, r.h, Others(dict, obj, {o}))
  BY <1>1, <1>6, <1>9
<1> QED BY <1>8, <1>10, ObjDone

LEMMA SetDefaultsStep ==
  ASSUME OptInv, NEW o \in Objects, NEW value, value = NoValue \/ value \in Texts, NEW fails,
         SetDefaults(o, value, fails)
  PROVE  OptInv'
<1>1. PICK x, h, other : x = obj[o] /\ h = heap /\ other = Others(dict, obj, {o})
  OBVIOUS
<1>2. ObjHeld(x, h, other)
  BY <1>1, ObjIs
<1>3. PICK q : q = SetString(x.s, h, value, fails)
  OBVIOUS
<1>4. PICK y, g : y = [x EXCEPT !.s = q.f, !.b = NoString, !.n = <<>>] /\ g = FreeStrings(q.h, {x.b.p})
  OBVIOUS
<1>5. ObjHeld(y, g, other)
  BY <1>2, <1>3, <1>4, SetDefaultsHeld
<1>6. PICK r : r = [x |-> y, h |-> g, ret |-> "ok"]
  OBVIOUS
<1>7. Sets(o, r)
  BY <1>1, <1>3, <1>4, <1>6 DEF SetDefaults, Freed
<1>8. r.x = y /\ r.h = g
  BY <1>6
<1>9. ObjHeld(r.x, r.h, Others(dict, obj, {o}))
  BY <1>1, <1>5, <1>8
<1> QED BY <1>7, <1>9, ObjDone

LEMMA OptFreeStep ==
  ASSUME OptInv, NEW o \in Objects, OptFree(o)
  PROVE  OptInv'
<1>1. PICK x, h, other : x = obj[o] /\ h = heap /\ other = Others(dict, obj, {o})
  OBVIOUS
<1>2. ObjHeld(x, h, other)
  BY <1>1, ObjIs
<1>3. PICK g : g = FreeStrings(h, Strings(x.d) \union {x.s.p, x.b.p})
  OBVIOUS
<1>4. ObjHeld(Empty, g, other)
  BY <1>2, <1>3, OptFreeHeld
<1>5. PICK r : r = [x |-> Empty, h |-> g, ret |-> "ok"]
  OBVIOUS
<1>6. Sets(o, r)
  BY <1>1, <1>3, <1>5 DEF OptFree
<1>7. r.x = Empty /\ r.h = g
  BY <1>5
<1>8. ObjHeld(r.x, r.h, Others(dict, obj, {o}))
  BY <1>1, <1>4, <1>7
<1> QED BY <1>6, <1>8, ObjDone

LEMMA OptCopyStep ==
  ASSUME OptInv, NEW dst \in Objects, NEW src \in Objects, NEW assigned \in BOOLEAN, NEW fails,
         NEW at, NEW fail, OptCopy(dst, src, assigned, fails, at, fail)
  PROVE  OptInv'
<1>1. PICK x, y, h, other : x = obj[dst] /\ y = obj[src] /\ h = heap /\ other = Others(dict, obj, {dst})
  OBVIOUS
<1>2. ObjHeld(x, h, other)
  BY <1>1, ObjIs
<1>3. OwnFields(x) /\ Held(h, Owned(x), other)
  BY <1>2 DEF ObjHeld
<1>4. OwnFields(y)
  <2>1. ObjHeld(y, h, Others(dict, obj, {src}))
    BY <1>1, ObjIs
  <2> QED BY <2>1 DEF ObjHeld
<1>5. dst # src /\ (assigned => x = Empty)
  BY <1>1 DEF OptCopy
<1>6. Apart(x, y)
  <2>1. PICK own : own = Owns(dict, obj)
    OBVIOUS
  <2>2. \A x1, x2 \in DOMAIN own : x1 # x2 => own[x1] \intersect own[x2] = {}
    BY <2>1 DEF OptInv, Whole, OwnedOnce
  <2>3. DOMAIN own = Owners /\ dst \in Owners /\ src \in Owners
    BY <2>1, OwnsIs
  <2>4. own[dst] = Owned(x) /\ own[src] = Owned(y)
    BY <1>1, <2>1, OwnsIs
  <2> QED BY <1>5, <2>2, <2>3, <2>4 DEF Apart
<1>7. PICK to : to = IF assigned THEN y ELSE x
  OBVIOUS
<1>8. (to = y /\ x = Empty) \/ (to = x /\ Apart(x, y))
  BY <1>5, <1>6, <1>7
<1>9. PICK sFails, bFails : sFails = ("s" \in fails) /\ bFails = ("b" \in fails)
  OBVIOUS
<1>10. PICK s : s = CopyField(to.s, y.s, h, sFails)
  OBVIOUS
<1>11. PICK b : b = CopyField(to.b, y.b, s.h, bFails)
  OBVIOUS
<1>12. PICK d : d = CopyDict(to.d, y.d, b.h, at, fail)
  OBVIOUS
<1>13. PICK z : z = [s |-> s.f, b |-> b.f, d |-> d.d, n |-> y.n]
  OBVIOUS
<1>14. ObjHeld(z, d.h, other)
  <2>1. CASE to = y /\ x = Empty
    BY <1>3, <1>4, <1>10, <1>11, <1>12, <1>13, <2>1, CopyHeld
  <2>2. CASE to = x /\ Apart(x, y)
    BY <1>3, <1>4, <1>10, <1>11, <1>12, <1>13, <2>2, CopyHeld
  <2> QED BY <1>8, <2>1, <2>2
<1> DEFINE to0 == IF assigned THEN obj[src] ELSE obj[dst]
           s0  == CopyField(to0.s, obj[src].s, heap, "s" \in fails)
           b0  == CopyField(to0.b, obj[src].b, s0.h, "b" \in fails)
           d0  == CopyDict(to0.d, obj[src].d, b0.h, at, fail)
           ok0 == s0.ok /\ b0.ok /\ Len(d0.d) = Len(obj[src].d)
<1>15. Sets(dst, [x |-> [s |-> s0.f, b |-> b0.f, d |-> d0.d, n |-> obj[src].n],
                  h |-> d0.h, ret |-> IF ok0 THEN "ok" ELSE "error"])
  BY Zenon DEF OptCopy
<1> HIDE DEF ok0
<1>16. PICK r : Sets(dst, r) /\ r.x = z /\ r.h = d.h
  <2>1. to0 = to
    BY <1>1, <1>7
  <2> HIDE DEF to0
  <2>2. s0 = s
    BY <1>1, <1>9, <1>10, <2>1
  <2> HIDE DEF s0
  <2>3. b0 = b
    BY <1>1, <1>9, <1>11, <2>1, <2>2
  <2> HIDE DEF b0
  <2>4. d0 = d
    BY <1>1, <1>12, <2>1, <2>3
  <2> HIDE DEF d0
  <2>5. PICK r : r = [x |-> [s |-> s0.f, b |-> b0.f, d |-> d0.d, n |-> obj[src].n],
                      h |-> d0.h, ret |-> IF ok0 THEN "ok" ELSE "error"]
    OBVIOUS
  <2>6. Sets(dst, r)
    BY <1>15, <2>5
  <2>7. r.x = z /\ r.h = d.h
    BY <1>1, <1>13, <2>2, <2>3, <2>4, <2>5
  <2> QED BY <2>6, <2>7
<1>17. ObjHeld(r.x, r.h, Others(dict, obj, {dst}))
  BY <1>1, <1>14, <1>16
<1> QED BY <1>16, <1>17, ObjDone

LEMMA SetDict2Step ==
  ASSUME OptInv, NEW o \in Objects, NEW at, NEW fail, SetDict2(o, at, fail)
  PROVE  OptInv'
<1>1. PICK u, w, h, other : u = dict /\ w = obj /\ h = heap /\ other = Others(u, w, {Source, o})
  OBVIOUS
<1>2. PICK x, d : x = w[o] /\ d = u[Source]
  OBVIOUS
<1>3. Source \in Dicts /\ Whole(u, w, h)
  BY <1>1, OwnersAssumption DEF OptInv
<1>4. /\ OwnEntries(d) /\ OwnFields(x) /\ Owned(x) \intersect Strings(d) = {}
      /\ Held(h, Owned(x) \union Strings(d), other)
  BY <1>1, <1>2, <1>3, PairApart
<1>5. PICK r : r = DictTurns(x, h, d, at, fail)
  OBVIOUS
<1>6. /\ OwnFields(r.x) /\ OwnEntries(r.tmp) /\ r.ok \in BOOLEAN
      /\ Owned(r.x) \intersect Strings(r.tmp) = {} /\ Owned(r.x) \intersect Strings(d) = {}
      /\ Held(FreeStrings(r.h, Strings(d)), Owned(r.x) \union Strings(r.tmp), other)
      /\ Held(FreeStrings(r.h, Strings(r.tmp)), Owned(r.x) \union Strings(d), other)
  BY <1>4, <1>5, SetDict2Held
<1>7. PICK y, tmp, g1, g2 : /\ y = r.x /\ tmp = r.tmp /\ g1 = FreeStrings(r.h, Strings(d))
                            /\ g2 = FreeStrings(r.h, Strings(r.tmp))
  OBVIOUS
<1>8. /\ obj' = Changed(w, o, y)
      /\ \/ dict' = Changed(u, Source, tmp) /\ heap' = g1
         \/ dict' = u /\ heap' = g2
  BY <1>1, <1>2, <1>5, <1>7 DEF SetDict2, Changed
<1>9. PICK z : z = Changed(w, o, y)
  OBVIOUS
<1>10. CASE dict' = Changed(u, Source, tmp) /\ heap' = g1
  <2>1. PICK v : v = Changed(u, Source, tmp)
    OBVIOUS
  <2>2. /\ OwnFields(y) /\ OwnEntries(tmp) /\ Owned(y) \intersect Strings(tmp) = {}
        /\ Held(g1, Owned(y) \union Strings(tmp), other)
    BY <1>6, <1>7
  <2>3. Held(g1, Owned(y) \union Strings(tmp), Others(u, w, {Source, o}))
    BY <1>1, <2>2
  <2>4. Whole(v, z, g1)
    BY <1>3, <1>9, <2>1, <2>2, <2>3, PairRejoined
  <2> QED BY <1>8, <1>9, <1>10, <2>1, <2>4 DEF OptInv
<1>11. CASE dict' = u /\ heap' = g2
  <2>1. PICK v : v = Changed(u, Source, d)
    OBVIOUS
  <2>2. v = u
    <3>1. u \in [Dicts -> Seq(EntryType)]
      BY <1>3 DEF Whole
    <3> QED BY <1>2, <2>1, <3>1 DEF Changed
  <2>3. /\ OwnFields(y) /\ Owned(y) \intersect Strings(d) = {}
        /\ Held(g2, Owned(y) \union Strings(d), other)
    BY <1>6, <1>7
  <2>4. Held(g2, Owned(y) \union Strings(d), Others(u, w, {Source, o}))
    BY <1>1, <2>3
  <2>5. Whole(v, z, g2)
    BY <1>3, <1>4, <1>9, <2>1, <2>3, <2>4, PairRejoined
  <2> QED BY <1>8, <1>9, <1>11, <2>2, <2>5 DEF OptInv
<1> QED BY <1>8, <1>10, <1>11

LEMMA OptNextKeeps ==
  ASSUME OptInv, OptNext
  PROVE  OptInv'
<1>1. PICK o \in Objects :
        \/ \E fails \in BOOLEAN, value \in Values \union {NoValue} :
              \/ \E name \in OptionNames : Set1(o, name, value, fails)
              \/ value # NoValue /\ SetBin(o, value, fails)
              \/ SetDefaults(o, value, fails)
        \/ OptFree(o)
        \/ \E failing \in Failing(dict[Source]) :
              SetDictVal(o, failing.at, failing.by) \/ SetDict2(o, failing.at, failing.by)
        \/ \E src \in Objects, assigned \in BOOLEAN :
              \/ \E failing \in Failing(obj[src].d) :
                    OptCopy(o, src, assigned, {}, failing.at, failing.by)
              \/ \E fails \in (SUBSET {"s", "b"}) \ {{}} :
                    OptCopy(o, src, assigned, fails, 1, "none")
  BY Zenon DEF OptNext
<1>2. ASSUME NEW fails, NEW value \in Values \union {NoValue},
             \/ \E name \in OptionNames : Set1(o, name, value, fails)
             \/ value # NoValue /\ SetBin(o, value, fails)
             \/ SetDefaults(o, value, fails)
      PROVE  OptInv'
  <2>1. value = NoValue \/ value \in Texts
    BY CallersTexts
  <2>2. CASE \E name \in OptionNames : Set1(o, name, value, fails)
    BY <2>1, <2>2, Set1Step
  <2>3. CASE value # NoValue /\ SetBin(o, value, fails)
    BY <2>1, <2>3, SetBinStep
  <2>4. CASE SetDefaults(o, value, fails)
    BY <2>1, <2>4, SetDefaultsStep
  <2> QED BY <1>2, <2>2, <2>3, <2>4
<1>3. OptFree(o) => OptInv'
  BY OptFreeStep
<1>4. ASSUME NEW at, NEW by, SetDictVal(o, at, by) \/ SetDict2(o, at, by)
      PROVE  OptInv'
  BY <1>4, SetDictValStep, SetDict2Step
<1>5. ASSUME NEW src \in Objects, NEW assigned \in BOOLEAN, NEW fails, NEW at, NEW by,
             OptCopy(o, src, assigned, fails, at, by)
      PROVE  OptInv'
  BY <1>5, OptCopyStep
<1> QED BY <1>1, <1>2, <1>3, <1>4, <1>5, Zenon

LEMMA OptStays ==
  OptInv /\ [OptNext \/ Caller \/ (DictNext /\ UNCHANGED obj)]_optVars => OptInv'
<1> SUFFICES ASSUME OptInv, [OptNext \/ Caller \/ (DictNext /\ UNCHANGED obj)]_optVars  PROVE OptInv'
  OBVIOUS
<1>1. CASE OptNext
  BY <1>1, OptNextKeeps
<1>2. CASE Caller
  BY <1>2, CallerKeeps
<1>3. CASE DictNext /\ UNCHANGED obj
  BY <1>3, DictNextKeeps
<1>4. CASE UNCHANGED optVars
  <2>1. dict' = dict /\ obj' = obj /\ heap' = heap
    BY <1>4 DEF optVars, dictVars
  <2> QED BY <2>1 DEF OptInv
<1> QED BY <1>1, <1>2, <1>3, <1>4

LEMMA WholeIsOwned == OptInv => ObjectsOwnTheirs
<1> SUFFICES ASSUME OptInv  PROVE ObjectsOwnTheirs
  OBVIOUS
<1>1. PICK own : own = Owns(dict, obj)
  OBVIOUS
<1>2. OwnedOnce(own, heap)
  BY <1>1 DEF OptInv, Whole
<1>3. own = [x \in Dicts \union Objects |-> IF x \in Dicts THEN Strings(dict[x]) ELSE Owned(obj[x])]
  BY <1>1 DEF Owns, Owners
<1>4. \A d \in Dicts : StringsDiffer(dict[d])
  BY DEF OptInv, Whole, OwnEntries
<1>5. \A o \in Objects : /\ StringsDiffer(obj[o].d)
                         /\ obj[o].s.p = obj[o].b.p => obj[o].s.p = 0
                         /\ {obj[o].s.p, obj[o].b.p} \intersect Strings(obj[o].d) = {}
  BY DEF OptInv, Whole, OwnFields, OwnEntries
<1> QED BY <1>2, <1>3, <1>4, <1>5, Zenon DEF ObjectsOwnTheirs

\* av_dict_* and av_opt_*, whatever allocation fails in whatever call and in any
\* number of dictionaries and objects: dictionaries and objects keep their types,
\* their entries and fields have strings of their own, and each string in use has
\* one owner or is lost.
THEOREM OptInductive == OptSpec => []OptInv
<1>1. OptInit => OptInv
  BY OptStarts
<1>2. OptInv /\ [OptNext \/ Caller \/ (DictNext /\ UNCHANGED obj)]_optVars => OptInv'
  BY OptStays
<1> QED BY <1>1, <1>2, PTL DEF OptSpec

\* No call frees a string twice or leaves one in two places.
THEOREM StringsStayOwned == OptSpec => []ObjectsOwnTheirs
<1>1. OptInv => ObjectsOwnTheirs
  BY WholeIsOwned
<1> QED BY <1>1, OptInductive, PTL
====
