--------------------------- MODULE HwContext_proofs ---------------------------
(***************************************************************************)
(* The invariants of HwContext, for any sets of threads, devices, frames   *)
(* contexts, surfaces, mappings and frames.                                *)
(*                                                                         *)
(* The count of an object is the number of places that refer to it         *)
(* (Ledger): handles of the user, frames, objects that are in use, and     *)
(* unreferences that some thread still has to make.  What a free callback  *)
(* drops moves from its object to the thread's list.  What a call finds    *)
(* alive, it finds so because the thread has promised to unreference it    *)
(* later (Promises), or because what it holds refers to it.                *)
(***************************************************************************)
EXTENDS HwContext, FiniteSetTheorems, SequenceTheorems, WellFoundedInduction, TLAPS

\* How often an object is among the values of a function.
Places(g, o) == {y \in DOMAIN g : g[y] = o}
Count(g, o)  == Cardinality(Places(g, o))
Is(x, o)     == IF x = o THEN 1 ELSE 0

LEMMA CountNat ==
  ASSUME NEW g, NEW o, IsFiniteSet(Places(g, o))
  PROVE  Count(g, o) \in Nat
BY FS_CardinalityType DEF Count

\* An object that is a value is counted, and one that is counted is a value.
LEMMA Counted ==
  ASSUME NEW g, NEW o, IsFiniteSet(Places(g, o))
  PROVE  Count(g, o) > 0 <=> \E y \in DOMAIN g : g[y] = o
<1>1. Count(g, o) \in Nat
  BY CountNat
<1>2. Count(g, o) = 0 <=> Places(g, o) = {}
  BY FS_EmptySet DEF Count
<1> QED BY <1>1, <1>2 DEF Places

\* One value of a function changes.
Changes(g, h, x, v) ==
    /\ x \in DOMAIN g /\ DOMAIN h = DOMAIN g
    /\ h[x] = v /\ \A y \in DOMAIN g : y # x => h[y] = g[y]

LEMMA CountExcept ==
  ASSUME NEW g, NEW h, NEW x, NEW v, NEW o,
         Changes(g, h, x, v), IsFiniteSet(Places(g, o))
  PROVE  /\ IsFiniteSet(Places(h, o))
         /\ Count(h, o) = Count(g, o) - Is(g[x], o) + Is(v, o)
<1>1. DOMAIN h = DOMAIN g /\ h[x] = v /\ \A y \in DOMAIN g : y # x => h[y] = g[y]
  BY DEF Changes
<1>0. x \in DOMAIN g
  BY DEF Changes
<1>2. PICK P : P = Places(g, o)
  OBVIOUS
<1>3. PICK Q : Q = Places(h, o)
  OBVIOUS
<1>4. PICK R : R = P \ {x}
  OBVIOUS
<1>5. IsFiniteSet(P) /\ Cardinality(P) \in Nat
  BY <1>2, FS_CardinalityType
<1>6. x \in P <=> g[x] = o
  BY <1>0, <1>2 DEF Places
<1>7. IsFiniteSet(R) /\ Cardinality(R) = Cardinality(P) - Is(g[x], o)
  BY <1>4, <1>5, <1>6, FS_RemoveElement DEF Is
<1>8. x \notin R
  BY <1>4
<1>9. IsFiniteSet(Q) /\ Cardinality(Q) = Cardinality(R) + Is(v, o)
  <2>1. CASE v = o
    <3>1. Q = R \union {x}
      BY <1>0, <1>1, <1>2, <1>3, <1>4, <2>1 DEF Places
    <3> QED BY <3>1, <1>7, <1>8, <2>1, FS_AddElement DEF Is
  <2>2. CASE v # o
    <3>1. Q = R
      BY <1>1, <1>2, <1>3, <1>4, <2>2 DEF Places
    <3>2. Cardinality(R) \in Nat
      BY <1>7, FS_CardinalityType
    <3>3. Is(v, o) = 0
      BY <2>2 DEF Is
    <3> QED BY <3>1, <3>2, <3>3, <1>7
  <2> QED BY <2>1, <2>2
<1> QED BY <1>2, <1>3, <1>7, <1>9 DEF Count

\* What Plus adds.
LEMMA PlusNone ==
  ASSUME NEW count, NEW o \in Objects, count[o] \in Nat
  PROVE  Plus(count, <<>>)[o] = count[o]
<1>1. {i \in DOMAIN <<>> : <<>>[i] = o} = {}
  OBVIOUS
<1> QED BY <1>1, FS_EmptySet DEF Plus

\* A sequence with one more.
Extends(n, r, s, x) == /\ n \in Nat /\ DOMAIN r = 1 .. n /\ DOMAIN s = 1 .. n + 1
                       /\ s[n + 1] = x /\ \A i \in 1 .. n : s[i] = r[i]

LEMMA PlusOne ==
  ASSUME NEW count, NEW o \in Objects, NEW n, NEW r, NEW s, NEW x, Extends(n, r, s, x),
         count[o] \in Nat
  PROVE  /\ Plus(count, r)[o] \in Nat
         /\ Plus(count, s)[o] = Plus(count, r)[o] + Is(x, o)
<1>0. /\ n \in Nat /\ DOMAIN r = 1 .. n /\ DOMAIN s = 1 .. n + 1
      /\ s[n + 1] = x /\ \A i \in 1 .. n : s[i] = r[i]
  BY DEF Extends
<1> DEFINE P == {i \in DOMAIN r : r[i] = o}  Q == {i \in DOMAIN s : s[i] = o}
<1>1. P \subseteq 1 .. n /\ IsFiniteSet(1 .. n)
  BY <1>0, FS_Interval
<1>2. IsFiniteSet(P)
  BY <1>1, FS_Subset
<1>3. Cardinality(P) \in Nat /\ n + 1 \notin P
  BY <1>0, <1>2, FS_CardinalityType
<1>4. Plus(count, r)[o] = count[o] + Cardinality(P) /\ Plus(count, s)[o] = count[o] + Cardinality(Q)
  BY DEF Plus
<1>5. CASE x = o
  <2>1. Q = P \union {n + 1}
    BY <1>0, <1>5
  <2>2. Cardinality(P \union {n + 1}) = Cardinality(P) + 1
    <3> HIDE DEF P
    <3> QED BY <1>2, <1>3, FS_AddElement
  <2>3. Is(x, o) = 1
    BY <1>5 DEF Is
  <2> HIDE DEF P, Q
  <2> QED BY <1>3, <1>4, <2>1, <2>2, <2>3
<1>6. CASE x # o
  <2>1. Q = P
    BY <1>0, <1>6
  <2>2. Is(x, o) = 0
    BY <1>6 DEF Is
  <2> HIDE DEF P, Q
  <2> QED BY <1>3, <1>4, <2>1, <2>2
<1>7. Plus(count, r)[o] \in Nat
  <2> HIDE DEF P
  <2> QED BY <1>3, <1>4
<1> QED BY <1>5, <1>6, <1>7

\* A place gets a value that had none, or loses it.
LEMMA Gained ==
  ASSUME NEW g, NEW h, NEW x, g[x] = None, NEW v, Changes(g, h, x, v),
         NEW o \in Objects, IsFiniteSet(Places(g, o))
  PROVE  /\ IsFiniteSet(Places(h, o))
         /\ Count(h, o) = Count(g, o) + Is(v, o)
<1>1. /\ IsFiniteSet(Places(h, o))
      /\ Count(h, o) = Count(g, o) - Is(g[x], o) + Is(v, o)
  BY CountExcept
<1>2. Is(g[x], o) = 0
  BY HwContextAssumption DEF Is
<1>3. Count(g, o) \in Nat
  BY CountNat
<1> QED BY <1>1, <1>2, <1>3

LEMMA Lost ==
  ASSUME NEW g, NEW h, NEW x, Changes(g, h, x, None),
         NEW o \in Objects, IsFiniteSet(Places(g, o))
  PROVE  /\ IsFiniteSet(Places(h, o))
         /\ Count(h, o) = Count(g, o) - Is(g[x], o)
<1>1. /\ IsFiniteSet(Places(h, o))
      /\ Count(h, o) = Count(g, o) - Is(g[x], o) + Is(None, o)
  BY CountExcept
<1>2. Is(None, o) = 0
  BY HwContextAssumption DEF Is
<1>3. Count(g, o) \in Nat
  BY CountNat
<1>4. Is(g[x], o) \in Nat
  BY DEF Is
<1> QED BY <1>1, <1>2, <1>3, <1>4
-----------------------------------------------------------------------------
\* What the calls on the threads' lists are for: to drop a reference, or to end
\* the free callback of an object.  Places on a list are counted from its end,
\* so that they stay as calls are put before the others and taken off.
Mark(call) == IF call.what = "unref" THEN "unref"
              ELSE IF call.what \in {"free", "pool_release"} THEN "last" ELSE "other"

Back(s, i) == s[Len(s) + 1 - i]

Marks(td, w) ==
    [p \in Threads \X (Nat \ {0}) |->
        IF p[2] <= Len(td[p[1]]) /\ Mark(Back(td[p[1]], p[2])) = w
        THEN Back(td[p[1]], p[2]).obj ELSE None]

\* Only finitely many calls wait for an object.
Few(td) == \A w \in {"unref", "last"}, o \in Objects : IsFiniteSet(Places(Marks(td, w), o))

Todo == [Threads -> Seq(Calls)]

Of(call, w, o) == IF Mark(call) = w THEN Is(call.obj, o) ELSE 0

LEMMA ConsSeq ==
  ASSUME NEW call \in Calls, NEW s \in Seq(Calls), NEW n, n = <<call>> \o s
  PROVE  /\ n \in Seq(Calls) /\ Len(n) = Len(s) + 1 /\ n[1] = call
         /\ \A i \in 1 .. Len(s) : n[i + 1] = s[i]
         /\ \A i \in 2 .. Len(n) : n[i] = s[i - 1]
         /\ Back(n, Len(n)) = call
<1>1. n \in Seq(Calls) /\ Len(n) = Len(s) + 1 /\ n[1] = call
  OBVIOUS
<1>2. \A i \in 2 .. Len(n) : n[i] = s[i - 1]
  OBVIOUS
<1>3. Len(s) \in Nat
  OBVIOUS
<1>5. ASSUME NEW i \in 1 .. Len(s)  PROVE n[i + 1] = s[i]
  OBVIOUS
<1>6. Len(n) + 1 - Len(n) = 1
  BY <1>1, <1>3
<1>7. Back(n, Len(n)) = call
  BY <1>1, <1>6 DEF Back
<1> QED BY <1>1, <1>2, <1>5, <1>7

LEMMA ConsBack ==
  ASSUME NEW call \in Calls, NEW s \in Seq(Calls), NEW i \in 1 .. Len(s)
  PROVE  Back(<<call>> \o s, i) = Back(s, i)
<1>1. PICK n : n = <<call>> \o s
  OBVIOUS
<1>2. Len(n) = Len(s) + 1 /\ Len(s) \in Nat
  BY <1>1
<1>3. \A j \in 2 .. Len(n) : n[j] = s[j - 1]
  BY <1>1
<1>4. Len(n) + 1 - i \in 2 .. Len(n) /\ Len(n) + 1 - i - 1 = Len(s) + 1 - i
  BY <1>2
<1>5. n[Len(n) + 1 - i] = s[Len(n) + 1 - i - 1]
  BY <1>3, <1>4
<1> QED BY <1>1, <1>4, <1>5 DEF Back

LEMMA TailSeq ==
  ASSUME NEW s \in Seq(Calls), s # <<>>, NEW n, n = Tail(s)
  PROVE  /\ n \in Seq(Calls) /\ Len(s) = Len(n) + 1 /\ Head(s) \in Calls
         /\ s = <<Head(s)>> \o n
OBVIOUS

\* A call is put before the others.
LEMMA MarksCons ==
  ASSUME NEW td \in Todo, NEW t \in Threads, NEW call \in Calls, NEW tn \in Todo,
         Changes(td, tn, t, <<call>> \o td[t]), NEW w
  PROVE  LET x == <<t, Len(td[t]) + 1>> IN
         /\ Marks(td, w)[x] = None
         /\ Changes(Marks(td, w), Marks(tn, w), x, IF Mark(call) = w THEN call.obj ELSE None)
<1> DEFINE x == <<t, Len(td[t]) + 1>>
<1>1. td[t] \in Seq(Calls) /\ Len(td[t]) \in Nat
  BY DEF Todo
<1>2. tn[t] = <<call>> \o td[t] /\ \A u \in Threads \ {t} : tn[u] = td[u]
  BY DEF Todo, Changes
<1>3. /\ Len(tn[t]) = Len(td[t]) + 1
      /\ \A i \in 1 .. Len(td[t]) : Back(tn[t], i) = Back(td[t], i)
      /\ Back(tn[t], Len(tn[t])) = call
  <2>1. PICK s \in Seq(Calls) : s = td[t]
    BY <1>1
  <2>2. PICK n : n = tn[t]
    OBVIOUS
  <2>3. n = <<call>> \o s
    BY <1>2, <2>1, <2>2
  <2>4. Len(n) = Len(s) + 1
    BY <2>3, ConsSeq
  <2>5. \A i \in 1 .. Len(s) : Back(n, i) = Back(s, i)
    BY <2>3, ConsBack
  <2>6. Back(n, Len(n)) = call
    BY <2>3, ConsSeq
  <2> QED BY <2>1, <2>2, <2>4, <2>5, <2>6
<1>4. x \in Threads \X (Nat \ {0})
  BY <1>1
<1>5. Marks(td, w)[x] = None
  BY <1>1, <1>4 DEF Marks
<1>6. Marks(tn, w)[x] = IF Mark(call) = w THEN call.obj ELSE None
  BY <1>1, <1>3, <1>4 DEF Marks
<1>7. ASSUME NEW y \in Threads \X (Nat \ {0}), y # x
      PROVE  Marks(tn, w)[y] = Marks(td, w)[y]
  <2>1. PICK u \in Threads, i \in Nat \ {0} : y = <<u, i>>
    OBVIOUS
  <2>2. CASE u # t
    BY <1>2, <2>1, <2>2 DEF Marks
  <2>3. CASE u = t
    <3>1. i # Len(td[t]) + 1
      BY <1>7, <2>1, <2>3
    <3>2. CASE i <= Len(td[t])
      <4>1. i \in 1 .. Len(td[t]) /\ i <= Len(tn[t])
        BY <1>1, <1>3, <3>2
      <4> QED BY <1>3, <2>1, <2>3, <3>2, <4>1 DEF Marks
    <3>3. CASE ~(i <= Len(td[t]))
      <4>1. ~(i <= Len(tn[t]))
        BY <1>1, <1>3, <3>1, <3>3
      <4> QED BY <2>1, <2>3, <3>3, <4>1 DEF Marks
    <3> QED BY <3>2, <3>3
  <2> QED BY <2>2, <2>3
<1>8. DOMAIN Marks(td, w) = Threads \X (Nat \ {0}) /\ DOMAIN Marks(tn, w) = Threads \X (Nat \ {0})
  BY DEF Marks
<1> QED BY <1>4, <1>5, <1>6, <1>7, <1>8 DEF Changes

LEMMA Consed ==
  ASSUME NEW td \in Todo, Few(td), NEW t \in Threads, NEW call \in Calls, NEW tn \in Todo,
         Changes(td, tn, t, <<call>> \o td[t])
  PROVE  /\ Few(tn) /\ tn[t] = <<call>> \o td[t]
         /\ \A w \in {"unref", "last"}, o \in Objects :
               Count(Marks(tn, w), o) = Count(Marks(td, w), o) + Of(call, w, o)
<1>1. tn[t] = <<call>> \o td[t]
  BY DEF Changes
<1>2. ASSUME NEW w \in {"unref", "last"}, NEW o \in Objects
      PROVE  /\ IsFiniteSet(Places(Marks(tn, w), o))
             /\ Count(Marks(tn, w), o) = Count(Marks(td, w), o) + Of(call, w, o)
  <2>1. PICK x : x = <<t, Len(td[t]) + 1>>
    OBVIOUS
  <2>2. PICK v : v = IF Mark(call) = w THEN call.obj ELSE None
    OBVIOUS
  <2>3. Marks(td, w)[x] = None /\ Changes(Marks(td, w), Marks(tn, w), x, v)
    BY <2>1, <2>2, MarksCons
  <2>4. IsFiniteSet(Places(Marks(td, w), o))
    BY DEF Few
  <2>5. /\ IsFiniteSet(Places(Marks(tn, w), o))
        /\ Count(Marks(tn, w), o) = Count(Marks(td, w), o) + Is(v, o)
    BY <2>3, <2>4, Gained
  <2>6. Is(v, o) = Of(call, w, o)
    BY <2>2, HwContextAssumption DEF Is, Of
  <2> QED BY <2>5, <2>6
<1> QED BY <1>1, <1>2 DEF Few

\* The first call is taken off.
LEMMA Popped ==
  ASSUME NEW td \in Todo, Few(td), NEW t \in Threads, td[t] # <<>>, NEW tn \in Todo,
         Changes(td, tn, t, Tail(td[t]))
  PROVE  /\ Few(tn) /\ tn[t] = Tail(td[t])
         /\ \A w \in {"unref", "last"}, o \in Objects :
               Count(Marks(tn, w), o) = Count(Marks(td, w), o) - Of(Head(td[t]), w, o)
<1>1. PICK call : call = Head(td[t])
  OBVIOUS
<1>2. td[t] \in Seq(Calls)
  BY DEF Todo
<1>3. tn[t] = Tail(td[t]) /\ call \in Calls /\ td[t] = <<call>> \o tn[t]
  BY <1>1, <1>2, TailSeq DEF Changes
<1>4. Changes(tn, td, t, <<call>> \o tn[t])
  BY <1>3 DEF Changes
<1>5. ASSUME NEW w \in {"unref", "last"}, NEW o \in Objects
      PROVE  /\ IsFiniteSet(Places(Marks(tn, w), o))
             /\ Count(Marks(tn, w), o) = Count(Marks(td, w), o) - Of(call, w, o)
  <2>1. PICK x : x = <<t, Len(tn[t]) + 1>>
    OBVIOUS
  <2>2. PICK v : v = IF Mark(call) = w THEN call.obj ELSE None
    OBVIOUS
  <2>3. Marks(tn, w)[x] = None /\ Changes(Marks(tn, w), Marks(td, w), x, v)
    BY <1>3, <1>4, <2>1, <2>2, MarksCons
  <2>4. IsFiniteSet(Places(Marks(td, w), o))
    BY DEF Few
  <2>5. Changes(Marks(td, w), Marks(tn, w), x, None) /\ Marks(td, w)[x] = v
    BY <2>3 DEF Changes
  <2>6. /\ IsFiniteSet(Places(Marks(tn, w), o))
        /\ Count(Marks(tn, w), o) = Count(Marks(td, w), o) - Is(v, o)
    BY <2>4, <2>5, Lost
  <2>7. Is(v, o) = Of(call, w, o)
    BY <2>2, HwContextAssumption DEF Is, Of
  <2> QED BY <2>6, <2>7
<1> QED BY <1>1, <1>3, <1>5 DEF Few

\* A reference is dropped, if there is one.
LEMMA Dropped ==
  ASSUME NEW td \in Todo, Few(td), NEW t \in Threads, NEW x \in Objects \union {None}, NEW tn \in Todo,
         Changes(td, tn, t, Drop(x) \o td[t])
  PROVE  /\ Few(tn) /\ tn[t] = Drop(x) \o td[t]
         /\ \A o \in Objects : Count(Marks(tn, "unref"), o) = Count(Marks(td, "unref"), o) + Is(x, o)
         /\ \A o \in Objects : Count(Marks(tn, "last"), o) = Count(Marks(td, "last"), o)
<1>1. ASSUME NEW o \in Objects, NEW w \in {"unref", "last"}  PROVE Count(Marks(td, w), o) \in Nat
  BY CountNat DEF Few
<1>2. CASE x = None
  <2>1. tn = td
    <3>1. td[t] \in Seq(Calls)
      BY DEF Todo
    <3>2. Drop(x) \o td[t] = td[t]
      BY <1>2, <3>1 DEF Drop
    <3> QED BY <3>2 DEF Todo, Changes
  <2>2. \A o \in Objects : Is(x, o) = 0
    BY <1>2, HwContextAssumption DEF Is
  <2>3. tn[t] = Drop(x) \o td[t]
    BY DEF Changes
  <2>4. ASSUME NEW o \in Objects
        PROVE  /\ Count(Marks(tn, "unref"), o) = Count(Marks(td, "unref"), o) + Is(x, o)
               /\ Count(Marks(tn, "last"), o) = Count(Marks(td, "last"), o)
    <3>1. Count(Marks(td, "unref"), o) \in Nat
      BY <1>1
    <3> QED BY <2>1, <2>2, <3>1
  <2> QED BY <2>1, <2>3, <2>4
<1>3. CASE x # None
  <2>1. PICK call \in Calls : call = Call("unref", x)
    BY <1>3 DEF Call, Calls
  <2>2. Changes(td, tn, t, <<call>> \o td[t]) /\ Drop(x) = <<call>>
    BY <1>3, <2>1 DEF Drop
  <2>3. \A o \in Objects : Of(call, "unref", o) = Is(x, o) /\ Of(call, "last", o) = 0
    BY <2>1 DEF Call, Of, Mark
  <2>4. /\ Few(tn) /\ tn[t] = <<call>> \o td[t]
        /\ \A w \in {"unref", "last"}, o \in Objects :
              Count(Marks(tn, w), o) = Count(Marks(td, w), o) + Of(call, w, o)
    BY <2>2, Consed
  <2>5. ASSUME NEW o \in Objects
        PROVE  /\ Count(Marks(tn, "unref"), o) = Count(Marks(td, "unref"), o) + Is(x, o)
               /\ Count(Marks(tn, "last"), o) = Count(Marks(td, "last"), o)
    <3>1. Count(Marks(td, "last"), o) \in Nat
      BY <1>1
    <3> QED BY <2>3, <2>4, <3>1
  <2> QED BY <2>2, <2>4, <2>5
<1> QED BY <1>2, <1>3

\* A call on a list is counted for its object, and what is counted is there.
LEMMA Waiting ==
  ASSUME NEW td \in Todo, Few(td), NEW w \in {"unref", "last"}, NEW o \in Objects
  PROVE  Count(Marks(td, w), o) > 0 <=>
            \E t \in Threads : \E i \in DOMAIN td[t] : Mark(td[t][i]) = w /\ td[t][i].obj = o
<1>1. IsFiniteSet(Places(Marks(td, w), o))
  BY DEF Few
<1>2. Count(Marks(td, w), o) > 0 <=> \E y \in DOMAIN Marks(td, w) : Marks(td, w)[y] = o
  BY <1>1, Counted
<1>3. DOMAIN Marks(td, w) = Threads \X (Nat \ {0})
  BY DEF Marks
<1>4. ASSUME NEW y \in Threads \X (Nat \ {0}), Marks(td, w)[y] = o
      PROVE  \E t \in Threads : \E i \in DOMAIN td[t] : Mark(td[t][i]) = w /\ td[t][i].obj = o
  <2>1. PICK t \in Threads, i \in Nat \ {0} : y = <<t, i>>
    OBVIOUS
  <2>2. o # None
    BY HwContextAssumption
  <2>3. i <= Len(td[t]) /\ Mark(Back(td[t], i)) = w /\ Back(td[t], i).obj = o
    BY <1>4, <2>1, <2>2 DEF Marks
  <2>4. Len(td[t]) + 1 - i \in DOMAIN td[t]
    BY <2>3 DEF Todo
  <2> QED BY <2>3, <2>4 DEF Back
<1>5. ASSUME NEW t \in Threads, NEW i \in DOMAIN td[t], Mark(td[t][i]) = w, td[t][i].obj = o
      PROVE  \E y \in Threads \X (Nat \ {0}) : Marks(td, w)[y] = o
  <2>1. PICK n \in Nat : n = Len(td[t]) /\ DOMAIN td[t] = 1 .. n
    BY DEF Todo
  <2>2. PICK j \in Nat \ {0} : j = n + 1 - i /\ j <= n /\ n + 1 - j = i
    BY <2>1
  <2>3. Back(td[t], j) = td[t][i]
    BY <2>1, <2>2 DEF Back
  <2>4. Marks(td, w)[<<t, j>>] = o
    BY <1>5, <2>1, <2>2, <2>3 DEF Marks
  <2> QED BY <2>4
<1> QED BY <1>2, <1>3, <1>4, <1>5
-----------------------------------------------------------------------------
\* The references that objects in use have, the frames' and the user's.
InUseOr(o, x, none) == IF life[o] = "live" THEN x ELSE none

srcs  == [x \in Devices \union Contexts |-> InUseOr(x, source[x], None)]
pars  == [x \in Contexts \union Maps |-> InUseOr(x, parent[x], None)]
mbufs == [m \in Maps |-> InUseOr(m, mapsrc[m].buf, None)]
mctxs == [m \in Maps |-> InUseOr(m, mapsrc[m].ctx, None)]
bufs  == [f \in Frames |-> frame[f].buf]
ctxs  == [f \in Frames |-> frame[f].ctx]
HeldOf(o) == IF o \in Devices \union Contexts THEN held[o] ELSE 0

\* All references to an object.
RefsTo(o) == HeldOf(o) + Count(bufs, o) + Count(ctxs, o) + Count(srcs, o) + Count(pars, o)
                + Count(mbufs, o) + Count(mctxs, o) + Count(Marks(todo, "unref"), o)

\* Types, with what the model's variables never are.
Types ==
    /\ life \in [Objects -> Lives]
    /\ rc \in [Objects -> Nat]
    /\ parent \in [Objects -> Devices \union Contexts \union {None}]
    /\ source \in [Devices \union Contexts -> Devices \union Contexts \union {None}]
    /\ stage \in [Contexts -> {"new", "ready", "failed"}]
    /\ pool \in [Contexts -> {"none", "open"}]
    /\ mapsrc \in [Maps -> Frame]
    /\ frame \in [Frames -> Frame]
    /\ held \in [Devices \union Contexts -> 0 .. MaxHandles]
    /\ todo \in Todo /\ Few(todo)

\* The counts are exact, and say what is in use.
Ledger == \A o \in Objects : rc[o] = RefsTo(o)
Lived  == \A o \in Objects : /\ life[o] = "live" <=> rc[o] > 0
                             /\ life[o] = "idle" => o \in Surfaces

\* What the fields of an object may be.
Fields ==
    /\ \A d \in Devices : source[d] \in Devices \union {None}
    /\ \A c \in Contexts : source[c] \in Contexts \union {None}
    /\ \A c \in Contexts : life[c] # "none" => parent[c] \in Devices
    /\ \A m \in Maps : life[m] # "none" => parent[m] \in Contexts
    /\ \A s \in Surfaces : life[s] # "none" => parent[s] \in Contexts /\ pool[parent[s]] = "open"
    /\ \A o \in Objects : life[o] = "none" =>
          /\ parent[o] = None
          /\ o \in Devices \union Contexts => source[o] = None
          /\ o \in Contexts => stage[o] = "new" /\ pool[o] = "none"
          /\ o \in Maps => mapsrc[o] = Empty

\* Whatever refers to a surface refers to its frames context, too.
Paired(fr) == fr.buf \in Surfaces => fr.ctx = parent[fr.buf]
Companions == /\ \A f \in Frames : Paired(frame[f])
              /\ \A m \in Maps : life[m] = "live" => Paired(mapsrc[m])

\* A context that frames can be got from has a pool, until its free callback
\* has uninited it.
Among(call, s) == \E i \in DOMAIN s : s[i] = call
Pools ==
    \A c \in Contexts :
        /\ life[c] = "live" /\ stage[c] = "ready" /\ source[c] = None => pool[c] = "open"
        /\ life[c] = "live" /\ source[c] # None => stage[source[c]] = "ready"
        /\ pool[c] = "open" /\ life[c] # "live" =>
              \E t \in Threads : Among(Call("frames_uninit", c), todo[t])

\* What a thread does after a call, which is why that call finds what it needs.
Later(par, src, call) ==
    (IF \/ call.what \in {"pool_release", "unmap", "frames_uninit"}
        \/ call.what = "unref" /\ call.obj \in Surfaces
     THEN {par[call.obj]} ELSE {})
    \union (IF call.what \in {"frames_uninit", "device_uninit"} THEN {src[call.obj]} ELSE {})

Promised(par, src, call) ==
    {Call("unref", x) : x \in Later(par, src, call) \ {None}}
       \union (IF call.what \in {"unmap", "frames_uninit", "device_uninit"}
               THEN {Call("free", call.obj)} ELSE {})

Kept(par, src, s) ==
    \A i \in DOMAIN s : \A p \in Promised(par, src, s[i]) : \E j \in i + 1 .. Len(s) : s[j] = p
Promises == \A t \in Threads : Kept(parent, source, todo[t])

\* The calls of free callbacks are for objects that die, and each of these has one
\* last call.
Right(lives, call) ==
    /\ call.what # "unref" => lives[call.obj] = "dying"
    /\ call.what = "device_uninit" => call.obj \in Devices
    /\ call.what = "frames_uninit" => call.obj \in Contexts
    /\ call.what = "unmap" => call.obj \in Maps
    /\ call.what = "pool_release" <=> call.what \in {"pool_release", "free"} /\ call.obj \in Surfaces
Deaths ==
    /\ \A t \in Threads : \A i \in DOMAIN todo[t] : Right(life, todo[t][i])
    /\ \A o \in Objects : Count(Marks(todo, "last"), o) = IF life[o] = "dying" THEN 1 ELSE 0

\* References among objects go from younger ones to older ones.
Refers(x, y) == \/ x \in Devices \union Contexts /\ srcs[x] = y
                \/ x \in Contexts \union Maps /\ pars[x] = y
                \/ x \in Maps /\ (mbufs[x] = y \/ mctxs[x] = y)
Ranked == \E n \in Nat : \E rank \in [Objects -> 0 .. n] :
             \A x, y \in Objects : Refers(x, y) => rank[y] < rank[x]

IInv == Types /\ Ledger /\ Lived /\ Fields /\ Companions /\ Pools /\ Promises /\ Deaths /\ Ranked

-----------------------------------------------------------------------------
\* All these are finite, and what is referred to is in use.
LEMMA FiniteParts ==
  ASSUME NEW o
  PROVE  /\ IsFiniteSet(Places(bufs, o)) /\ IsFiniteSet(Places(ctxs, o))
         /\ IsFiniteSet(Places(srcs, o)) /\ IsFiniteSet(Places(pars, o))
         /\ IsFiniteSet(Places(mbufs, o)) /\ IsFiniteSet(Places(mctxs, o))
<1>1. ASSUME NEW g, IsFiniteSet(DOMAIN g)  PROVE IsFiniteSet(Places(g, o))
  BY <1>1, FS_Subset DEF Places
<1>2. /\ IsFiniteSet(Frames) /\ IsFiniteSet(Devices \union Contexts)
      /\ IsFiniteSet(Maps) /\ IsFiniteSet(Contexts \union Maps)
  <2>1. IsFiniteSet(Contexts)
    BY HwContextAssumption, FS_Subset
  <2> QED BY <2>1, HwContextAssumption, FS_Union
<1>3. /\ DOMAIN bufs = Frames /\ DOMAIN ctxs = Frames
      /\ DOMAIN srcs = Devices \union Contexts /\ DOMAIN pars = Contexts \union Maps
      /\ DOMAIN mbufs = Maps /\ DOMAIN mctxs = Maps
  BY DEF bufs, ctxs, srcs, pars, mbufs, mctxs
<1> QED BY <1>1, <1>2, <1>3

LEMMA NatParts ==
  ASSUME Types, NEW o \in Objects
  PROVE  /\ HeldOf(o) \in Nat /\ Count(bufs, o) \in Nat /\ Count(ctxs, o) \in Nat
         /\ Count(srcs, o) \in Nat /\ Count(pars, o) \in Nat
         /\ Count(mbufs, o) \in Nat /\ Count(mctxs, o) \in Nat
         /\ Count(Marks(todo, "unref"), o) \in Nat
<1>1. HeldOf(o) \in Nat
  BY HwContextAssumption DEF Types, HeldOf
<1>2. IsFiniteSet(Places(Marks(todo, "unref"), o))
  BY DEF Types, Few
<1> QED BY <1>1, <1>2, FiniteParts, CountNat

LEMMA Referenced ==
  ASSUME Types, Ledger, Lived, NEW o \in Objects
  PROVE  /\ HeldOf(o) > 0 => life[o] = "live"
         /\ Count(bufs, o) > 0 => life[o] = "live"
         /\ Count(ctxs, o) > 0 => life[o] = "live"
         /\ Count(srcs, o) > 0 => life[o] = "live"
         /\ Count(pars, o) > 0 => life[o] = "live"
         /\ Count(mbufs, o) > 0 => life[o] = "live"
         /\ Count(mctxs, o) > 0 => life[o] = "live"
         /\ Count(Marks(todo, "unref"), o) > 0 => life[o] = "live"
<1>1. rc[o] = RefsTo(o) /\ (life[o] = "live" <=> rc[o] > 0)
  BY DEF Ledger, Lived
<1> QED BY <1>1, NatParts DEF RefsTo

\* What refers to an object finds it in use.
Alive ==
    /\ \A o \in Devices \union Contexts : held[o] > 0 => life[o] = "live"
    /\ \A f \in Frames : /\ frame[f].buf # None => life[frame[f].buf] = "live"
                         /\ frame[f].ctx # None => life[frame[f].ctx] = "live"
    /\ \A x \in Devices \union Contexts :
          life[x] = "live" /\ source[x] # None => life[source[x]] = "live"
    /\ \A x \in Contexts \union Maps : life[x] = "live" => life[parent[x]] = "live"
    /\ \A m \in Maps : life[m] = "live" =>
          /\ mapsrc[m].buf # None => life[mapsrc[m].buf] = "live"
          /\ mapsrc[m].ctx # None => life[mapsrc[m].ctx] = "live"
    /\ \A t \in Threads : \A i \in DOMAIN todo[t] :
          todo[t][i].what = "unref" => life[todo[t][i].obj] = "live"

LEMMA ObjectTypes ==
  ASSUME Types, Fields
  PROVE  /\ \A o \in Devices \union Contexts : o \in Objects /\ source[o] \in Objects \union {None}
         /\ \A o \in Contexts \union Maps : o \in Objects /\ (life[o] # "none" => parent[o] \in Objects)
         /\ \A f \in Frames : frame[f].buf \in Objects \union {None}
                              /\ frame[f].ctx \in Objects \union {None}
         /\ \A m \in Maps : mapsrc[m].buf \in Objects \union {None}
                              /\ mapsrc[m].ctx \in Objects \union {None}
BY DEF Types, Fields, Frame, Objects

LEMMA AllAlive ==
  ASSUME Types, Ledger, Lived, Fields
  PROVE  Alive
<1>1. ASSUME NEW g, NEW x \in DOMAIN g, g[x] \in Objects, IsFiniteSet(Places(g, g[x]))
      PROVE  Count(g, g[x]) > 0
  BY <1>1, Counted
<1>2. ASSUME NEW o \in Devices \union Contexts, held[o] > 0  PROVE life[o] = "live"
  BY <1>2, Referenced DEF HeldOf, Objects
<1>3. ASSUME NEW f \in Frames
      PROVE  /\ frame[f].buf # None => life[frame[f].buf] = "live"
             /\ frame[f].ctx # None => life[frame[f].ctx] = "live"
  <2>1. bufs[f] = frame[f].buf /\ f \in DOMAIN bufs /\ ctxs[f] = frame[f].ctx /\ f \in DOMAIN ctxs
    BY DEF bufs, ctxs
  <2>2. frame[f].buf \in Objects \union {None} /\ frame[f].ctx \in Objects \union {None}
    BY ObjectTypes
  <2>3. frame[f].buf # None => Count(bufs, frame[f].buf) > 0
    BY <1>1, <2>1, <2>2, FiniteParts
  <2>4. frame[f].ctx # None => Count(ctxs, frame[f].ctx) > 0
    BY <1>1, <2>1, <2>2, FiniteParts
  <2> QED BY <2>2, <2>3, <2>4, Referenced
<1>4. ASSUME NEW x \in Devices \union Contexts, life[x] = "live", source[x] # None
      PROVE  life[source[x]] = "live"
  <2>1. srcs[x] = source[x] /\ x \in DOMAIN srcs
    BY <1>4 DEF srcs, InUseOr
  <2>2. source[x] \in Objects
    BY <1>4, ObjectTypes
  <2>3. Count(srcs, source[x]) > 0
    BY <1>1, <2>1, <2>2, FiniteParts
  <2> QED BY <2>2, <2>3, Referenced
<1>5. ASSUME NEW x \in Contexts \union Maps, life[x] = "live"  PROVE life[parent[x]] = "live"
  <2>1. pars[x] = parent[x] /\ x \in DOMAIN pars
    BY <1>5 DEF pars, InUseOr
  <2>2. parent[x] \in Objects
    BY <1>5, ObjectTypes
  <2>3. Count(pars, parent[x]) > 0
    BY <1>1, <2>1, <2>2, FiniteParts
  <2> QED BY <2>2, <2>3, Referenced
<1>6. ASSUME NEW m \in Maps, life[m] = "live"
      PROVE  /\ mapsrc[m].buf # None => life[mapsrc[m].buf] = "live"
             /\ mapsrc[m].ctx # None => life[mapsrc[m].ctx] = "live"
  <2>1. mbufs[m] = mapsrc[m].buf /\ m \in DOMAIN mbufs /\ mctxs[m] = mapsrc[m].ctx /\ m \in DOMAIN mctxs
    BY <1>6 DEF mbufs, mctxs, InUseOr
  <2>2. mapsrc[m].buf \in Objects \union {None} /\ mapsrc[m].ctx \in Objects \union {None}
    BY ObjectTypes
  <2>3. mapsrc[m].buf # None => Count(mbufs, mapsrc[m].buf) > 0
    BY <1>1, <2>1, <2>2, FiniteParts
  <2>4. mapsrc[m].ctx # None => Count(mctxs, mapsrc[m].ctx) > 0
    BY <1>1, <2>1, <2>2, FiniteParts
  <2> QED BY <2>2, <2>3, <2>4, Referenced
<1>7. ASSUME NEW t \in Threads, NEW i \in DOMAIN todo[t], todo[t][i].what = "unref"
      PROVE  life[todo[t][i].obj] = "live"
  <2>1. todo[t][i] \in Calls
    BY DEF Types, Todo
  <2>2. PICK o \in Objects : o = todo[t][i].obj
    BY <2>1 DEF Calls
  <2>3. Mark(todo[t][i]) = "unref"
    BY <1>7 DEF Mark
  <2>4. Count(Marks(todo, "unref"), o) > 0
    BY <2>2, <2>3, Waiting DEF Types
  <2> QED BY <2>2, <2>4, Referenced
<1> QED BY <1>2, <1>3, <1>4, <1>5, <1>6, <1>7 DEF Alive

-----------------------------------------------------------------------------
\* Promises are about the calls that follow: one may be added before the others
\* if they fulfil its own, and the first one may be taken off.
LEMMA KeptCons ==
  ASSUME NEW par, NEW src, NEW s \in Seq(Calls), NEW call \in Calls, Kept(par, src, s),
         \A p \in Promised(par, src, call) : Among(p, s)
  PROVE  Kept(par, src, <<call>> \o s)
<1>1. PICK n : n = <<call>> \o s
  OBVIOUS
<1>2. /\ n \in Seq(Calls) /\ Len(n) = Len(s) + 1 /\ n[1] = call /\ Len(s) \in Nat
      /\ \A i \in 1 .. Len(s) : n[i + 1] = s[i]
      /\ \A i \in 2 .. Len(n) : n[i] = s[i - 1]
  BY <1>1
<1>3. ASSUME NEW i \in DOMAIN n, NEW p \in Promised(par, src, n[i])
      PROVE  \E j \in i + 1 .. Len(n) : n[j] = p
  <2>1. i \in 1 .. Len(n)
    BY <1>2
  <2>2. CASE i = 1
    <3>1. PICK j \in 1 .. Len(s) : s[j] = p
      BY <1>2, <1>3, <2>2 DEF Among
    <3>2. j + 1 \in i + 1 .. Len(n) /\ n[j + 1] = p
      BY <1>2, <2>2, <3>1
    <3> QED BY <3>2
  <2>3. CASE i # 1
    <3>1. i - 1 \in 1 .. Len(s) /\ n[i] = s[i - 1] /\ i - 1 + 1 = i
      BY <1>2, <2>1, <2>3
    <3>2. p \in Promised(par, src, s[i - 1])
      BY <1>3, <3>1
    <3>3. PICK j \in (i - 1) + 1 .. Len(s) : s[j] = p
      BY <3>1, <3>2 DEF Kept
    <3>4. j + 1 \in i + 1 .. Len(n) /\ n[j + 1] = p
      BY <1>2, <2>1, <3>1, <3>3
    <3> QED BY <3>4
  <2> QED BY <2>2, <2>3
<1>4. Kept(par, src, n)
  BY <1>3 DEF Kept
<1> QED BY <1>1, <1>4

LEMMA KeptTail ==
  ASSUME NEW par, NEW src, NEW s \in Seq(Calls), s # <<>>, Kept(par, src, s)
  PROVE  /\ Kept(par, src, Tail(s))
         /\ \A p \in Promised(par, src, Head(s)) : Among(p, Tail(s))
<1>1. PICK n : n = Tail(s)
  OBVIOUS
<1>0. n \in Seq(Calls)
  BY <1>1, TailSeq
<1>2. /\ Len(s) = Len(n) + 1 /\ Len(n) \in Nat /\ s[1] = Head(s)
      /\ DOMAIN n = 1 .. Len(n)
      /\ \A i \in 1 .. Len(n) : n[i] = s[i + 1]
  BY <1>0, <1>1
<1>3. ASSUME NEW i \in 0 .. Len(n), NEW p \in Promised(par, src, s[i + 1])
      PROVE  \E j \in i + 1 .. Len(n) : n[j] = p
  <2>1. i + 1 \in DOMAIN s
    BY <1>2
  <2>2. PICK j \in (i + 1) + 1 .. Len(s) : s[j] = p
    BY <1>3, <2>1 DEF Kept
  <2>3. j - 1 \in i + 1 .. Len(n) /\ j - 1 \in 1 .. Len(n) /\ j - 1 + 1 = j
    BY <1>2, <2>2
  <2>4. n[j - 1] = p
    BY <1>2, <2>2, <2>3
  <2> QED BY <2>3, <2>4
<1>4. Kept(par, src, n)
  <2> SUFFICES ASSUME NEW i \in 1 .. Len(n), NEW p \in Promised(par, src, n[i])
               PROVE  \E j \in i + 1 .. Len(n) : n[j] = p
    BY <1>2 DEF Kept
  <2>1. i \in 0 .. Len(n) /\ p \in Promised(par, src, s[i + 1])
    BY <1>2
  <2> QED BY <2>1, <1>3
<1>5. ASSUME NEW p \in Promised(par, src, Head(s))  PROVE Among(p, n)
  <2>1. 0 \in 0 .. Len(n) /\ 0 + 1 = 1
    BY <1>2
  <2>2. \E j \in 0 + 1 .. Len(n) : n[j] = p
    BY <1>2, <1>3, <1>5, <2>1
  <2>3. PICK j \in 0 + 1 .. Len(n) : n[j] = p
    BY <2>2
  <2>4. j \in DOMAIN n
    BY <1>2, <2>1
  <2> QED BY <2>3, <2>4 DEF Among
<1> QED BY <1>1, <1>4, <1>5

\* What is on a list stays there when a call is put before.
LEMMA AmongCons ==
  ASSUME NEW s \in Seq(Calls), NEW call \in Calls, NEW p
  PROVE  Among(p, <<call>> \o s) <=> p = call \/ Among(p, s)
<1>1. PICK n : n = <<call>> \o s
  OBVIOUS
<1>2. /\ DOMAIN n = 1 .. Len(n) /\ DOMAIN s = 1 .. Len(s)
      /\ Len(n) = Len(s) + 1 /\ n[1] = call /\ Len(s) \in Nat
      /\ \A i \in 1 .. Len(s) : n[i + 1] = s[i]
      /\ \A i \in 2 .. Len(n) : n[i] = s[i - 1]
  BY <1>1
<1>3. ASSUME Among(p, n)  PROVE p = call \/ Among(p, s)
  <2>1. PICK i \in 1 .. Len(n) : n[i] = p
    BY <1>2, <1>3 DEF Among
  <2>2. CASE i = 1
    BY <1>2, <2>1, <2>2
  <2>3. CASE i # 1
    <3>1. i - 1 \in 1 .. Len(s) /\ s[i - 1] = p
      BY <1>2, <2>1, <2>3
    <3> QED BY <1>2, <3>1 DEF Among
  <2> QED BY <2>2, <2>3
<1>4. ASSUME Among(p, s)  PROVE Among(p, n)
  <2>1. PICK i \in 1 .. Len(s) : s[i] = p
    BY <1>2, <1>4 DEF Among
  <2>2. i + 1 \in 1 .. Len(n) /\ n[i + 1] = p
    BY <1>2, <2>1
  <2> QED BY <1>2, <2>2 DEF Among
<1>5. p = call => Among(p, n)
  BY <1>2 DEF Among
<1> QED BY <1>1, <1>3, <1>4, <1>5

\* The same for a reference that is dropped if there is one.
LEMMA KeptDrop ==
  ASSUME NEW par, NEW src, NEW s \in Seq(Calls), NEW x \in Objects \union {None}, Kept(par, src, s),
         x \in Surfaces /\ par[x] # None => Among(Call("unref", par[x]), s)
  PROVE  /\ Drop(x) \o s \in Seq(Calls) /\ Kept(par, src, Drop(x) \o s)
         /\ \A p : Among(p, Drop(x) \o s) <=> Among(p, s) \/ (x # None /\ p = Call("unref", x))
<1>1. CASE x = None
  <2>1. Drop(x) \o s = s
    BY <1>1 DEF Drop
  <2> QED BY <1>1, <2>1
<1>2. CASE x # None
  <2>0. Call("unref", x) \in Calls
    BY <1>2 DEF Call, Calls
  <2>1. PICK call \in Calls : call = Call("unref", x) /\ call.what = "unref" /\ call.obj = x
    BY <2>0 DEF Call
  <2>2. Drop(x) = <<call>>
    BY <1>2, <2>1 DEF Drop
  <2>3. Later(par, src, call) = IF x \in Surfaces THEN {par[x]} ELSE {}
    BY <2>1 DEF Later
  <2>4. \A p \in Promised(par, src, call) : Among(p, s)
    BY <2>1, <2>3 DEF Promised
  <2>5. Kept(par, src, <<call>> \o s)
    BY <2>4, KeptCons
  <2>6. <<call>> \o s \in Seq(Calls)
    OBVIOUS
  <2>7. ASSUME NEW p  PROVE Among(p, <<call>> \o s) <=> Among(p, s) \/ p = call
    BY AmongCons
  <2> QED BY <1>2, <2>1, <2>2, <2>5, <2>6, <2>7
<1> QED BY <1>1, <1>2

\* Promises depend on the fields of the objects that are called about.
LEMMA KeptSame ==
  ASSUME NEW par, NEW src, NEW par2, NEW src2, NEW s \in Seq(Calls), Kept(par, src, s),
         \A i \in DOMAIN s : Promised(par2, src2, s[i]) = Promised(par, src, s[i])
  PROVE  Kept(par2, src2, s)
BY DEF Kept

-----------------------------------------------------------------------------
\* A call of the API that leaves at most two references to drop.
Pushes(t, a, b) == /\ todo[t] = <<>>
                   /\ todo' = [todo EXCEPT ![t] = (Drop(a) \o Drop(b)) \o @]

LEMMA DropSeq ==
  ASSUME NEW x \in Objects \union {None}
  PROVE  Drop(x) \in Seq(Calls) /\ \A i \in DOMAIN Drop(x) : Drop(x)[i].what = "unref"
<1>1. CASE x = None
  BY <1>1 DEF Drop
<1>2. CASE x # None
  <2>1. PICK call : call = Call("unref", x)
    OBVIOUS
  <2>2. call \in Calls /\ call.what = "unref"
    BY <1>2, <2>1 DEF Call, Calls
  <2>3. Drop(x) = <<call>>
    BY <1>2, <2>1 DEF Drop
  <2> QED BY <2>2, <2>3
<1> QED BY <1>1, <1>2

LEMMA PushTwo ==
  ASSUME Types, NEW t \in Threads, NEW a \in Objects \union {None}, NEW b \in Objects \union {None},
         Pushes(t, a, b)
  PROVE  /\ todo' \in Todo /\ Few(todo') /\ todo'[t] = Drop(a) \o Drop(b)
         /\ \A u \in Threads \ {t} : todo'[u] = todo[u]
         /\ \A o \in Objects :
               /\ Count(Marks(todo', "unref"), o) = Count(Marks(todo, "unref"), o) + Is(a, o) + Is(b, o)
               /\ Count(Marks(todo', "last"), o) = Count(Marks(todo, "last"), o)
<1> DEFINE mid == [todo EXCEPT ![t] = Drop(b) \o todo[t]]
<1>1. todo \in Todo /\ Few(todo)
  BY DEF Types
<1>2. Drop(a) \in Seq(Calls) /\ Drop(b) \in Seq(Calls) /\ todo[t] \in Seq(Calls)
  BY <1>1, DropSeq DEF Todo
<1>3. mid \in Todo /\ Changes(todo, mid, t, Drop(b) \o todo[t])
  <2>1. Drop(b) \o todo[t] \in Seq(Calls)
    BY <1>2
  <2> QED BY <1>1, <2>1 DEF Todo, Changes
<1>4. mid[t] = Drop(b) /\ Drop(b) \o todo[t] = Drop(b)
  <2>1. todo[t] = <<>>
    BY DEF Pushes
  <2> QED BY <1>1, <1>2, <2>1 DEF Todo
<1>5. todo' = [todo EXCEPT ![t] = Drop(a) \o Drop(b)]
  <2>1. (Drop(a) \o Drop(b)) \o todo[t] = Drop(a) \o Drop(b)
    BY <1>2 DEF Pushes
  <2> QED BY <1>1, <2>1 DEF Pushes, Todo
<1>6. Drop(a) \o Drop(b) \in Seq(Calls)
  BY <1>2
<1>7. todo' \in Todo /\ todo'[t] = Drop(a) \o Drop(b) /\ \A u \in Threads \ {t} : todo'[u] = todo[u]
  BY <1>1, <1>5, <1>6 DEF Todo
<1>8. Changes(mid, todo', t, Drop(a) \o mid[t])
  BY <1>1, <1>4, <1>5 DEF Todo, Changes
<1> HIDE DEF mid
<1>9. PICK x : x = mid
  OBVIOUS
<1>10. /\ Few(x)
       /\ \A o \in Objects : Count(Marks(x, "unref"), o) = Count(Marks(todo, "unref"), o) + Is(b, o)
       /\ \A o \in Objects : Count(Marks(x, "last"), o) = Count(Marks(todo, "last"), o)
  BY <1>1, <1>3, <1>9, Dropped
<1>11. PICK y : y = todo'
  OBVIOUS
<1>12. y \in Todo /\ Changes(x, y, t, Drop(a) \o x[t]) /\ x \in Todo
  BY <1>3, <1>7, <1>8, <1>9, <1>11
<1>13. /\ Few(y)
       /\ \A o \in Objects : Count(Marks(y, "unref"), o) = Count(Marks(x, "unref"), o) + Is(a, o)
       /\ \A o \in Objects : Count(Marks(y, "last"), o) = Count(Marks(x, "last"), o)
  BY <1>10, <1>12, Dropped
<1>14. ASSUME NEW o \in Objects
       PROVE  Count(Marks(y, "unref"), o) = Count(Marks(todo, "unref"), o) + Is(a, o) + Is(b, o)
  <2>1. Count(Marks(todo, "unref"), o) \in Nat
    BY NatParts
  <2> QED BY <1>10, <1>13, <2>1 DEF Is
<1>15. \A o \in Objects : Count(Marks(y, "last"), o) = Count(Marks(todo, "last"), o)
  BY <1>10, <1>13
<1> QED BY <1>7, <1>11, <1>13, <1>14, <1>15

\* It leaves objects in use as they are, and changes nothing of those that die.
ApiStep(t) ==
    /\ \A o \in Objects : life[o] \in {"live", "dying"} =>
          /\ life'[o] = life[o] /\ parent'[o] = parent[o]
          /\ o \in Devices \union Contexts => source'[o] = source[o]
    /\ \A o \in Objects : life'[o] = "dying" => life[o] = "dying"
    /\ \A c \in Contexts : pool'[c] = "open" => pool[c] = "open" \/ life[c] = "live"
    /\ \E a, b \in Objects \union {None} :
          /\ Pushes(t, a, b)
          /\ a \in Surfaces /\ parent'[a] # None => b = parent'[a]
          /\ b \notin Surfaces

ClosingPools ==
    \A c \in Contexts : pool[c] = "open" /\ life[c] # "live" =>
        \E t \in Threads : Among(Call("frames_uninit", c), todo[t])

LEMMA ApiKeeps ==
  ASSUME IInv, NEW t \in Threads, ApiStep(t)
  PROVE  Promises' /\ Deaths' /\ ClosingPools'
<1>1. PICK a \in Objects \union {None}, b \in Objects \union {None} :
          /\ Pushes(t, a, b)
          /\ a \in Surfaces /\ parent'[a] # None => b = parent'[a]
          /\ b \notin Surfaces
  BY DEF ApiStep
<1>2. /\ todo' \in Todo /\ Few(todo') /\ todo'[t] = Drop(a) \o Drop(b)
      /\ \A u \in Threads \ {t} : todo'[u] = todo[u]
      /\ \A o \in Objects : Count(Marks(todo', "last"), o) = Count(Marks(todo, "last"), o)
  BY <1>1, PushTwo DEF IInv
<1>3. Alive
  BY AllAlive DEF IInv
<1>4. Drop(a) \in Seq(Calls) /\ Drop(b) \in Seq(Calls) /\ todo[t] = <<>>
  BY <1>1, DropSeq DEF Pushes
<1>5. Promises'
  <2>1. ASSUME NEW u \in Threads \ {t}  PROVE Kept(parent', source', todo'[u])
    <3>1. PICK s \in Seq(Calls) : s = todo[u]
      BY DEF IInv, Types, Todo
    <3>2. Kept(parent, source, s)
      BY <3>1 DEF IInv, Promises
    <3>3. ASSUME NEW i \in DOMAIN s
          PROVE  Promised(parent', source', s[i]) = Promised(parent, source, s[i])
      <4>1. PICK call \in Calls : call = s[i]
        OBVIOUS
      <4>2. PICK o \in Objects : o = call.obj
        BY <4>1 DEF Calls
      <4>3. life[o] \in {"live", "dying"}
        BY <1>3, <3>1, <4>1, <4>2 DEF Alive, IInv, Deaths, Right
      <4>4. parent'[o] = parent[o] /\ (o \in Devices \union Contexts => source'[o] = source[o])
        BY <4>3 DEF ApiStep
      <4>5. call.what \in {"frames_uninit", "device_uninit"} => o \in Devices \union Contexts
        BY <3>1, <4>1, <4>2 DEF IInv, Deaths, Right
      <4>6. Later(parent', source', call) = Later(parent, source, call)
        BY <4>2, <4>4, <4>5 DEF Later
      <4> QED BY <4>1, <4>6 DEF Promised
    <3> QED BY <1>2, <3>1, <3>2, <3>3, KeptSame
  <2>2. Kept(parent', source', todo'[t])
    <3>1. Kept(parent', source', <<>>) /\ <<>> \in Seq(Calls)
      BY DEF Kept
    <3>2. Drop(b) \o <<>> \in Seq(Calls) /\ Kept(parent', source', Drop(b) \o <<>>)
      BY <1>1, <3>1, KeptDrop
    <3>3. \A p : Among(p, Drop(b) \o <<>>) <=> Among(p, <<>>) \/ (b # None /\ p = Call("unref", b))
      BY <1>1, <3>1, KeptDrop
    <3>4. Drop(b) \o <<>> = Drop(b)
      BY <1>4
    <3>5. a \in Surfaces /\ parent'[a] # None => Among(Call("unref", parent'[a]), Drop(b))
      BY <1>1, <3>3, <3>4
    <3>6. Kept(parent', source', Drop(a) \o Drop(b))
      BY <3>2, <3>4, <3>5, KeptDrop
    <3> QED BY <1>2, <3>6
  <2> QED BY <2>1, <2>2 DEF Promises
<1>6. Deaths'
  <2>1. ASSUME NEW u \in Threads, NEW i \in DOMAIN todo'[u]  PROVE Right(life', todo'[u][i])
    <3>1. CASE u = t
      <4>1. todo'[u][i].what = "unref"
        <5>1. PICK p \in Seq(Calls), q \in Seq(Calls) : p = Drop(a) /\ q = Drop(b)
          BY <1>4
        <5>2. /\ \A j \in DOMAIN p : p[j].what = "unref"
              /\ \A j \in DOMAIN q : q[j].what = "unref"
          BY <5>1, DropSeq
        <5>3. PICK n : n = p \o q
          OBVIOUS
        <5>4. todo'[u] = n /\ i \in 1 .. Len(p) + Len(q) /\ Len(p) \in Nat /\ Len(q) \in Nat
          BY <1>2, <3>1, <5>1, <5>3
        <5>5. CASE i <= Len(p)
          BY <5>2, <5>3, <5>4, <5>5
        <5>6. CASE i > Len(p)
          <6>1. n[i] = q[i - Len(p)] /\ i - Len(p) \in DOMAIN q
            BY <5>3, <5>4, <5>6
          <6> QED BY <5>2, <5>4, <6>1
        <5> QED BY <5>4, <5>5, <5>6
      <4> QED BY <4>1 DEF Right
    <3>2. CASE u # t
      <4>1. PICK call \in Calls : call = todo[u][i] /\ call = todo'[u][i]
        BY <1>2, <3>2 DEF IInv, Types, Todo
      <4>2. Right(life, call) /\ call.obj \in Objects
        BY <1>2, <3>2, <4>1 DEF IInv, Deaths, Calls
      <4>3. life[call.obj] = "dying" => life'[call.obj] = "dying"
        BY <4>2 DEF ApiStep
      <4> QED BY <4>1, <4>2, <4>3 DEF Right
    <3> QED BY <3>1, <3>2
  <2>2. ASSUME NEW o \in Objects
        PROVE  Count(Marks(todo', "last"), o) = IF life'[o] = "dying" THEN 1 ELSE 0
    <3>1. life'[o] = "dying" <=> life[o] = "dying"
      BY DEF ApiStep
    <3> QED BY <1>2, <3>1 DEF IInv, Deaths
  <2> QED BY <2>1, <2>2 DEF Deaths
<1>7. ClosingPools'
  <2> SUFFICES ASSUME NEW c \in Contexts, pool'[c] = "open", life'[c] # "live"
               PROVE  \E u \in Threads : Among(Call("frames_uninit", c), todo'[u])
    BY DEF ClosingPools
  <2>1. c \in Objects
    BY DEF Objects
  <2>2. life[c] # "live" /\ pool[c] = "open"
    BY <2>1 DEF ApiStep
  <2>3. PICK u \in Threads : Among(Call("frames_uninit", c), todo[u])
    BY <2>2 DEF IInv, Pools
  <2>4. u # t
    BY <1>4, <2>3 DEF Among
  <2> QED BY <1>2, <2>3, <2>4
<1> QED BY <1>5, <1>6, <1>7

-----------------------------------------------------------------------------
\* Objects that are taken into use refer to older ones.
LEMMA LiveReferences ==
  ASSUME Types, Alive, NEW x \in Objects, NEW y \in Objects, Refers(x, y)
  PROVE  life[x] = "live" /\ life[y] = "live"
<1>1. y # None
  BY HwContextAssumption
<1>2. CASE x \in Devices \union Contexts /\ srcs[x] = y
  BY <1>1, <1>2 DEF srcs, InUseOr, Alive
<1>3. CASE x \in Contexts \union Maps /\ pars[x] = y
  BY <1>1, <1>3 DEF pars, InUseOr, Alive
<1>4. CASE x \in Maps /\ (mbufs[x] = y \/ mctxs[x] = y)
  BY <1>1, <1>4 DEF mbufs, mctxs, InUseOr, Alive
<1> QED BY <1>2, <1>3, <1>4 DEF Refers

LEMMA RankBirth ==
  ASSUME Types, Alive, Ranked, NEW B \in SUBSET Objects, \A o \in B : life[o] # "live",
         \A x, y \in Objects : Refers(x, y)' => Refers(x, y) \/ (x \in B /\ y \notin B)
  PROVE  Ranked'
<1>1. PICK n \in Nat : \E rank \in [Objects -> 0 .. n] :
         \A x, y \in Objects : Refers(x, y) => rank[y] < rank[x]
  BY DEF Ranked
<1>2. PICK rank \in [Objects -> 0 .. n] :
         \A x, y \in Objects : Refers(x, y) => rank[y] < rank[x]
  BY <1>1
<1>3. PICK new : new = [o \in Objects |-> IF o \in B THEN n + 1 ELSE rank[o]]
  OBVIOUS
<1>4. new \in [Objects -> 0 .. n + 1]
  BY <1>3
<1>5. ASSUME NEW x \in Objects, NEW y \in Objects, Refers(x, y)'  PROVE new[y] < new[x]
  <2>1. CASE Refers(x, y)
    <3>1. life[x] = "live" /\ life[y] = "live"
      BY <2>1, LiveReferences
    <3>2. new[y] = rank[y] /\ new[x] = rank[x]
      BY <1>3, <3>1
    <3> QED BY <1>2, <2>1, <3>2
  <2>2. CASE x \in B /\ y \notin B
    <3>1. new[x] = n + 1 /\ new[y] = rank[y] /\ rank[y] \in 0 .. n
      BY <1>3, <2>2
    <3> QED BY <3>1
  <2> QED BY <1>5, <2>1, <2>2
<1>6. n + 1 \in Nat
  OBVIOUS
<1> QED BY <1>4, <1>5, <1>6 DEF Ranked

\* An object is in use as before and its fields are as before.
Keeps(o) == /\ life'[o] = "live" <=> life[o] = "live"
            /\ parent'[o] = parent[o]
            /\ o \in Devices \union Contexts => source'[o] = source[o]
            /\ o \in Maps => mapsrc'[o] = mapsrc[o]

LEMMA NoBirth ==
  ASSUME \A o \in Devices \union Contexts \union Maps : Keeps(o)
  PROVE  srcs' = srcs /\ pars' = pars /\ mbufs' = mbufs /\ mctxs' = mctxs
<1>1. srcs' = srcs
  BY DEF srcs, InUseOr, Keeps
<1>2. pars' = pars
  BY DEF pars, InUseOr, Keeps
<1>3. mbufs' = mbufs
  BY DEF mbufs, InUseOr, Keeps
<1>4. mctxs' = mctxs
  BY DEF mctxs, InUseOr, Keeps
<1> QED BY <1>1, <1>2, <1>3, <1>4

LEMMA NoBirthRanks ==
  ASSUME Types, Alive, Ranked, srcs' = srcs, pars' = pars, mbufs' = mbufs, mctxs' = mctxs
  PROVE  Ranked'
<1>1. ASSUME NEW x \in Objects, NEW y \in Objects, Refers(x, y)'  PROVE Refers(x, y)
  BY <1>1 DEF Refers
<1>2. {} \in SUBSET Objects /\ \A o \in {} : life[o] # "live"
  OBVIOUS
<1> QED BY <1>1, <1>2, RankBirth

\* What the fields of an object add to the counts when it is taken into use.
BornRefs(x, o) ==
    (IF x \in Devices \union Contexts THEN Is(source'[x], o) ELSE 0)
      + (IF x \in Contexts \union Maps THEN Is(parent'[x], o) ELSE 0)
      + (IF x \in Maps THEN Is(mapsrc'[x].buf, o) + Is(mapsrc'[x].ctx, o) ELSE 0)

\* The references of objects in use, together.
Held(o) == Count(srcs, o) + Count(pars, o) + Count(mbufs, o) + Count(mctxs, o)

LEMMA Birth ==
  ASSUME Types, Alive, Ranked, NEW x \in Devices \union Contexts \union Maps,
         life[x] # "live", life'[x] = "live",
         \A o \in (Devices \union Contexts \union Maps) \ {x} : Keeps(o),
         x \in Devices \union Contexts => source'[x] # x,
         x \in Contexts \union Maps => parent'[x] # x,
         x \in Maps => mapsrc'[x].buf # x /\ mapsrc'[x].ctx # x
  PROVE  /\ Ranked'
         /\ \A o \in Objects : Held(o)' = Held(o) + BornRefs(x, o)
<1>1. /\ x \in Devices \union Contexts => Changes(srcs, srcs', x, source'[x]) /\ srcs[x] = None
      /\ x \notin Devices \union Contexts => srcs' = srcs
  BY DEF srcs, InUseOr, Keeps, Changes
<1>2. /\ x \in Contexts \union Maps => Changes(pars, pars', x, parent'[x]) /\ pars[x] = None
      /\ x \notin Contexts \union Maps => pars' = pars
  BY DEF pars, InUseOr, Keeps, Changes
<1>3. /\ x \in Maps => Changes(mbufs, mbufs', x, mapsrc'[x].buf) /\ mbufs[x] = None
      /\ x \notin Maps => mbufs' = mbufs
  BY DEF mbufs, InUseOr, Keeps, Changes
<1>4. /\ x \in Maps => Changes(mctxs, mctxs', x, mapsrc'[x].ctx) /\ mctxs[x] = None
      /\ x \notin Maps => mctxs' = mctxs
  BY DEF mctxs, InUseOr, Keeps, Changes
<1>5. Ranked'
  <2>1. {x} \in SUBSET Objects /\ \A o \in {x} : life[o] # "live"
    BY DEF Objects
  <2>2. ASSUME NEW z \in Objects, NEW y \in Objects, Refers(z, y)'
        PROVE  Refers(z, y) \/ (z \in {x} /\ y \notin {x})
    <3>0. y # None
      BY HwContextAssumption
    <3>1. CASE z = x
      <4>1. CASE z \in Devices \union Contexts /\ srcs'[z] = y
        BY <1>1, <3>0, <3>1, <4>1 DEF Changes
      <4>2. CASE z \in Contexts \union Maps /\ pars'[z] = y
        BY <1>2, <3>0, <3>1, <4>2 DEF Changes
      <4>3. CASE z \in Maps /\ mbufs'[z] = y
        BY <1>3, <3>0, <3>1, <4>3 DEF Changes
      <4>4. CASE z \in Maps /\ mctxs'[z] = y
        BY <1>4, <3>0, <3>1, <4>4 DEF Changes
      <4> QED BY <2>2, <4>1, <4>2, <4>3, <4>4 DEF Refers
    <3>2. CASE z # x
      <4>1. z \in Devices \union Contexts => srcs'[z] = srcs[z]
        BY <1>1, <3>2 DEF Changes, srcs
      <4>2. z \in Contexts \union Maps => pars'[z] = pars[z]
        BY <1>2, <3>2 DEF Changes, pars
      <4>3. z \in Maps => mbufs'[z] = mbufs[z]
        BY <1>3, <3>2 DEF Changes, mbufs
      <4>4. z \in Maps => mctxs'[z] = mctxs[z]
        BY <1>4, <3>2 DEF Changes, mctxs
      <4> QED BY <2>2, <4>1, <4>2, <4>3, <4>4 DEF Refers
    <3> QED BY <3>1, <3>2
  <2> QED BY <2>1, <2>2, RankBirth
<1>6. ASSUME NEW o \in Objects  PROVE Held(o)' = Held(o) + BornRefs(x, o)
  <2>0. /\ Count(srcs, o) \in Nat /\ Count(pars, o) \in Nat
        /\ Count(mbufs, o) \in Nat /\ Count(mctxs, o) \in Nat
    BY NatParts
  <2>1. Count(srcs', o) = Count(srcs, o) + IF x \in Devices \union Contexts THEN Is(source'[x], o) ELSE 0
    BY <1>1, <2>0, FiniteParts, Gained
  <2>2. Count(pars', o) = Count(pars, o) + IF x \in Contexts \union Maps THEN Is(parent'[x], o) ELSE 0
    BY <1>2, <2>0, FiniteParts, Gained
  <2>3. Count(mbufs', o) = Count(mbufs, o) + IF x \in Maps THEN Is(mapsrc'[x].buf, o) ELSE 0
    BY <1>3, <2>0, FiniteParts, Gained
  <2>4. Count(mctxs', o) = Count(mctxs, o) + IF x \in Maps THEN Is(mapsrc'[x].ctx, o) ELSE 0
    BY <1>4, <2>0, FiniteParts, Gained
  <2>5. Held(o)' = Count(srcs', o) + Count(pars', o) + Count(mbufs', o) + Count(mctxs', o)
    BY DEF Held
  <2> QED BY <2>0, <2>1, <2>2, <2>3, <2>4, <2>5 DEF Held, BornRefs, Is
<1> QED BY <1>5, <1>6

-----------------------------------------------------------------------------
\* The references of the frames, together.
Shown(o) == Count(bufs, o) + Count(ctxs, o)

LEMMA FrameChange ==
  ASSUME Types, NEW f \in Frames, NEW fr, Changes(frame, frame', f, fr), NEW o \in Objects
  PROVE  Shown(o)' = Shown(o) - Is(frame[f].buf, o) - Is(frame[f].ctx, o)
                        + Is(fr.buf, o) + Is(fr.ctx, o)
<1>0. DOMAIN frame = Frames
  BY DEF Types
<1>1. Changes(bufs, bufs', f, fr.buf) /\ bufs[f] = frame[f].buf
  BY <1>0 DEF bufs, Changes
<1>2. Changes(ctxs, ctxs', f, fr.ctx) /\ ctxs[f] = frame[f].ctx
  BY <1>0 DEF ctxs, Changes
<1>3. Count(bufs', o) = Count(bufs, o) - Is(frame[f].buf, o) + Is(fr.buf, o)
  BY <1>1, FiniteParts, CountExcept
<1>4. Count(ctxs', o) = Count(ctxs, o) - Is(frame[f].ctx, o) + Is(fr.ctx, o)
  BY <1>2, FiniteParts, CountExcept
<1>5. Shown(o)' = Count(bufs', o) + Count(ctxs', o)
  BY DEF Shown
<1>6. Count(bufs, o) \in Nat /\ Count(ctxs, o) \in Nat
  BY NatParts
<1> QED BY <1>3, <1>4, <1>5, <1>6 DEF Shown, Is

LEMMA FramesSame ==
  ASSUME frame' = frame, NEW o
  PROVE  Shown(o)' = Shown(o)
BY DEF Shown, bufs, ctxs

LEMMA KeepsOne ==
  ASSUME Types, NEW c \in Devices \union Contexts, NEW o \in Objects, Keep(c)
  PROVE  HeldOf(o)' = HeldOf(o) + Is(c, o)
<1>1. held[c] \in Nat
  BY HwContextAssumption DEF Types
<1> QED BY <1>1 DEF Types, Keep, HeldOf, Is

LEMMA HandlesSame ==
  ASSUME held' = held, NEW o
  PROVE  HeldOf(o)' = HeldOf(o)
BY DEF HeldOf

\* The sum of these is all there is.
LEMMA Sums ==
  ASSUME Types, NEW o \in Objects
  PROVE  /\ RefsTo(o) = HeldOf(o) + Shown(o) + Held(o) + Count(Marks(todo, "unref"), o)
         /\ HeldOf(o) \in Nat /\ Shown(o) \in Nat /\ Held(o) \in Nat
         /\ Count(Marks(todo, "unref"), o) \in Nat
<1>1. /\ HeldOf(o) \in Nat /\ Count(bufs, o) \in Nat /\ Count(ctxs, o) \in Nat
      /\ Count(srcs, o) \in Nat /\ Count(pars, o) \in Nat
      /\ Count(mbufs, o) \in Nat /\ Count(mctxs, o) \in Nat
      /\ Count(Marks(todo, "unref"), o) \in Nat
  BY NatParts
<1> QED BY <1>1 DEF RefsTo, Shown, Held

SumsHold == \A o \in Objects :
     RefsTo(o) = HeldOf(o) + Shown(o) + Held(o) + Count(Marks(todo, "unref"), o)

LEMMA SumsOf == Types => SumsHold
BY Sums DEF SumsHold

NatsHold == \A o \in Objects : HeldOf(o) \in Nat /\ Shown(o) \in Nat /\ Held(o) \in Nat

LEMMA NatsOf == Types => NatsHold
BY Sums DEF NatsHold

LEMMA SumsNext ==
  ASSUME Types', NEW o \in Objects
  PROVE  RefsTo(o)' = HeldOf(o)' + Shown(o)' + Held(o)' + Count(Marks(todo', "unref"), o)
<1>1. (Types => SumsHold)'
  BY SumsOf, PTL
<1> QED BY <1>1 DEF SumsHold

LEMMA SumsNat ==
  ASSUME Types', NEW o \in Objects
  PROVE  HeldOf(o)' \in Nat /\ Shown(o)' \in Nat /\ Held(o)' \in Nat
<1>1. (Types => NatsHold)'
  BY NatsOf, PTL
<1> QED BY <1>1 DEF NatsHold

\* The counts after up to three new references.
LEMMA PlusA ==
  ASSUME NEW count, NEW o \in Objects, count[o] \in Nat, NEW a
  PROVE  Plus(count, <<a>>)[o] = count[o] + Is(a, o)
<1>1. Extends(0, <<>>, <<a>>, a)
  BY DEF Extends
<1>2. Plus(count, <<>>)[o] = count[o]
  BY PlusNone
<1>3. Plus(count, <<a>>)[o] = Plus(count, <<>>)[o] + Is(a, o)
  BY <1>1, PlusOne
<1> QED BY <1>2, <1>3

LEMMA PlusAB ==
  ASSUME NEW count, NEW o \in Objects, count[o] \in Nat, NEW a, NEW b
  PROVE  Plus(count, <<a, b>>)[o] = count[o] + Is(a, o) + Is(b, o)
<1>1. Extends(1, <<a>>, <<a, b>>, b)
  BY DEF Extends
<1>2. Plus(count, <<a, b>>)[o] = Plus(count, <<a>>)[o] + Is(b, o)
  BY <1>1, PlusOne
<1> QED BY <1>2, PlusA

LEMMA PlusABC ==
  ASSUME NEW count, NEW o \in Objects, count[o] \in Nat, NEW a, NEW b, NEW c
  PROVE  Plus(count, <<a, b, c>>)[o] = count[o] + Is(a, o) + Is(b, o) + Is(c, o)
<1>1. Extends(2, <<a, b>>, <<a, b, c>>, c)
  BY DEF Extends
<1>2. Plus(count, <<a, b, c>>)[o] = Plus(count, <<a, b>>)[o] + Is(c, o)
  BY <1>1, PlusOne
<1> QED BY <1>2, PlusAB

-----------------------------------------------------------------------------
LEMMA PlusType ==
  ASSUME NEW count, NEW objs, \A o \in Objects : Plus(count, objs)[o] \in Nat
  PROVE  Plus(count, objs) \in [Objects -> Nat]
BY DEF Plus

\* The list of a call that drops at most one reference.
LEMMA PushesFew ==
  ASSUME Types, NEW t \in Threads, todo[t] = <<>>
  PROVE  /\ todo' = todo => Pushes(t, None, None)
         /\ \A a \in Objects : Push(t, Drop(a)) => Pushes(t, a, None)
<1>1. Drop(None) = <<>> /\ \A a \in Objects : Drop(a) = <<Call("unref", a)>>
  BY HwContextAssumption DEF Drop
<1>2. todo' = todo => Pushes(t, None, None)
  BY <1>1 DEF Types, Todo, Pushes
<1>3. ASSUME NEW a \in Objects  PROVE Drop(a) \o Drop(None) = Drop(a)
  BY <1>1
<1>4. \A a \in Objects : Push(t, Drop(a)) => Pushes(t, a, None)
  BY <1>3 DEF Push, Pushes
<1> QED BY <1>2, <1>4

\* A reference is counted when it is made.
LEMMA Booked ==
  ASSUME Types, Ledger, Types', NEW t \in Threads, NEW a \in Objects \union {None},
         NEW b \in Objects \union {None}, Pushes(t, a, b), NEW o \in Objects,
         rc'[o] + HeldOf(o) + Shown(o) + Held(o)
            = rc[o] + HeldOf(o)' + Shown(o)' + Held(o)' + Is(a, o) + Is(b, o)
  PROVE  rc'[o] = RefsTo(o)'
<1>1. Count(Marks(todo', "unref"), o) = Count(Marks(todo, "unref"), o) + Is(a, o) + Is(b, o)
  BY PushTwo
<1>2. RefsTo(o)' = HeldOf(o)' + Shown(o)' + Held(o)' + Count(Marks(todo', "unref"), o)
  BY SumsNext
<1>3. /\ rc[o] = HeldOf(o) + Shown(o) + Held(o) + Count(Marks(todo, "unref"), o)
      /\ HeldOf(o) \in Nat /\ Shown(o) \in Nat /\ Held(o) \in Nat
      /\ Count(Marks(todo, "unref"), o) \in Nat
  BY Sums DEF Ledger
<1>4. Is(a, o) \in Nat /\ Is(b, o) \in Nat
  BY DEF Is
<1>5. HeldOf(o)' \in Nat /\ Shown(o)' \in Nat /\ Held(o)' \in Nat /\ rc'[o] \in Nat
  BY SumsNat DEF Types
<1> QED BY <1>1, <1>2, <1>3, <1>4, <1>5

OpenPools ==
    \A c \in Contexts :
        /\ life[c] = "live" /\ stage[c] = "ready" /\ source[c] = None => pool[c] = "open"
        /\ life[c] = "live" /\ source[c] # None => stage[source[c]] = "ready"

LEMMA Api ==
  ASSUME IInv, NEW t \in Threads, ApiStep(t), Types', Ledger', Lived', Fields', Companions',
         OpenPools', Ranked'
  PROVE  IInv'
<1>1. Promises' /\ Deaths' /\ ClosingPools'
  BY ApiKeeps
<1>2. Pools'
  BY <1>1 DEF Pools, OpenPools, ClosingPools
<1> QED BY <1>1, <1>2 DEF IInv

\* Disjoint kinds of objects.
LEMMA Kinds ==
  /\ \A d \in Devices : d \in Objects /\ d \notin Contexts /\ d \notin Surfaces /\ d \notin Maps /\ d # None
  /\ \A c \in Contexts : c \in Objects /\ c \notin Devices /\ c \notin Surfaces /\ c \notin Maps /\ c # None
  /\ \A s \in Surfaces : s \in Objects /\ s \notin Devices /\ s \notin Contexts /\ s \notin Maps /\ s # None
  /\ \A m \in Maps : m \in Objects /\ m \notin Devices /\ m \notin Contexts /\ m \notin Surfaces /\ m # None
BY HwContextAssumption DEF Objects

\* The handles of the user.
LEMMA NewHandle ==
  ASSUME Types, Alive, NEW x \in Devices \union Contexts, life[x] # "live", Keep(x)
  PROVE  /\ held' \in [Devices \union Contexts -> 0 .. MaxHandles]
         /\ \A o \in Objects : HeldOf(o)' = HeldOf(o) + Is(x, o)
<1>1. held[x] = 0
  BY HwContextAssumption DEF Types, Alive
<1>2. held' \in [Devices \union Contexts -> 0 .. MaxHandles]
  BY <1>1, HwContextAssumption DEF Types, Keep
<1> QED BY <1>2, KeepsOne

LEMMA SameHandles ==
  ASSUME Types, held' = held
  PROVE  /\ held' \in [Devices \union Contexts -> 0 .. MaxHandles]
         /\ \A o \in Objects : HeldOf(o)' = HeldOf(o) + 0
<1>1. \A o \in Objects : HeldOf(o)' = HeldOf(o) /\ HeldOf(o) \in Nat
  BY HandlesSame, NatParts
<1> QED BY <1>1 DEF Types

LEMMA SameFrames ==
  ASSUME Types, frame' = frame, NEW o \in Objects
  PROVE  Shown(o)' = Shown(o) + 0
BY FramesSame, Sums

\* A number that is 0 or 1.
LEMMA IsInt == /\ \A x, o : Is(x, o) \in Nat
               /\ \A o \in Objects : Is(None, o) = 0
BY HwContextAssumption DEF Is

\* Calls that only change the references of the user and of frames.
Quiet == /\ life' = life /\ parent' = parent /\ source' = source
         /\ stage' = stage /\ pool' = pool /\ mapsrc' = mapsrc

LEMMA QuietKeeps ==
  ASSUME IInv, NEW t \in Threads, Quiet,
         NEW a \in Objects \union {None}, NEW b \in Objects \union {None}, Pushes(t, a, b),
         a \in Surfaces /\ parent[a] # None => b = parent[a], b \notin Surfaces,
         rc' \in [Objects -> Nat], frame' \in [Frames -> Frame],
         held' \in [Devices \union Contexts -> 0 .. MaxHandles],
         \A o \in Objects : rc'[o] >= rc[o] /\ (rc'[o] > rc[o] => life[o] = "live"),
         \A f \in Frames : Paired(frame'[f]),
         \A o \in Objects : rc'[o] + HeldOf(o) + Shown(o)
                               = rc[o] + HeldOf(o)' + Shown(o)' + Is(a, o) + Is(b, o)
  PROVE  IInv'
<1>1. Types /\ Lived /\ Fields /\ Ledger /\ Companions /\ Pools /\ Ranked /\ Alive
  BY AllAlive DEF IInv
<1>2. /\ life' = life /\ parent' = parent /\ source' = source
      /\ stage' = stage /\ pool' = pool /\ mapsrc' = mapsrc
  BY DEF Quiet
<1>3. srcs' = srcs /\ pars' = pars /\ mbufs' = mbufs /\ mctxs' = mctxs
  BY <1>2, NoBirth DEF Keeps
<1>4. Types'
  BY <1>1, <1>2, PushTwo DEF Types
<1>5. ASSUME NEW o \in Objects  PROVE rc'[o] = RefsTo(o)'
  <2>1. rc'[o] + HeldOf(o) + Shown(o) = rc[o] + HeldOf(o)' + Shown(o)' + Is(a, o) + Is(b, o)
    OBVIOUS
  <2>2. Held(o) \in Nat /\ Held(o)' = Held(o)
    BY <1>1, <1>3, Sums DEF Held
  <2>3. /\ rc[o] \in Nat /\ rc'[o] \in Nat /\ HeldOf(o) \in Nat /\ Shown(o) \in Nat
        /\ HeldOf(o)' \in Nat /\ Shown(o)' \in Nat /\ Is(a, o) \in Nat /\ Is(b, o) \in Nat
    BY <1>1, <1>4, Sums, SumsNat, IsInt DEF Types
  <2>4. rc'[o] + HeldOf(o) + Shown(o) + Held(o)
            = rc[o] + HeldOf(o)' + Shown(o)' + Held(o)' + Is(a, o) + Is(b, o)
    BY <2>1, <2>2, <2>3
  <2> QED BY <1>1, <1>4, <2>4, Booked
<1>6. Lived'
  BY <1>1, <1>2, <1>4 DEF Lived, Types
<1>7. Ledger'
  BY <1>5 DEF Ledger
<1>8. Fields'
  BY <1>1, <1>2 DEF Fields
<1>9. Companions' /\ OpenPools'
  BY <1>1, <1>2 DEF Companions, Paired, Pools, OpenPools
<1>10. ApiStep(t)
  BY <1>2 DEF ApiStep
<1>11. Ranked'
  BY <1>1, <1>3, NoBirthRanks
<1> QED BY <1>4, <1>6, <1>7, <1>8, <1>9, <1>10, <1>11, Api

\* The same when the frames, or the handles, stay as they are and no reference is dropped.
LEMMA HandleKept ==
  ASSUME IInv, NEW t \in Threads, todo[t] = <<>>, todo' = todo, Quiet, frame' = frame,
         NEW x \in Devices \union Contexts, life[x] = "live", held[x] < MaxHandles, Keep(x),
         rc' = Plus(rc, <<x>>)
  PROVE  IInv'
<1>1. Types /\ Lived /\ Fields /\ Ledger /\ Companions /\ Pools /\ Ranked /\ Alive
  BY AllAlive DEF IInv
<1>2. Pushes(t, None, None)
  BY <1>1, PushesFew
<1>3. ASSUME NEW o \in Objects  PROVE rc'[o] = rc[o] + Is(x, o) /\ rc[o] \in Nat
  <2>1. rc[o] \in Nat
    BY <1>1 DEF Types
  <2> QED BY <2>1, PlusA
<1>4. rc' \in [Objects -> Nat]
  BY <1>3, PlusType, IsInt
<1>5. held' \in [Devices \union Contexts -> 0 .. MaxHandles]
  BY <1>1, HwContextAssumption DEF Types, Keep
<1>6. ASSUME NEW o \in Objects
      PROVE  rc'[o] + HeldOf(o) + Shown(o)
                = rc[o] + HeldOf(o)' + Shown(o)' + Is(None, o) + Is(None, o)
  <2>1. HeldOf(o)' = HeldOf(o) + Is(x, o) /\ Shown(o)' = Shown(o) + 0
    BY <1>1, KeepsOne, SameFrames
  <2>2. HeldOf(o) \in Nat /\ Shown(o) \in Nat /\ Is(x, o) \in Nat /\ Is(None, o) = 0
    BY <1>1, Sums, IsInt
  <2> QED BY <1>3, <2>1, <2>2
<1>7. \A o \in Objects : rc'[o] >= rc[o] /\ (rc'[o] > rc[o] => life[o] = "live")
  BY <1>3 DEF Is
<1>8. \A f \in Frames : Paired(frame'[f])
  BY <1>1 DEF Companions
<1>9. None \notin Surfaces /\ None \in Objects \union {None} /\ frame' \in [Frames -> Frame]
  BY <1>1, Kinds DEF Types
<1> QED BY <1>2, <1>4, <1>5, <1>6, <1>7, <1>8, <1>9, QuietKeeps

LEMMA AncestorsLive ==
  ASSUME Types, Alive, Fields, NEW d \in Devices, life[d] = "live", NEW a \in Ancestors(d)
  PROVE  a \in Devices /\ life[a] = "live"
<1>1. PICK S : S = {x \in Devices : life[x] = "live"}
  OBVIOUS
<1>2. d \in S /\ (\A x \in S : source[x] \in S \union {None}) /\ S \in SUBSET Devices
  BY <1>1 DEF Alive, Fields
<1>3. a \in S /\ a \in Devices
  BY <1>2 DEF Ancestors
<1> QED BY <1>1, <1>3

LEMMA DeviceDeriveKnownKeeps ==
  ASSUME IInv, NEW t \in Threads, NEW type, NEW src \in Devices, DeviceDeriveKnown(t, type, src)
  PROVE  IInv'
<1>1. Types /\ Alive /\ Fields
  BY AllAlive DEF IInv
<1>2. PICK d \in Ancestors(src) :
        /\ Idle(t) /\ held[src] > 0
        /\ Type[d] = type /\ held[d] < MaxHandles
        /\ Keep(d) /\ rc' = Plus(rc, <<d>>)
        /\ UNCHANGED <<life, parent, source, stage, pool, mapsrc, frame, todo>>
  BY DEF DeviceDeriveKnown
<1>3. d \in Devices /\ life[d] = "live"
  BY <1>1, <1>2, AncestorsLive DEF Alive
<1> QED BY <1>2, <1>3, HandleKept DEF Quiet, Idle

LEMMA ContextDeriveBackKeeps ==
  ASSUME IInv, NEW t \in Threads, NEW d \in Devices, NEW src \in Contexts, ContextDeriveBack(t, d, src)
  PROVE  IInv'
<1>1. Types /\ Alive /\ Fields
  BY AllAlive DEF IInv
<1>2. PICK back : back = source[src]
  OBVIOUS
<1>3. /\ Idle(t) /\ held[src] > 0
      /\ back # None /\ held[back] < MaxHandles
      /\ Keep(back) /\ rc' = Plus(rc, <<back>>)
      /\ UNCHANGED <<life, parent, source, stage, pool, mapsrc, frame, todo>>
  BY <1>2 DEF ContextDeriveBack
<1>4. back \in Contexts /\ life[back] = "live"
  BY <1>1, <1>2, <1>3 DEF Alive, Fields
<1> QED BY <1>3, <1>4, HandleKept DEF Quiet, Idle

LEMMA DropHandleKeeps ==
  ASSUME IInv, NEW t \in Threads, NEW x \in Devices \union Contexts, DropHandle(t, x)
  PROVE  IInv'
<1>1. Types /\ Lived /\ Fields /\ Ledger /\ Companions /\ Pools /\ Ranked /\ Alive
  BY AllAlive DEF IInv
<1>2. x \in Objects /\ x \notin Surfaces /\ None \notin Surfaces
  BY Kinds
<1>3. Pushes(t, x, None)
  BY <1>1, <1>2, PushesFew DEF DropHandle, Idle
<1>4. held' \in [Devices \union Contexts -> 0 .. MaxHandles]
  BY <1>1, HwContextAssumption DEF DropHandle, Types
<1>5. ASSUME NEW o \in Objects
      PROVE  rc'[o] + HeldOf(o) + Shown(o)
                = rc[o] + HeldOf(o)' + Shown(o)' + Is(x, o) + Is(None, o)
  <2>1. Shown(o)' = Shown(o) + 0
    BY <1>1, SameFrames DEF DropHandle
  <2>2. HeldOf(o)' = HeldOf(o) - Is(x, o)
    <3>1. held[x] \in Nat
      BY <1>1, HwContextAssumption DEF Types
    <3> QED BY <1>1, <3>1, NatParts DEF DropHandle, HeldOf, Is, Types
  <2>3. rc'[o] = rc[o] /\ rc[o] \in Nat
      BY <1>1 DEF Types, DropHandle
  <2>4. HeldOf(o) \in Nat /\ Shown(o) \in Nat /\ Is(x, o) \in Nat /\ Is(None, o) = 0
    BY <1>1, Sums, IsInt
  <2> QED BY <2>1, <2>2, <2>3, <2>4
<1>6. Quiet /\ rc' = rc /\ frame' = frame
  BY DEF Quiet, DropHandle
<1>7. \A f \in Frames : Paired(frame'[f])
  BY <1>1, <1>6 DEF Companions
<1>8. rc' \in [Objects -> Nat] /\ frame' \in [Frames -> Frame]
  BY <1>1, <1>6 DEF Types
<1>9. \A o \in Objects : rc'[o] >= rc[o] /\ ~(rc'[o] > rc[o])
  BY <1>6, <1>8
<1> QED BY <1>2, <1>3, <1>4, <1>5, <1>6, <1>7, <1>8, <1>9, QuietKeeps

-----------------------------------------------------------------------------
\* Two references are made, to objects in use.
Gains(x, y) ==
    /\ rc' \in [Objects -> Nat] /\ \A o \in Objects : rc'[o] = rc[o] + Is(x, o) + Is(y, o)
    /\ x # None => life[x] = "live"
    /\ y # None => life[y] = "live"

\* They and a frame's old ones are its new ones and those that are dropped.
Even(fr, a, b, old, x, y) == \A o \in Objects :
    Is(fr.buf, o) + Is(fr.ctx, o) + Is(a, o) + Is(b, o)
       = Is(old.buf, o) + Is(old.ctx, o) + Is(x, o) + Is(y, o)

LEMMA EvenSum ==
  ASSUME NEW c \in Nat, NEW cn \in Nat, NEW h \in Nat, NEW hn, NEW s \in Nat, NEW sn \in Nat,
         NEW a \in Nat, NEW b \in Nat, NEW x \in Nat, NEW y \in Nat,
         cn = c + x + y, hn = h + 0, sn + a + b = s + x + y
  PROVE  cn + h + s = c + hn + sn + a + b
OBVIOUS

\* A frame gets other references, which are made before, and its own are dropped.
LEMMA FrameCall ==
  ASSUME IInv, NEW t \in Threads, Quiet, held' = held,
         NEW f \in Frames, NEW fr, Changes(frame, frame', f, fr), Paired(fr),
         frame' \in [Frames -> Frame],
         NEW a \in Objects \union {None}, NEW b \in Objects \union {None}, Pushes(t, a, b),
         a \in Surfaces /\ parent[a] # None => b = parent[a], b \notin Surfaces,
         NEW x, NEW y, Gains(x, y), Even(fr, a, b, frame[f], x, y)
  PROVE  IInv'
<1>0. /\ rc' \in [Objects -> Nat] /\ (x # None => life[x] = "live") /\ (y # None => life[y] = "live")
      /\ \A o \in Objects : rc'[o] = rc[o] + Is(x, o) + Is(y, o)
  BY DEF Gains
<1>1. Types /\ Companions
  BY DEF IInv
<1>2. \A g \in Frames : Paired(frame'[g])
  <2>1. \A g \in Frames : frame'[g] = fr \/ frame'[g] = frame[g]
    BY <1>1 DEF Types, Changes
  <2> QED BY <1>1, <2>1 DEF Companions
<1>3. held' \in [Devices \union Contexts -> 0 .. MaxHandles]
  BY <1>1, SameHandles
<1>4. ASSUME NEW o \in Objects
      PROVE  rc'[o] + HeldOf(o) + Shown(o) = rc[o] + HeldOf(o)' + Shown(o)' + Is(a, o) + Is(b, o)
  <2>1. Shown(o)' = Shown(o) - Is(frame[f].buf, o) - Is(frame[f].ctx, o) + Is(fr.buf, o) + Is(fr.ctx, o)
    BY <1>1, FrameChange
  <2>2. HeldOf(o)' = HeldOf(o) + 0
    BY <1>1, SameHandles
  <2>4. /\ rc'[o] = rc[o] + Is(x, o) + Is(y, o)
        /\ Is(fr.buf, o) + Is(fr.ctx, o) + Is(a, o) + Is(b, o)
              = Is(frame[f].buf, o) + Is(frame[f].ctx, o) + Is(x, o) + Is(y, o)
    BY <1>0 DEF Even
  <2>3. /\ rc[o] \in Nat /\ HeldOf(o) \in Nat /\ Shown(o) \in Nat /\ Is(a, o) \in Nat /\ Is(b, o) \in Nat
        /\ Is(x, o) \in Nat /\ Is(y, o) \in Nat /\ Is(fr.buf, o) \in Nat /\ Is(fr.ctx, o) \in Nat
        /\ Is(frame[f].buf, o) \in Nat /\ Is(frame[f].ctx, o) \in Nat
    BY <1>1, Sums, IsInt DEF Types
  <2>5. PICK p \in Nat, q \in Nat, r \in Nat, u \in Nat :
            p = Is(frame[f].buf, o) /\ q = Is(frame[f].ctx, o) /\ r = Is(fr.buf, o) /\ u = Is(fr.ctx, o)
    BY <2>3
  <2>6. Shown(o)' + Is(a, o) + Is(b, o) = Shown(o) + Is(x, o) + Is(y, o)
    <3>1. Shown(o)' = Shown(o) - p - q + r + u
      BY <2>1, <2>5
    <3>2. r + u + Is(a, o) + Is(b, o) = p + q + Is(x, o) + Is(y, o)
      BY <2>4, <2>5
    <3> QED BY <2>3, <3>1, <3>2
  <2>7. Shown(o)' \in Nat
    <3>1. Types'
      BY <1>0, <1>1, <1>3, PushTwo DEF Quiet, Types
    <3> QED BY <3>1, SumsNat
  <2>8. rc'[o] \in Nat
    BY <1>0
  <2> QED BY <2>2, <2>3, <2>4, <2>6, <2>7, <2>8, EvenSum
<1>5. ASSUME NEW o \in Objects  PROVE rc'[o] >= rc[o] /\ (rc'[o] > rc[o] => life[o] = "live")
  <2>1. Is(x, o) \in Nat /\ Is(y, o) \in Nat /\ rc[o] \in Nat
    BY <1>1, IsInt DEF Types
  <2>2. rc'[o] = rc[o] + Is(x, o) + Is(y, o)
    BY <1>0
  <2>3. rc'[o] > rc[o] => x = o \/ y = o
    BY <2>1, <2>2 DEF Is
  <2>4. o # None
    BY HwContextAssumption
  <2> QED BY <1>0, <2>1, <2>2, <2>3, <2>4
<1> QED BY <1>0, <1>2, <1>3, <1>4, <1>5, QuietKeeps

\* What a frame may refer to.
LEMMA FrameParts ==
  /\ Empty \in Frame /\ Empty.buf = None /\ Empty.ctx = None /\ Paired(Empty)
  /\ \A fr \in Frame : /\ fr.buf \in Objects \union {None} /\ fr.ctx \in Objects \union {None}
                       /\ fr.ctx \notin Surfaces /\ fr.ctx \in Contexts \union {None}
<1>1. Empty \in Frame /\ Empty.buf = None /\ Empty.ctx = None
  BY DEF Empty, Frame
<1>2. Paired(Empty)
  BY <1>1, Kinds DEF Paired
<1>3. \A fr \in Frame : fr.buf \in Surfaces \union Maps \union {None} /\ fr.ctx \in Contexts \union {None}
  BY DEF Frame
<1> QED BY <1>1, <1>2, <1>3, Kinds DEF Objects

\* The counts after references like those of a frame were made.
LEMMA PlusFrame ==
  ASSUME Types, NEW fr, rc' = Plus(rc, RefsOf(fr)),
         fr.buf # None => life[fr.buf] = "live", fr.ctx # None => life[fr.ctx] = "live"
  PROVE  Gains(fr.buf, fr.ctx)
<1>1. RefsOf(fr) = <<fr.buf, fr.ctx>>
  BY DEF RefsOf
<1>2. ASSUME NEW o \in Objects
      PROVE  rc'[o] = rc[o] + Is(fr.buf, o) + Is(fr.ctx, o) /\ rc'[o] \in Nat
  <2>1. rc[o] \in Nat
    BY DEF Types
  <2>2. rc'[o] = rc[o] + Is(fr.buf, o) + Is(fr.ctx, o)
    BY <1>1, <2>1, PlusAB
  <2> QED BY <2>1, <2>2, IsInt
<1>3. rc' \in [Objects -> Nat]
  BY <1>1, <1>2, PlusType
<1> QED BY <1>2, <1>3 DEF Gains

LEMMA PlusContext ==
  ASSUME Types, NEW c, rc' = Plus(rc, <<c>>), life[c] = "live"
  PROVE  Gains(c, None)
<1>1. ASSUME NEW o \in Objects
      PROVE  rc'[o] = rc[o] + Is(c, o) + Is(None, o) /\ rc'[o] \in Nat
  <2>1. rc[o] \in Nat
    BY DEF Types
  <2>2. rc'[o] = rc[o] + Is(c, o)
    BY <2>1, PlusA
  <2> QED BY <2>1, <2>2, IsInt
<1>2. rc' \in [Objects -> Nat]
  BY <1>1, PlusType
<1> QED BY <1>1, <1>2 DEF Gains

LEMMA PlusNothing ==
  ASSUME Types, rc' = rc
  PROVE  Gains(None, None)
BY IsInt DEF Types, Gains

\* The context of an empty frame is set.
LEMMA ContextSet ==
  ASSUME IInv, NEW t \in Threads, Quiet, held' = held, todo[t] = <<>>, todo' = todo,
         NEW f \in Frames, frame[f] = Empty, NEW c \in Contexts, life[c] = "live",
         frame' = [frame EXCEPT ![f].ctx = c], rc' = Plus(rc, <<c>>)
  PROVE  IInv'
<1>1. Types
  BY DEF IInv
<1>2. PICK fr : fr = [buf |-> None, ctx |-> c]
  OBVIOUS
<1>3. fr \in Frame /\ fr.buf = None /\ fr.ctx = c /\ Paired(fr)
  BY <1>2, Kinds DEF Frame, Paired
<1>4. Changes(frame, frame', f, fr) /\ frame' \in [Frames -> Frame]
  BY <1>1, <1>2, <1>3 DEF Types, Changes, Empty
<1>5. Pushes(t, None, None)
  BY <1>1, PushesFew
<1>6. Gains(c, None)
  BY <1>1, PlusContext
<1>7. Even(fr, None, None, frame[f], c, None)
  BY <1>3, FrameParts, IsInt DEF Even
<1>8. None \in Objects \union {None} /\ None \notin Surfaces
  BY Kinds
<1> QED BY <1>3, <1>4, <1>5, <1>6, <1>7, <1>8, FrameCall

LEMMA SetFramesCtxKeeps ==
  ASSUME IInv, NEW t \in Threads, NEW f \in Frames, NEW c \in Contexts, SetFramesCtx(t, f, c)
  PROVE  IInv'
<1>1. life[c] = "live"
  BY AllAlive DEF IInv, Alive, SetFramesCtx
<1> QED BY <1>1, ContextSet DEF SetFramesCtx, Quiet, Idle

LEMMA FrameRefKeeps ==
  ASSUME IInv, NEW t \in Threads, NEW dst \in Frames, NEW src \in Frames, FrameRef(t, dst, src)
  PROVE  IInv'
<1>1. Types /\ Companions /\ Alive
  BY AllAlive DEF IInv
<1>2. PICK fr \in Frame : fr = frame[src]
  BY <1>1 DEF Types
<1>3. Paired(fr) /\ (fr.buf # None => life[fr.buf] = "live") /\ (fr.ctx # None => life[fr.ctx] = "live")
  BY <1>1, <1>2 DEF Companions, Alive
<1>4. Changes(frame, frame', dst, fr) /\ frame[dst] = Empty /\ frame' \in [Frames -> Frame]
  BY <1>1, <1>2 DEF Types, Changes, FrameRef
<1>5. Pushes(t, None, None)
  BY <1>1, PushesFew DEF FrameRef, Idle
<1>6. Gains(fr.buf, fr.ctx)
  BY <1>1, <1>2, <1>3, PlusFrame DEF FrameRef
<1>7. Even(fr, None, None, frame[dst], fr.buf, fr.ctx)
  BY <1>4, FrameParts, IsInt DEF Even
<1>8. None \in Objects \union {None} /\ None \notin Surfaces
  BY Kinds
<1>9. Quiet /\ held' = held
  BY DEF Quiet, FrameRef
<1> QED BY <1>3, <1>4, <1>5, <1>6, <1>7, <1>8, <1>9, FrameCall

\* A frame's references are dropped.
LEMMA PushesRefs ==
  ASSUME NEW t \in Threads, todo[t] = <<>>, NEW fr, Push(t, DropRefs(fr))
  PROVE  Pushes(t, fr.buf, fr.ctx)
<1>1. RefsOf(fr)[1] = fr.buf /\ RefsOf(fr)[2] = fr.ctx
  BY DEF RefsOf
<1> QED BY <1>1 DEF DropRefs, Push, Pushes

LEMMA FrameUnrefKeeps ==
  ASSUME IInv, NEW t \in Threads, NEW f \in Frames, FrameUnref(t, f)
  PROVE  IInv'
<1>1. Types /\ Companions
  BY DEF IInv
<1>2. PICK fr \in Frame : fr = frame[f]
  BY <1>1 DEF Types
<1>3. Pushes(t, fr.buf, fr.ctx)
  BY <1>2, PushesRefs DEF FrameUnref, Idle
<1>4. Changes(frame, frame', f, Empty) /\ frame' \in [Frames -> Frame]
  BY <1>1, FrameParts DEF Types, Changes, FrameUnref
<1>5. Gains(None, None)
  BY <1>1, PlusNothing DEF FrameUnref
<1>6. Even(Empty, fr.buf, fr.ctx, frame[f], None, None)
  BY <1>2, FrameParts, IsInt DEF Even
<1>7. fr.buf \in Surfaces => fr.ctx = parent[fr.buf]
  BY <1>1, <1>2 DEF Companions, Paired
<1>8. Quiet /\ held' = held
  BY DEF Quiet, FrameUnref
<1>9. Empty \in Frame /\ Paired(Empty) /\ fr.buf \in Objects \union {None}
      /\ fr.ctx \in Objects \union {None} /\ fr.ctx \notin Surfaces
  BY FrameParts
<1> QED BY <1>3, <1>4, <1>5, <1>6, <1>7, <1>8, <1>9, FrameCall

LEMMA UnmapFrameKeeps ==
  ASSUME IInv, NEW t \in Threads, NEW dst \in Frames, NEW src \in Frames, UnmapFrame(t, dst, src)
  PROVE  IInv'
<1>1. Types /\ Companions /\ Alive
  BY AllAlive DEF IInv
<1>2. PICK to \in Frame : to = frame[dst]
  BY <1>1 DEF Types
<1>3. PICK m : m = frame[src].buf
  OBVIOUS
<1>4. /\ todo[t] = <<>> /\ m \in Maps /\ Push(t, DropRefs(to)) /\ Quiet /\ held' = held
      /\ \/ frame' = [frame EXCEPT ![dst] = mapsrc[m]] /\ rc' = Plus(rc, RefsOf(mapsrc[m]))
         \/ frame' = [frame EXCEPT ![dst] = Empty] /\ rc' = rc
  BY <1>2, <1>3 DEF UnmapFrame, Idle, Quiet
<1>5. PICK from \in Frame : from = mapsrc[m]
  BY <1>1, <1>4 DEF Types
<1>6. Pushes(t, to.buf, to.ctx)
  BY <1>4, PushesRefs
<1>7. to.buf \in Surfaces => to.ctx = parent[to.buf]
  BY <1>1, <1>2 DEF Companions, Paired
<1>8. to.buf \in Objects \union {None} /\ to.ctx \in Objects \union {None} /\ to.ctx \notin Surfaces
  BY FrameParts
<1>9. CASE frame' = [frame EXCEPT ![dst] = from] /\ rc' = Plus(rc, RefsOf(from))
  <2>1. m # None
    BY <1>4, Kinds
  <2>2. life[m] = "live"
    BY <1>1, <1>3, <2>1 DEF Alive
  <2>3. Paired(from) /\ (from.buf # None => life[from.buf] = "live") /\ (from.ctx # None => life[from.ctx] = "live")
    BY <1>1, <1>4, <1>5, <2>2 DEF Companions, Alive
  <2>4. Changes(frame, frame', dst, from) /\ frame' \in [Frames -> Frame]
    BY <1>1, <1>9 DEF Types, Changes
  <2>5. Gains(from.buf, from.ctx)
    BY <1>1, <1>9, <2>3, PlusFrame
  <2>6. Even(from, to.buf, to.ctx, frame[dst], from.buf, from.ctx)
    BY <1>2, IsInt DEF Even
  <2> QED BY <1>4, <1>6, <1>7, <1>8, <2>3, <2>4, <2>5, <2>6, FrameCall
<1>10. CASE frame' = [frame EXCEPT ![dst] = Empty] /\ rc' = rc
  <2>4. Changes(frame, frame', dst, Empty) /\ frame' \in [Frames -> Frame]
    BY <1>1, <1>10, FrameParts DEF Types, Changes
  <2>5. Gains(None, None)
    BY <1>1, <1>10, PlusNothing
  <2>6. Even(Empty, to.buf, to.ctx, frame[dst], None, None)
    BY <1>2, FrameParts, IsInt DEF Even
  <2> QED BY <1>4, <1>6, <1>7, <1>8, <2>4, <2>5, <2>6, FrameParts, FrameCall
<1> QED BY <1>4, <1>5, <1>9, <1>10

\* Two frames are exchanged, so to speak.
LEMMA MovedCount ==
  ASSUME NEW g, NEW h, NEW x \in DOMAIN g, NEW y \in DOMAIN g, x # y, g[x] = None,
         DOMAIN h = DOMAIN g, h[x] = g[y], h[y] = None,
         \A z \in DOMAIN g : z \notin {x, y} => h[z] = g[z],
         NEW o \in Objects, IsFiniteSet(Places(g, o))
  PROVE  Count(h, o) = Count(g, o)
<1>1. PICK mid : mid = [z \in DOMAIN g |-> IF z = x THEN g[y] ELSE g[z]]
  OBVIOUS
<1>2. Changes(g, mid, x, g[y]) /\ Changes(mid, h, y, None) /\ mid[y] = g[y]
  BY <1>1 DEF Changes
<1>3. IsFiniteSet(Places(mid, o)) /\ Count(mid, o) = Count(g, o) + Is(g[y], o)
  BY <1>2, Gained
<1>4. Count(h, o) = Count(mid, o) - Is(g[y], o)
  BY <1>2, <1>3, Lost
<1> QED BY <1>3, <1>4, CountNat, IsInt

LEMMA FrameMoveKeeps ==
  ASSUME IInv, NEW t \in Threads, NEW dst \in Frames, NEW src \in Frames, FrameMove(t, dst, src)
  PROVE  IInv'
<1>1. Types /\ Companions /\ Alive
  BY AllAlive DEF IInv
<1>2. PICK fr \in Frame : fr = frame[src]
  BY <1>1 DEF Types
<1>3. /\ todo[t] = <<>> /\ frame[dst] = Empty /\ fr # Empty /\ dst # src
      /\ frame' = [frame EXCEPT ![dst] = fr, ![src] = Empty]
      /\ Quiet /\ held' = held /\ rc' = rc /\ todo' = todo
  BY <1>2 DEF FrameMove, Idle, Quiet
<1>4. /\ DOMAIN frame' = Frames /\ frame'[dst] = fr /\ frame'[src] = Empty
      /\ \A f \in Frames : f \notin {dst, src} => frame'[f] = frame[f]
  BY <1>1, <1>3 DEF Types
<1>5. frame' \in [Frames -> Frame] /\ \A f \in Frames : Paired(frame'[f])
  <2>1. \A f \in Frames : frame'[f] = fr \/ frame'[f] = Empty \/ frame'[f] = frame[f]
    BY <1>4
  <2>2. Paired(fr)
    BY <1>1, <1>2 DEF Companions
  <2>3. frame' \in [Frames -> Frame]
    BY <1>1, <1>3, FrameParts DEF Types
  <2> QED BY <1>1, <2>1, <2>2, <2>3, FrameParts DEF Companions
<1>6. ASSUME NEW o \in Objects  PROVE Shown(o)' = Shown(o)
  <2>1. Count(bufs', o) = Count(bufs, o)
    <3>1. PICK g : g = bufs
      OBVIOUS
    <3>2. PICK h : h = bufs'
      OBVIOUS
    <3>3. /\ DOMAIN g = Frames /\ DOMAIN h = Frames /\ g[dst] = None /\ h[dst] = g[src] /\ h[src] = None
          /\ \A z \in Frames : z \notin {dst, src} => h[z] = g[z]
      BY <1>2, <1>3, <1>4, <3>1, <3>2, FrameParts DEF bufs
    <3> QED BY <1>3, <3>1, <3>2, <3>3, MovedCount, FiniteParts
  <2>2. Count(ctxs', o) = Count(ctxs, o)
    <3>1. PICK g : g = ctxs
      OBVIOUS
    <3>2. PICK h : h = ctxs'
      OBVIOUS
    <3>3. /\ DOMAIN g = Frames /\ DOMAIN h = Frames /\ g[dst] = None /\ h[dst] = g[src] /\ h[src] = None
          /\ \A z \in Frames : z \notin {dst, src} => h[z] = g[z]
      BY <1>2, <1>3, <1>4, <3>1, <3>2, FrameParts DEF ctxs
    <3> QED BY <1>3, <3>1, <3>2, <3>3, MovedCount, FiniteParts
  <2> QED BY <2>1, <2>2 DEF Shown
<1>7. ASSUME NEW o \in Objects
      PROVE  rc'[o] + HeldOf(o) + Shown(o)
                = rc[o] + HeldOf(o)' + Shown(o)' + Is(None, o) + Is(None, o)
  <2>1. HeldOf(o)' = HeldOf(o) + 0
    BY <1>1, <1>3, SameHandles
  <2>2. HeldOf(o) \in Nat /\ Shown(o) \in Nat /\ rc[o] \in Nat /\ Is(None, o) = 0
    BY <1>1, Sums, IsInt DEF Types
  <2> QED BY <1>3, <1>6, <2>1, <2>2
<1>8. Pushes(t, None, None)
  BY <1>1, <1>3, PushesFew
<1>9. /\ rc' \in [Objects -> Nat] /\ \A o \in Objects : rc'[o] >= rc[o] /\ ~(rc'[o] > rc[o])
      /\ held' \in [Devices \union Contexts -> 0 .. MaxHandles]
      /\ None \in Objects \union {None} /\ None \notin Surfaces
  BY <1>1, <1>3, Kinds DEF Types
<1> QED BY <1>3, <1>5, <1>7, <1>8, <1>9, QuietKeeps

-----------------------------------------------------------------------------
\* A device, a context or a mapping comes into use and nothing else changes of
\* the objects.
Others(x) ==
    /\ life' = [life EXCEPT ![x] = "live"] /\ pool' = pool
    /\ \A o \in Objects : o # x => parent'[o] = parent[o]
    /\ \A o \in Devices \union Contexts : o # x => source'[o] = source[o]
    /\ \A c \in Contexts : c # x => stage'[c] = stage[c]
    /\ \A m \in Maps : m # x => mapsrc'[m] = mapsrc[m]

BornWell(x) ==
    /\ x \in Devices => source'[x] \in Devices \union {None}
    /\ x \in Contexts => /\ source'[x] \in Contexts \union {None} /\ parent'[x] \in Devices
                         /\ stage'[x] = "ready" => source'[x] # None
                         /\ source'[x] # None => stage[source'[x]] = "ready"
    /\ x \in Devices \union Contexts /\ source'[x] # None => life[source'[x]] = "live"
    /\ x \in Contexts \union Maps => life[parent'[x]] = "live"
    /\ x \in Maps => parent'[x] \in Contexts /\ Paired(mapsrc'[x])
    /\ x \in Maps /\ mapsrc'[x].buf # None => life[mapsrc'[x].buf] = "live"
    /\ x \in Maps /\ mapsrc'[x].ctx # None => life[mapsrc'[x].ctx] = "live"

\* What the counts show.
Grows(x) ==
    \A o \in Objects : /\ rc'[o] >= rc[o]
                       /\ rc'[o] > rc[o] => life[o] = "live" \/ o = x

LEMMA BornKeeps ==
  ASSUME IInv, NEW t \in Threads, NEW x \in Devices \union Contexts \union Maps, life[x] = "none",
         Others(x), BornWell(x), Grows(x), rc'[x] > 0, Types',
         NEW a \in Objects \union {None}, NEW b \in Objects \union {None}, Pushes(t, a, b),
         a \notin Surfaces, b \notin Surfaces,
         \A f \in Frames : Paired(frame'[f]),
         \A o \in Objects : rc'[o] + HeldOf(o) + Shown(o)
            = rc[o] + HeldOf(o)' + Shown(o)' + BornRefs(x, o) + Is(a, o) + Is(b, o)
  PROVE  IInv'
<1>1. Types /\ Lived /\ Fields /\ Ledger /\ Companions /\ Pools /\ Ranked /\ Alive
  BY AllAlive DEF IInv
<1>2. x \in Objects
  BY Kinds
<1>3. life'[x] = "live" /\ \A o \in Objects \ {x} : life'[o] = life[o]
  BY <1>1, <1>2 DEF Others, Types
<1>4. /\ Ranked'
      /\ \A o \in Objects : Held(o)' = Held(o) + BornRefs(x, o)
  <2>1. \A o \in (Devices \union Contexts \union Maps) \ {x} : Keeps(o)
    BY <1>3, Kinds DEF Keeps, Others
  <2>2. /\ x \in Devices \union Contexts => source'[x] # x
        /\ x \in Contexts \union Maps => parent'[x] # x
        /\ x \in Maps => mapsrc'[x].buf # x /\ mapsrc'[x].ctx # x
    BY <1>2, Kinds DEF BornWell
  <2> QED BY <1>1, <1>3, <2>1, <2>2, Birth
<1>5. ASSUME NEW o \in Objects  PROVE rc'[o] = RefsTo(o)'
  <2>1. /\ rc[o] \in Nat /\ rc'[o] \in Nat /\ HeldOf(o) \in Nat /\ Shown(o) \in Nat /\ Held(o) \in Nat
        /\ HeldOf(o)' \in Nat /\ Shown(o)' \in Nat /\ Held(o)' \in Nat /\ Is(a, o) \in Nat /\ Is(b, o) \in Nat
    BY <1>1, Sums, SumsNat, IsInt DEF Types
  <2>2. BornRefs(x, o) \in Nat
    <3>1. \A y : Is(y, o) \in Nat
      BY IsInt
    <3> QED BY <3>1 DEF BornRefs
  <2>3. Held(o)' = Held(o) + BornRefs(x, o)
    BY <1>4
  <2>4. rc'[o] + HeldOf(o) + Shown(o)
            = rc[o] + HeldOf(o)' + Shown(o)' + BornRefs(x, o) + Is(a, o) + Is(b, o)
    OBVIOUS
  <2>5. rc'[o] + HeldOf(o) + Shown(o) + Held(o)
            = rc[o] + HeldOf(o)' + Shown(o)' + Held(o)' + Is(a, o) + Is(b, o)
    BY <2>1, <2>2, <2>3, <2>4
  <2> QED BY <1>1, <2>5, Booked
<1>6. Ledger'
  BY <1>5 DEF Ledger
<1>7. Lived'
  <2> SUFFICES ASSUME NEW o \in Objects
               PROVE  (life'[o] = "live" <=> rc'[o] > 0) /\ (life'[o] = "idle" => o \in Surfaces)
    BY DEF Lived
  <2>1. CASE o = x
    BY <1>3, <2>1
  <2>2. CASE o # x
    <3>1. rc'[o] >= rc[o] /\ (rc'[o] > rc[o] => life[o] = "live") /\ life'[o] = life[o]
      BY <1>3, <2>2 DEF Grows
    <3>2. rc[o] \in Nat /\ rc'[o] \in Nat
      BY <1>1 DEF Types
    <3> QED BY <1>1, <3>1, <3>2 DEF Lived
  <2> QED BY <2>1, <2>2
<1>8. Fields'
  <2>1. ASSUME NEW d \in Devices  PROVE source'[d] \in Devices \union {None}
    BY <1>1 DEF Others, BornWell, Fields
  <2>2. ASSUME NEW c \in Contexts  PROVE source'[c] \in Contexts \union {None}
    BY <1>1 DEF Others, BornWell, Fields
  <2>3. ASSUME NEW c \in Contexts, life'[c] # "none"  PROVE parent'[c] \in Devices
    BY <1>1, <1>3, <2>3, Kinds DEF Others, BornWell, Fields
  <2>4. ASSUME NEW m \in Maps, life'[m] # "none"  PROVE parent'[m] \in Contexts
    BY <1>1, <1>3, <2>4, Kinds DEF Others, BornWell, Fields
  <2>5. ASSUME NEW s \in Surfaces, life'[s] # "none"
        PROVE  parent'[s] \in Contexts /\ pool'[parent'[s]] = "open"
    BY <1>1, <1>3, <2>5, Kinds DEF Others, Fields
  <2>6. ASSUME NEW o \in Objects, life'[o] = "none"
        PROVE  /\ parent'[o] = None
               /\ o \in Devices \union Contexts => source'[o] = None
               /\ o \in Contexts => stage'[o] = "new" /\ pool'[o] = "none"
               /\ o \in Maps => mapsrc'[o] = Empty
    <3>1. o # x /\ life[o] = "none"
      BY <1>3, <2>6
    <3> QED BY <1>1, <3>1 DEF Others, Fields
  <2> QED BY <2>1, <2>2, <2>3, <2>4, <2>5, <2>6 DEF Fields
<1>9. Companions'
  <2>1. \A s \in Surfaces : parent'[s] = parent[s]
    BY Kinds DEF Others
  <2>2. ASSUME NEW m \in Maps, life'[m] = "live"  PROVE Paired(mapsrc'[m])
    BY <1>1, <1>3, <2>2, Kinds DEF Others, BornWell, Companions
  <2> QED BY <2>1, <2>2 DEF Companions, Paired
<1>10. OpenPools'
  <2> SUFFICES ASSUME NEW c \in Contexts, life'[c] = "live"
               PROVE  /\ stage'[c] = "ready" /\ source'[c] = None => pool'[c] = "open"
                      /\ source'[c] # None => stage'[source'[c]] = "ready"
    BY DEF OpenPools
  <2>1. CASE c = x
    <3>1. source'[c] # None => stage[source'[c]] = "ready" /\ life[source'[c]] = "live" /\ source'[c] \in Contexts
      BY <2>1 DEF BornWell
    <3>2. source'[c] # None => stage'[source'[c]] = "ready"
      BY <2>1, <3>1 DEF Others
    <3> QED BY <2>1, <3>2 DEF BornWell
  <2>2. CASE c # x
    <3>1. /\ life[c] = "live" /\ source'[c] = source[c] /\ pool'[c] = pool[c] /\ stage'[c] = stage[c]
          /\ source[c] \in Contexts \union {None}
      BY <1>1, <1>3, <2>2, Kinds DEF Others, Fields
    <3>2. source[c] # None => source[c] # x
      BY <1>1, <3>1 DEF Alive
    <3>3. source[c] # None => stage'[source[c]] = stage[source[c]]
      BY <3>1, <3>2 DEF Others
    <3> QED BY <1>1, <3>1, <3>3 DEF Pools
  <2> QED BY <2>1, <2>2
<1>11. ApiStep(t)
  <2>1. \A o \in Objects : life[o] \in {"live", "dying"} =>
          /\ life'[o] = life[o] /\ parent'[o] = parent[o]
          /\ o \in Devices \union Contexts => source'[o] = source[o]
    BY <1>3 DEF Others
  <2>2. \A o \in Objects : life'[o] = "dying" => life[o] = "dying"
    BY <1>3
  <2> QED BY <2>1, <2>2 DEF ApiStep, Others
<1> QED BY <1>4, <1>6, <1>7, <1>8, <1>9, <1>10, <1>11, Api

\* Up to five references are made, to objects in use or to a new one.
Fit(y, x) == y = None \/ y = x \/ life[y] = "live"

Added(y1, y2, y3, y4, y5) ==
    /\ rc' \in [Objects -> Nat]
    /\ \A o \in Objects : rc'[o] = rc[o] + Is(y1, o) + Is(y2, o) + Is(y3, o) + Is(y4, o) + Is(y5, o)

LEMMA AddedGrows ==
  ASSUME Types, NEW x, NEW y1, NEW y2, NEW y3, NEW y4, NEW y5, Added(y1, y2, y3, y4, y5),
         Fit(y1, x), Fit(y2, x), Fit(y3, x), Fit(y4, x), Fit(y5, x)
  PROVE  Grows(x)
<1> SUFFICES ASSUME NEW o \in Objects
             PROVE  rc'[o] >= rc[o] /\ (rc'[o] > rc[o] => life[o] = "live" \/ o = x)
  BY DEF Grows
<1>1. /\ Is(y1, o) \in Nat /\ Is(y2, o) \in Nat /\ Is(y3, o) \in Nat /\ Is(y4, o) \in Nat /\ Is(y5, o) \in Nat
      /\ rc[o] \in Nat
  BY IsInt DEF Types
<1>2. rc'[o] = rc[o] + Is(y1, o) + Is(y2, o) + Is(y3, o) + Is(y4, o) + Is(y5, o)
  BY DEF Added
<1>3. rc'[o] > rc[o] => o \in {y1, y2, y3, y4, y5}
  <2>1. o \notin {y1, y2, y3, y4, y5} =>
           Is(y1, o) = 0 /\ Is(y2, o) = 0 /\ Is(y3, o) = 0 /\ Is(y4, o) = 0 /\ Is(y5, o) = 0
    BY DEF Is
  <2> QED BY <1>1, <1>2, <2>1
<1>4. o # None
  BY HwContextAssumption
<1> QED BY <1>1, <1>2, <1>3, <1>4 DEF Fit

LEMMA AddedOne ==
  ASSUME Types, NEW y1, rc' = Plus(rc, <<y1>>)
  PROVE  Added(y1, None, None, None, None)
<1>1. ASSUME NEW o \in Objects
      PROVE  /\ rc'[o] = rc[o] + Is(y1, o) + Is(None, o) + Is(None, o) + Is(None, o) + Is(None, o)
             /\ rc'[o] \in Nat
  <2>1. rc[o] \in Nat
    BY DEF Types
  <2>2. rc'[o] = rc[o] + Is(y1, o)
    BY <2>1, PlusA
  <2> QED BY <2>1, <2>2, IsInt
<1>2. rc' \in [Objects -> Nat]
  BY <1>1, PlusType
<1> QED BY <1>1, <1>2 DEF Added

LEMMA AddedTwo ==
  ASSUME Types, NEW y1, NEW y2, rc' = Plus(rc, <<y1, y2>>)
  PROVE  Added(y1, y2, None, None, None)
<1>1. ASSUME NEW o \in Objects
      PROVE  /\ rc'[o] = rc[o] + Is(y1, o) + Is(y2, o) + Is(None, o) + Is(None, o) + Is(None, o)
             /\ rc'[o] \in Nat
  <2>1. rc[o] \in Nat
    BY DEF Types
  <2>2. rc'[o] = rc[o] + Is(y1, o) + Is(y2, o)
    BY <2>1, PlusAB
  <2> QED BY <2>1, <2>2, IsInt
<1>2. rc' \in [Objects -> Nat]
  BY <1>1, PlusType
<1> QED BY <1>1, <1>2 DEF Added

LEMMA AddedThree ==
  ASSUME Types, NEW y1, NEW y2, NEW y3, rc' = Plus(rc, <<y1, y2, y3>>)
  PROVE  Added(y1, y2, y3, None, None)
<1>1. ASSUME NEW o \in Objects
      PROVE  /\ rc'[o] = rc[o] + Is(y1, o) + Is(y2, o) + Is(y3, o) + Is(None, o) + Is(None, o)
             /\ rc'[o] \in Nat
  <2>1. rc[o] \in Nat
    BY DEF Types
  <2>2. rc'[o] = rc[o] + Is(y1, o) + Is(y2, o) + Is(y3, o)
    BY <2>1, PlusABC
  <2> QED BY <2>1, <2>2, IsInt
<1>2. rc' \in [Objects -> Nat]
  BY <1>1, PlusType
<1> QED BY <1>1, <1>2 DEF Added

\* With a new object, the reference to it is kept or dropped.
Settled(t, x, a) ==
    /\ Pushes(t, a, None)
    /\ held' \in [Devices \union Contexts -> 0 .. MaxHandles]
    /\ \A o \in Objects : HeldOf(o)' + Is(a, o) = HeldOf(o) + Is(x, o)

LEMMA KeptOrDropped ==
  ASSUME Types, Alive, NEW t \in Threads, todo[t] = <<>>,
         NEW x \in Devices \union Contexts, life[x] # "live",
         \/ Keep(x) /\ todo' = todo
         \/ Push(t, Drop(x)) /\ held' = held
  PROVE  \E a \in {None, x} : Settled(t, x, a)
<1>0. x \in Objects
  BY Kinds
<1>1. CASE Keep(x) /\ todo' = todo
  <2>1. Pushes(t, None, None)
    BY <1>1, PushesFew
  <2>2. /\ held' \in [Devices \union Contexts -> 0 .. MaxHandles]
        /\ \A o \in Objects : HeldOf(o)' = HeldOf(o) + Is(x, o)
    BY <1>1, NewHandle
  <2>3. \A o \in Objects : HeldOf(o) \in Nat /\ Is(x, o) \in Nat /\ Is(None, o) = 0
    BY NatParts, IsInt
  <2> QED BY <2>1, <2>2, <2>3 DEF Settled
<1>2. CASE Push(t, Drop(x)) /\ held' = held
  <2>1. Pushes(t, x, None)
    BY <1>0, <1>2, PushesFew
  <2>2. /\ held' \in [Devices \union Contexts -> 0 .. MaxHandles]
        /\ \A o \in Objects : HeldOf(o)' = HeldOf(o) + 0
    BY <1>2, SameHandles
  <2>3. \A o \in Objects : HeldOf(o) \in Nat /\ Is(x, o) \in Nat
    BY NatParts, IsInt
  <2> QED BY <2>1, <2>2, <2>3 DEF Settled
<1> QED BY <1>1, <1>2

\* A device or context is created: the frames are as before.
LEMMA CreatedKeeps ==
  ASSUME IInv, NEW t \in Threads, NEW x \in Devices \union Contexts, life[x] = "none",
         Others(x), BornWell(x), frame' = frame, mapsrc' = mapsrc, parent'[x] \in Devices \union {None},
         parent' \in [Objects -> Devices \union Contexts \union {None}],
         source' \in [Devices \union Contexts -> Devices \union Contexts \union {None}],
         stage' \in [Contexts -> {"new", "ready", "failed"}],
         x \in Devices => parent'[x] = None,
         NEW a \in {None, x}, Settled(t, x, a), Added(x, parent'[x], source'[x], None, None)
  PROVE  IInv'
<1>1. Types /\ Lived /\ Fields /\ Ledger /\ Companions /\ Pools /\ Ranked /\ Alive
  BY AllAlive DEF IInv
<1>2. x \in Objects /\ x \notin Surfaces /\ x \notin Maps /\ None \notin Surfaces
  BY Kinds
<1>3. rc'[x] > 0
  <2>1. rc[x] \in Nat /\ Is(x, x) = 1 /\ \A y : Is(y, x) \in Nat
    BY <1>1, <1>2 DEF Types, Is
  <2> QED BY <1>2, <2>1 DEF Added
<1>4. Types'
  <2>1. life' \in [Objects -> Lives]
    BY <1>1 DEF Types, Others, Lives
  <2>2. todo' \in Todo /\ Few(todo')
    BY <1>1, <1>2, PushTwo DEF Settled
  <2> QED BY <1>1, <2>1, <2>2 DEF Types, Settled, Added, Others
<1>5. Grows(x)
  <2>1. Fit(x, x) /\ Fit(parent'[x], x) /\ Fit(source'[x], x) /\ Fit(None, x)
    BY Kinds DEF Fit, BornWell
  <2> QED BY <1>1, <2>1, AddedGrows
<1>6. \A f \in Frames : Paired(frame'[f])
  BY <1>1 DEF Companions
<1>7. ASSUME NEW o \in Objects
      PROVE  rc'[o] + HeldOf(o) + Shown(o)
                = rc[o] + HeldOf(o)' + Shown(o)' + BornRefs(x, o) + Is(a, o) + Is(None, o)
  <2>1. BornRefs(x, o) = Is(source'[x], o) + Is(parent'[x], o)
    <3>1. Is(source'[x], o) \in Nat /\ Is(parent'[x], o) \in Nat /\ Is(None, o) = 0
      BY IsInt
    <3> QED BY <1>2, <3>1, Kinds DEF BornRefs
  <2>2. Shown(o)' = Shown(o) /\ Shown(o) \in Nat /\ HeldOf(o) \in Nat /\ rc[o] \in Nat
    BY <1>1, FramesSame, Sums DEF Types
  <2>3. HeldOf(o)' + Is(a, o) = HeldOf(o) + Is(x, o) /\ HeldOf(o)' \in Nat
    BY <1>4, SumsNat DEF Settled
  <2>4. rc'[o] = rc[o] + Is(x, o) + Is(parent'[x], o) + Is(source'[x], o) + Is(None, o) + Is(None, o)
    BY DEF Added
  <2>5. /\ Is(x, o) \in Nat /\ Is(a, o) \in Nat /\ Is(None, o) = 0
        /\ Is(source'[x], o) \in Nat /\ Is(parent'[x], o) \in Nat
    BY IsInt
  <2> QED BY <2>1, <2>2, <2>3, <2>4, <2>5
<1> QED BY <1>2, <1>3, <1>4, <1>5, <1>6, <1>7, BornKeeps DEF Settled

LEMMA DeviceDeriveNewKeeps ==
  ASSUME IInv, NEW t \in Threads, NEW d \in Devices, NEW src \in Devices, DeviceDeriveNew(t, d, src)
  PROVE  IInv'
<1>1. Types /\ Fields /\ Alive
  BY AllAlive DEF IInv
<1>2. /\ todo[t] = <<>> /\ held[src] > 0 /\ life[d] = "none" /\ life' = [life EXCEPT ![d] = "live"]
      /\ parent' = parent /\ stage' = stage /\ pool' = pool /\ mapsrc' = mapsrc /\ frame' = frame
  BY DEF DeviceDeriveNew, Idle, Born
<1>3. d \in Objects /\ parent[d] = None /\ source[d] = None /\ life[src] = "live" /\ src # None
  BY <1>1, <1>2, Kinds DEF Fields, Alive
<1>4. PICK a \in {None, d} : Settled(t, d, a)
  <2>1. \/ Keep(d) /\ todo' = todo
        \/ Push(t, Drop(d)) /\ held' = held
    BY DEF DeviceDeriveNew
  <2> QED BY <1>1, <1>2, <2>1, KeptOrDropped
<1>5. \/ source' = [source EXCEPT ![d] = src] /\ rc' = Plus(rc, <<d, src>>)
      \/ source' = source /\ rc' = Plus(rc, <<d>>)
  BY DEF DeviceDeriveNew
<1>6. /\ source' \in [Devices \union Contexts -> Devices \union Contexts \union {None}]
      /\ source'[d] \in {src, None} /\ \A o \in Devices \union Contexts : o # d => source'[o] = source[o]
  BY <1>1, <1>3, <1>5 DEF Types
<1>7. Added(d, parent'[d], source'[d], None, None)
  <2>1. CASE source' = [source EXCEPT ![d] = src] /\ rc' = Plus(rc, <<d, src>>)
    <3>1. Added(d, src, None, None, None) /\ source'[d] = src /\ parent'[d] = None
      BY <1>1, <1>2, <1>3, <2>1, AddedTwo DEF Types
    <3>2. \A o \in Objects : rc[o] \in Nat /\ Is(d, o) \in Nat /\ Is(src, o) \in Nat /\ Is(None, o) = 0
      BY <1>1, IsInt DEF Types
    <3> QED BY <3>1, <3>2 DEF Added
  <2>2. CASE source' = source /\ rc' = Plus(rc, <<d>>)
    BY <1>1, <1>2, <1>3, <2>2, AddedOne
  <2> QED BY <1>5, <2>1, <2>2
<1>8. Others(d)
  BY <1>2, <1>6 DEF Others
<1>9. BornWell(d)
  BY <1>3, <1>6, Kinds DEF BornWell
<1>10. /\ parent \in [Objects -> Devices \union Contexts \union {None}]
       /\ source \in [Devices \union Contexts -> Devices \union Contexts \union {None}]
       /\ stage \in [Contexts -> {"new", "ready", "failed"}]
  BY <1>1 DEF Types
<1> QED BY <1>2, <1>3, <1>4, <1>6, <1>7, <1>8, <1>9, <1>10, Kinds, CreatedKeeps

LEMMA ContextAllocKeeps ==
  ASSUME IInv, NEW t \in Threads, NEW c \in Contexts, NEW d \in Devices, ContextAlloc(t, c, d)
  PROVE  IInv'
<1>1. Types /\ Fields /\ Alive
  BY AllAlive DEF IInv
<1>2. /\ todo[t] = <<>> /\ held[d] > 0 /\ life[c] = "none" /\ life' = [life EXCEPT ![c] = "live"]
      /\ parent' = [parent EXCEPT ![c] = d] /\ rc' = Plus(rc, <<c, d>>) /\ Keep(c)
      /\ source' = source /\ stage' = stage /\ pool' = pool /\ mapsrc' = mapsrc /\ frame' = frame /\ todo' = todo
  BY DEF ContextAlloc, Idle, Born
<1>3. c \in Objects /\ source[c] = None /\ stage[c] = "new" /\ life[d] = "live"
  BY <1>1, <1>2, Kinds DEF Fields, Alive
<1>4. PICK a \in {None, c} : Settled(t, c, a)
  BY <1>1, <1>2, KeptOrDropped
<1>5. /\ parent' \in [Objects -> Devices \union Contexts \union {None}]
      /\ parent'[c] = d /\ \A o \in Objects : o # c => parent'[o] = parent[o]
  BY <1>1, <1>2, <1>3 DEF Types
<1>6. Added(c, parent'[c], source'[c], None, None)
  BY <1>1, <1>2, <1>3, <1>5, AddedTwo
<1>7. Others(c)
  BY <1>2, <1>5 DEF Others
<1>8. BornWell(c)
  BY <1>2, <1>3, <1>5, Kinds DEF BornWell
<1>10. /\ parent \in [Objects -> Devices \union Contexts \union {None}]
       /\ source \in [Devices \union Contexts -> Devices \union Contexts \union {None}]
       /\ stage \in [Contexts -> {"new", "ready", "failed"}]
  BY <1>1 DEF Types
<1> QED BY <1>2, <1>4, <1>5, <1>6, <1>7, <1>8, <1>10, Kinds, CreatedKeeps

LEMMA DeviceCreateKeeps ==
  ASSUME IInv, NEW t \in Threads, NEW d \in Devices, DeviceCreate(t, d)
  PROVE  IInv'
<1>1. Types /\ Fields /\ Lived /\ Alive
  BY AllAlive DEF IInv
<1>2. /\ todo[t] = <<>> /\ life[d] = "none" /\ life' = [life EXCEPT ![d] = "live"]
      /\ rc' = [rc EXCEPT ![d] = 1] /\ source' = source
      /\ parent' = parent /\ stage' = stage /\ pool' = pool /\ mapsrc' = mapsrc /\ frame' = frame
  BY DEF DeviceCreate, Idle, Born
<1>3. d \in Objects /\ parent[d] = None /\ source[d] = None /\ rc[d] = 0
  BY <1>1, <1>2, Kinds DEF Fields, Lived, Types
<1>4. PICK a \in {None, d} : Settled(t, d, a)
  <2>1. \/ Keep(d) /\ todo' = todo
        \/ Push(t, Drop(d)) /\ held' = held
    BY DEF DeviceCreate
  <2> QED BY <1>1, <1>2, <2>1, KeptOrDropped
<1>5. Added(d, parent'[d], source'[d], None, None)
  <2>1. \A o \in Objects : rc'[o] = rc[o] + Is(d, o) /\ rc[o] \in Nat /\ rc'[o] \in Nat
    BY <1>1, <1>2, <1>3 DEF Types, Is
  <2>2. \A o \in Objects : Is(d, o) \in Nat /\ Is(None, o) = 0
    BY IsInt
  <2>3. rc' \in [Objects -> Nat]
    BY <1>1, <1>2 DEF Types
  <2> QED BY <1>2, <1>3, <2>1, <2>2, <2>3 DEF Added
<1>6. Others(d)
  BY <1>2 DEF Others
<1>7. BornWell(d)
  BY <1>2, <1>3, Kinds DEF BornWell
<1>10. /\ parent \in [Objects -> Devices \union Contexts \union {None}]
       /\ source \in [Devices \union Contexts -> Devices \union Contexts \union {None}]
       /\ stage \in [Contexts -> {"new", "ready", "failed"}]
  BY <1>1 DEF Types
<1> QED BY <1>2, <1>3, <1>4, <1>5, <1>6, <1>7, <1>10, Kinds, CreatedKeeps

LEMMA ContextDeriveNewKeeps ==
  ASSUME IInv, NEW t \in Threads, NEW c \in Contexts, NEW d \in Devices, NEW src \in Contexts,
         ContextDeriveNew(t, c, d, src)
  PROVE  IInv'
<1>1. Types /\ Fields /\ Alive /\ Companions
  BY AllAlive DEF IInv
<1>2. /\ todo[t] = <<>> /\ held[src] > 0 /\ held[d] > 0 /\ life[c] = "none" /\ stage[src] = "ready"
      /\ life' = [life EXCEPT ![c] = "live"] /\ parent' = [parent EXCEPT ![c] = d]
      /\ pool' = pool /\ mapsrc' = mapsrc /\ frame' = frame
  BY DEF ContextDeriveNew, Idle, Born
<1>3. /\ c \in Objects /\ source[c] = None /\ stage[c] = "new" /\ life[d] = "live" /\ life[src] = "live"
      /\ src \in Objects /\ c \notin Surfaces /\ src \notin Surfaces /\ src # None
  BY <1>1, <1>2, Kinds DEF Fields, Alive
<1>5. /\ parent' \in [Objects -> Devices \union Contexts \union {None}]
      /\ parent'[c] = d /\ \A o \in Objects : o # c => parent'[o] = parent[o]
  BY <1>1, <1>2, <1>3 DEF Types
<1>6. CASE /\ source' = [source EXCEPT ![c] = src] /\ stage' = [stage EXCEPT ![c] = "ready"]
           /\ rc' = Plus(rc, <<c, d, src>>) /\ Keep(c) /\ todo' = todo
  <2>1. PICK a \in {None, c} : Settled(t, c, a)
    BY <1>1, <1>2, <1>6, KeptOrDropped
  <2>2. /\ source' \in [Devices \union Contexts -> Devices \union Contexts \union {None}]
        /\ source'[c] = src /\ \A o \in Devices \union Contexts : o # c => source'[o] = source[o]
    BY <1>1, <1>6 DEF Types
  <2>3. /\ stage' \in [Contexts -> {"new", "ready", "failed"}]
        /\ \A o \in Contexts : o # c => stage'[o] = stage[o]
    BY <1>1, <1>6 DEF Types
  <2>4. Added(c, parent'[c], source'[c], None, None)
    BY <1>1, <1>5, <1>6, <2>2, AddedThree
  <2>5. Others(c)
    BY <1>2, <1>5, <2>2, <2>3 DEF Others
  <2>6. BornWell(c)
    BY <1>2, <1>3, <1>5, <2>2, Kinds DEF BornWell
  <2> QED BY <1>2, <1>5, <2>1, <2>2, <2>3, <2>4, <2>5, <2>6, Kinds, CreatedKeeps
<1>7. CASE rc' = Plus(rc, <<c, d>>) /\ Push(t, Drop(c)) /\ source' = source /\ stage' = stage /\ held' = held
  <2>1. PICK a \in {None, c} : Settled(t, c, a)
    BY <1>1, <1>2, <1>7, KeptOrDropped
  <2>2. Added(c, parent'[c], source'[c], None, None)
    BY <1>1, <1>3, <1>5, <1>7, AddedTwo
  <2>3. Others(c)
    BY <1>2, <1>5, <1>7 DEF Others
  <2>4. BornWell(c)
    BY <1>2, <1>3, <1>5, <1>7, Kinds DEF BornWell
  <2>10. /\ parent \in [Objects -> Devices \union Contexts \union {None}]
         /\ source \in [Devices \union Contexts -> Devices \union Contexts \union {None}]
         /\ stage \in [Contexts -> {"new", "ready", "failed"}]
    BY <1>1 DEF Types
  <2> QED BY <1>2, <1>5, <1>7, <2>1, <2>2, <2>3, <2>4, <2>10, Kinds, CreatedKeeps
<1>8. CASE /\ rc' = Plus(rc, <<c, d, src>>) /\ Push(t, Drop(src) \o Drop(c))
           /\ source' = source /\ stage' = stage /\ held' = held
  <2>1. Pushes(t, src, c)
    BY <1>2, <1>8 DEF Push, Pushes
  <2>2. Added(c, d, src, None, None)
    BY <1>1, <1>8, AddedThree
  <2>3. Others(c)
    BY <1>2, <1>5, <1>8 DEF Others
  <2>4. BornWell(c)
    BY <1>2, <1>3, <1>5, <1>8, Kinds DEF BornWell
  <2>5. Types'
    <3>1. life' \in [Objects -> Lives]
      BY <1>1, <1>2 DEF Types, Lives
    <3>2. todo' \in Todo /\ Few(todo')
      BY <1>1, <1>3, <2>1, PushTwo
    <3> QED BY <1>1, <1>2, <1>5, <1>8, <2>2, <3>1, <3>2 DEF Types, Added
  <2>6. Grows(c)
    <3>1. Fit(c, c) /\ Fit(d, c) /\ Fit(src, c) /\ Fit(None, c)
      BY <1>3 DEF Fit
    <3> QED BY <1>1, <2>2, <3>1, AddedGrows
  <2>7. rc'[c] > 0
    <3>1. rc[c] \in Nat /\ Is(c, c) = 1 /\ \A y : Is(y, c) \in Nat
      BY <1>1, <1>3 DEF Types, Is
    <3> QED BY <1>3, <2>2, <3>1 DEF Added
  <2>8. \A f \in Frames : Paired(frame'[f])
    BY <1>1, <1>2 DEF Companions
  <2>9. ASSUME NEW o \in Objects
        PROVE  rc'[o] + HeldOf(o) + Shown(o)
                  = rc[o] + HeldOf(o)' + Shown(o)' + BornRefs(c, o) + Is(src, o) + Is(c, o)
    <3>1. /\ Is(c, o) \in Nat /\ Is(d, o) \in Nat /\ Is(src, o) \in Nat /\ Is(None, o) = 0
      BY IsInt
    <3>2. BornRefs(c, o) = Is(d, o)
      BY <1>3, <1>5, <1>8, <3>1, Kinds DEF BornRefs
    <3>3. Shown(o)' = Shown(o) /\ Shown(o) \in Nat /\ HeldOf(o) \in Nat /\ rc[o] \in Nat /\ HeldOf(o)' = HeldOf(o)
      BY <1>1, <1>2, <1>8, FramesSame, HandlesSame, Sums DEF Types
    <3>4. rc'[o] = rc[o] + Is(c, o) + Is(d, o) + Is(src, o) + Is(None, o) + Is(None, o)
      BY <2>2 DEF Added
    <3> QED BY <3>1, <3>2, <3>3, <3>4
  <2> QED BY <1>2, <1>3, <2>1, <2>3, <2>4, <2>5, <2>6, <2>7, <2>8, <2>9, BornKeeps
<1> QED BY <1>6, <1>7, <1>8 DEF ContextDeriveNew

-----------------------------------------------------------------------------
\* Surfaces of open pools and mappings come into use.
Joined(S, B) ==
    /\ life' = [o \in Objects |-> IF o \in S \union B THEN "live" ELSE life[o]]
    /\ pool' = pool /\ source' = source /\ stage' = stage /\ held' = held
    /\ \A o \in Objects : o \notin S \union B => parent'[o] = parent[o]
    /\ \A m \in Maps : m \notin B => mapsrc'[m] = mapsrc[m]

JoinedWell(S, B) ==
    /\ \A s \in S : /\ life[s] \in {"none", "idle"} /\ parent'[s] \in Contexts /\ pool[parent'[s]] = "open"
                    /\ life[s] = "idle" => parent'[s] = parent[s]
    /\ \A m \in B : life[m] = "none" /\ parent'[m] \in Contexts

Pairing(fr) == fr.buf \in Surfaces => fr.ctx = parent'[fr.buf]

JoinedGrows(S, B) ==
    /\ \A o \in Objects : rc'[o] >= rc[o] /\ (rc'[o] > rc[o] => life[o] = "live" \/ o \in S \union B)
    /\ \A o \in S \union B : rc'[o] > 0

\* Surfaces that nothing refers to may get another context.
LEMMA StillPaired ==
  ASSUME Types, Alive, NEW S, \A s \in S : life[s] # "live",
         \A o \in Surfaces : o \notin S => parent'[o] = parent[o],
         NEW fr, Paired(fr), fr.buf # None => life[fr.buf] = "live"
  PROVE  Pairing(fr)
BY Kinds DEF Paired, Pairing

LEMMA JoinedKeeps ==
  ASSUME IInv, NEW t \in Threads, NEW S \in SUBSET Surfaces, NEW B \in SUBSET Maps,
         Joined(S, B), JoinedWell(S, B), JoinedGrows(S, B), Types', Ranked',
         NEW a \in Objects \union {None}, NEW b \in Objects \union {None}, Pushes(t, a, b),
         a \in Surfaces /\ parent'[a] # None => b = parent'[a], b \notin Surfaces,
         \A f \in Frames : Pairing(frame'[f]),
         \A m \in B : Pairing(mapsrc'[m]),
         \A o \in Objects : rc'[o] + Shown(o) + Held(o)
            = rc[o] + Shown(o)' + Held(o)' + Is(a, o) + Is(b, o)
  PROVE  IInv'
<1>1. Types /\ Lived /\ Fields /\ Ledger /\ Companions /\ Pools /\ Ranked /\ Alive
  BY AllAlive DEF IInv
<1>2. S \subseteq Objects /\ B \subseteq Objects
  BY Kinds
<1>3. \A o \in Objects : /\ o \in S \union B => life'[o] = "live"
                         /\ o \notin S \union B => life'[o] = life[o]
  BY DEF Joined
<1>4. \A o \in S \union B : life[o] \in {"none", "idle"}
  BY DEF JoinedWell
<1>5. ASSUME NEW o \in Objects  PROVE rc'[o] = RefsTo(o)'
  <2>1. /\ rc[o] \in Nat /\ rc'[o] \in Nat /\ HeldOf(o) \in Nat /\ Shown(o) \in Nat /\ Held(o) \in Nat
        /\ Shown(o)' \in Nat /\ Held(o)' \in Nat /\ Is(a, o) \in Nat /\ Is(b, o) \in Nat
    BY <1>1, Sums, SumsNat, IsInt DEF Types
  <2>2. HeldOf(o)' = HeldOf(o)
    BY HandlesSame DEF Joined
  <2>3. rc'[o] + HeldOf(o) + Shown(o) + Held(o)
            = rc[o] + HeldOf(o)' + Shown(o)' + Held(o)' + Is(a, o) + Is(b, o)
    BY <2>1, <2>2
  <2> QED BY <1>1, <2>3, Booked
<1>6. Ledger'
  BY <1>5 DEF Ledger
<1>7. Lived'
  <2> SUFFICES ASSUME NEW o \in Objects
               PROVE  (life'[o] = "live" <=> rc'[o] > 0) /\ (life'[o] = "idle" => o \in Surfaces)
    BY DEF Lived
  <2>1. CASE o \in S \union B
    BY <1>3, <2>1 DEF JoinedGrows
  <2>2. CASE o \notin S \union B
    <3>1. rc'[o] >= rc[o] /\ (rc'[o] > rc[o] => life[o] = "live") /\ life'[o] = life[o]
      BY <1>3, <2>2 DEF JoinedGrows
    <3>2. rc[o] \in Nat /\ rc'[o] \in Nat
      BY <1>1 DEF Types
    <3> QED BY <1>1, <3>1, <3>2 DEF Lived
  <2> QED BY <2>1, <2>2
<1>8. Fields'
  <2>1. /\ \A d \in Devices : source'[d] \in Devices \union {None}
        /\ \A c \in Contexts : source'[c] \in Contexts \union {None}
    BY <1>1 DEF Joined, Fields
  <2>2. ASSUME NEW c \in Contexts, life'[c] # "none"  PROVE parent'[c] \in Devices
    BY <1>1, <1>3, <2>2, Kinds DEF Joined, Fields
  <2>3. ASSUME NEW m \in Maps, life'[m] # "none"  PROVE parent'[m] \in Contexts
    BY <1>1, <1>3, <2>3, Kinds DEF Joined, JoinedWell, Fields
  <2>4. ASSUME NEW s \in Surfaces, life'[s] # "none"
        PROVE  parent'[s] \in Contexts /\ pool'[parent'[s]] = "open"
    BY <1>1, <1>3, <2>4, Kinds DEF Joined, JoinedWell, Fields
  <2>5. ASSUME NEW o \in Objects, life'[o] = "none"
        PROVE  /\ parent'[o] = None
               /\ o \in Devices \union Contexts => source'[o] = None
               /\ o \in Contexts => stage'[o] = "new" /\ pool'[o] = "none"
               /\ o \in Maps => mapsrc'[o] = Empty
    <3>1. o \notin S \union B /\ life[o] = "none"
      BY <1>3, <2>5
    <3> QED BY <1>1, <3>1 DEF Joined, Fields
  <2> QED BY <2>1, <2>2, <2>3, <2>4, <2>5 DEF Fields
<1>9. Companions'
  <2>1. ASSUME NEW m \in Maps, life'[m] = "live"  PROVE Pairing(mapsrc'[m])
    <3>1. CASE m \in B
      BY <3>1
    <3>2. CASE m \notin B
      <4>1. m \notin S \union B /\ m \in Objects
        BY <3>2, Kinds
      <4>2. mapsrc'[m] = mapsrc[m] /\ life[m] = "live"
        BY <1>3, <2>1, <3>2, <4>1 DEF Joined
      <4>3. Paired(mapsrc[m]) /\ (mapsrc[m].buf # None => life[mapsrc[m].buf] = "live")
        BY <1>1, <4>2 DEF Companions, Alive
      <4>4. \A o \in Surfaces : o \notin S => parent'[o] = parent[o]
        BY Kinds DEF Joined
      <4>5. \A s \in S : life[s] # "live"
        BY <1>4
      <4> QED BY <1>1, <4>2, <4>3, <4>4, <4>5, StillPaired
    <3> QED BY <3>1, <3>2
  <2> QED BY <2>1 DEF Companions, Paired, Pairing
<1>10. OpenPools'
  <2>1. \A c \in Contexts : c \notin S \union B /\ c \in Objects
    BY Kinds
  <2>2. \A c \in Contexts : life'[c] = life[c]
    BY <1>3, <2>1
  <2> QED BY <1>1, <2>2 DEF OpenPools, Pools, Joined
<1>11. ApiStep(t)
  <2>1. \A o \in Objects : life[o] \in {"live", "dying"} =>
          /\ life'[o] = life[o] /\ parent'[o] = parent[o]
          /\ o \in Devices \union Contexts => source'[o] = source[o]
    BY <1>3, <1>4 DEF Joined
  <2>2. \A o \in Objects : life'[o] = "dying" => life[o] = "dying"
    BY <1>3
  <2>3. \A c \in Contexts : pool'[c] = "open" => pool[c] = "open" \/ life[c] = "live"
    BY DEF Joined
  <2> QED BY <2>1, <2>2, <2>3 DEF ApiStep
<1> QED BY <1>6, <1>7, <1>8, <1>9, <1>10, <1>11, Api

\* What can be got from a context's pool.
LEMMA FromPool ==
  ASSUME IInv, NEW c \in Contexts, life[c] = "live", stage[c] = "ready", source[c] = None,
         NEW s \in Available(c)
  PROVE  /\ s \in Surfaces /\ life[s] \in {"none", "idle"} /\ pool[c] = "open"
         /\ life[s] = "idle" => parent[s] = c
BY DEF IInv, Pools, Available

LEMMA GetBufferKeeps ==
  ASSUME IInv, NEW t \in Threads, NEW c \in Contexts, NEW f \in Frames, GetBuffer(t, c, f)
  PROVE  IInv'
<1>1. Types /\ Fields /\ Alive /\ Companions /\ Lived /\ Ranked
  BY AllAlive DEF IInv
<1>2. PICK s \in Available(c) :
        /\ todo[t] = <<>> /\ frame[f] = Empty /\ held[c] > 0 /\ stage[c] = "ready" /\ source[c] = None
        /\ life' = [life EXCEPT ![s] = "live"] /\ parent' = [parent EXCEPT ![s] = c]
        /\ rc' = Plus(rc, <<s, c>>)
        /\ frame' = [frame EXCEPT ![f] = [buf |-> s, ctx |-> c]]
        /\ UNCHANGED <<source, stage, pool, mapsrc, held, todo>>
  BY DEF GetBuffer, Idle, Born
<1>3. /\ s \in Surfaces /\ life[s] \in {"none", "idle"} /\ pool[c] = "open" /\ life[c] = "live"
      /\ life[s] = "idle" => parent[s] = c
  BY <1>1, <1>2, FromPool DEF Alive
<1>4. s \in Objects /\ c \in Objects /\ s # c /\ s # None /\ {s} \in SUBSET Surfaces /\ {} \in SUBSET Maps
  BY <1>3, Kinds
<1>5. /\ parent' \in [Objects -> Devices \union Contexts \union {None}]
      /\ parent'[s] = c /\ \A o \in Objects : o # s => parent'[o] = parent[o]
  BY <1>1, <1>2, <1>4 DEF Types
<1>6. life' \in [Objects -> Lives] /\ life' = [o \in Objects |-> IF o \in {s} \union {} THEN "live" ELSE life[o]]
  BY <1>1, <1>2, <1>4 DEF Types, Lives
<1>20. [buf |-> s, ctx |-> c] \in Frame
  BY <1>3 DEF Frame
<1>7. PICK fr \in Frame : fr = [buf |-> s, ctx |-> c] /\ fr.buf = s /\ fr.ctx = c
  BY <1>20
<1>8. frame' \in [Frames -> Frame] /\ Changes(frame, frame', f, fr)
  BY <1>1, <1>2, <1>7 DEF Types, Changes
<1>9. Added(s, c, None, None, None)
  BY <1>1, <1>2, AddedTwo
<1>10. Pushes(t, None, None)
  BY <1>1, <1>2, PushesFew
<1>11. Types'
  BY <1>1, <1>2, <1>5, <1>6, <1>8, <1>9 DEF Types, Added
<1>12. Joined({s}, {})
  BY <1>2, <1>5, <1>6 DEF Joined
<1>13. JoinedWell({s}, {})
  BY <1>3, <1>5 DEF JoinedWell
<1>14. JoinedGrows({s}, {})
  <2>1. Fit(s, s) /\ Fit(c, s) /\ Fit(None, s)
    BY <1>3 DEF Fit
  <2>2. Grows(s)
    BY <1>1, <1>9, <2>1, AddedGrows
  <2>3. rc'[s] > 0
    <3>1. rc[s] \in Nat /\ Is(s, s) = 1 /\ \A y : Is(y, s) \in Nat
      BY <1>1, <1>4 DEF Types, Is
    <3> QED BY <1>4, <1>9, <3>1 DEF Added
  <2> QED BY <2>2, <2>3 DEF Grows, JoinedGrows
<1>15. srcs' = srcs /\ pars' = pars /\ mbufs' = mbufs /\ mctxs' = mctxs
  <2>1. \A o \in Devices \union Contexts \union Maps : o # s /\ o \in Objects
    BY <1>3, Kinds
  <2>2. \A o \in Devices \union Contexts \union Maps : Keeps(o)
    BY <1>2, <1>5, <1>6, <2>1 DEF Keeps
  <2> QED BY <2>2, NoBirth
<1>16. Ranked'
  BY <1>1, <1>15, NoBirthRanks
<1>17. \A g \in Frames : Pairing(frame'[g])
  <2>1. Pairing(fr)
    BY <1>5, <1>7 DEF Pairing
  <2>2. ASSUME NEW g \in Frames  PROVE Pairing(frame[g])
    BY <1>1, <1>3, <1>5, Kinds, StillPaired DEF Companions, Alive, Paired, Pairing
  <2>3. \A g \in Frames : frame'[g] = fr \/ frame'[g] = frame[g]
    BY <1>1, <1>8 DEF Changes, Types
  <2> QED BY <2>1, <2>2, <2>3
<1>18. ASSUME NEW o \in Objects
       PROVE  rc'[o] + Shown(o) + Held(o) = rc[o] + Shown(o)' + Held(o)' + Is(None, o) + Is(None, o)
  <2>1. Shown(o)' = Shown(o) - Is(frame[f].buf, o) - Is(frame[f].ctx, o) + Is(fr.buf, o) + Is(fr.ctx, o)
    BY <1>1, <1>8, FrameChange
  <2>2. frame[f].buf = None /\ frame[f].ctx = None
    BY <1>2, FrameParts
  <2>3. Is(None, o) = 0 /\ Is(s, o) \in Nat /\ Is(c, o) \in Nat
    BY IsInt
  <2>4. Held(o)' = Held(o) /\ Held(o) \in Nat /\ Shown(o) \in Nat /\ rc[o] \in Nat
    BY <1>1, <1>15, Sums DEF Held, Types
  <2>5. rc'[o] = rc[o] + Is(s, o) + Is(c, o) + Is(None, o) + Is(None, o) + Is(None, o)
    BY <1>9 DEF Added
  <2>6. Shown(o)' = Shown(o) + Is(s, o) + Is(c, o)
    BY <1>7, <2>1, <2>2, <2>3, <2>4
  <2> QED BY <2>3, <2>4, <2>5, <2>6
<1>19. None \in Objects \union {None} /\ None \notin Surfaces
  BY Kinds
<1> QED BY <1>4, <1>10, <1>11, <1>12, <1>13, <1>14, <1>16, <1>17, <1>18, <1>19, JoinedKeeps

LEMMA PlusABCD ==
  ASSUME NEW count, NEW o \in Objects, count[o] \in Nat, NEW a, NEW b, NEW c, NEW d
  PROVE  Plus(count, <<a, b, c, d>>)[o] = count[o] + Is(a, o) + Is(b, o) + Is(c, o) + Is(d, o)
<1>1. Extends(3, <<a, b, c>>, <<a, b, c, d>>, d)
  BY DEF Extends
<1>2. Plus(count, <<a, b, c, d>>)[o] = Plus(count, <<a, b, c>>)[o] + Is(d, o)
  BY <1>1, PlusOne
<1>3. Plus(count, <<a, b, c>>)[o] = count[o] + Is(a, o) + Is(b, o) + Is(c, o)
  BY PlusABC
<1> QED BY <1>2, <1>3

LEMMA PlusABCDE ==
  ASSUME NEW count, NEW o \in Objects, count[o] \in Nat, NEW a, NEW b, NEW c, NEW d, NEW e
  PROVE  Plus(count, <<a, b, c, d, e>>)[o]
            = count[o] + Is(a, o) + Is(b, o) + Is(c, o) + Is(d, o) + Is(e, o)
<1>1. Extends(4, <<a, b, c, d>>, <<a, b, c, d, e>>, e)
  BY DEF Extends
<1>2. Plus(count, <<a, b, c, d, e>>)[o] = Plus(count, <<a, b, c, d>>)[o] + Is(e, o)
  BY <1>1, PlusOne
<1>3. Plus(count, <<a, b, c, d>>)[o] = count[o] + Is(a, o) + Is(b, o) + Is(c, o) + Is(d, o)
  BY PlusABCD
<1> QED BY <1>2, <1>3

LEMMA AddedFour ==
  ASSUME Types, NEW y1, NEW y2, NEW y3, NEW y4, rc' = Plus(rc, <<y1, y2, y3, y4>>)
  PROVE  Added(y1, y2, y3, y4, None)
<1>1. ASSUME NEW o \in Objects
      PROVE  /\ rc'[o] = rc[o] + Is(y1, o) + Is(y2, o) + Is(y3, o) + Is(y4, o) + Is(None, o)
             /\ rc'[o] \in Nat
  <2>1. rc[o] \in Nat
    BY DEF Types
  <2>3. rc'[o] = rc[o] + Is(y1, o) + Is(y2, o) + Is(y3, o) + Is(y4, o)
    BY <2>1, PlusABCD
  <2> QED BY <2>1, <2>3, IsInt
<1>2. rc' \in [Objects -> Nat]
  BY <1>1, PlusType
<1> QED BY <1>1, <1>2 DEF Added

LEMMA AddedFive ==
  ASSUME Types, NEW y1, NEW y2, NEW y3, NEW y4, NEW y5, rc' = Plus(rc, <<y1, y2, y3, y4, y5>>)
  PROVE  Added(y1, y2, y3, y4, y5)
<1>1. ASSUME NEW o \in Objects
      PROVE  /\ rc'[o] = rc[o] + Is(y1, o) + Is(y2, o) + Is(y3, o) + Is(y4, o) + Is(y5, o)
             /\ rc'[o] \in Nat
  <2>1. rc[o] \in Nat
    BY DEF Types
  <2>2. rc'[o] = rc[o] + Is(y1, o) + Is(y2, o) + Is(y3, o) + Is(y4, o) + Is(y5, o)
    BY <2>1, PlusABCDE
  <2> QED BY <2>1, <2>2, IsInt
<1>2. rc' \in [Objects -> Nat]
  BY <1>1, PlusType
<1> QED BY <1>1, <1>2 DEF Added

\* What was made is counted, for a set of new objects.
LEMMA JoinedCounts ==
  ASSUME Types, NEW X \in SUBSET Objects,
         NEW y1, NEW y2, NEW y3, NEW y4, NEW y5, Added(y1, y2, y3, y4, y5),
         \A y \in {y1, y2, y3, y4, y5} : y = None \/ y \in X \/ life[y] = "live",
         X \subseteq {y1, y2, y3, y4, y5}
  PROVE  /\ \A o \in Objects : rc'[o] >= rc[o] /\ (rc'[o] > rc[o] => life[o] = "live" \/ o \in X)
         /\ \A o \in X : rc'[o] > 0
<1>1. ASSUME NEW o \in Objects
      PROVE  /\ rc'[o] >= rc[o] /\ (rc'[o] > rc[o] => life[o] = "live" \/ o \in X)
             /\ o \in X => rc'[o] > 0
  <2>1. /\ Is(y1, o) \in Nat /\ Is(y2, o) \in Nat /\ Is(y3, o) \in Nat /\ Is(y4, o) \in Nat /\ Is(y5, o) \in Nat
        /\ rc[o] \in Nat
    BY IsInt DEF Types
  <2>2. rc'[o] = rc[o] + Is(y1, o) + Is(y2, o) + Is(y3, o) + Is(y4, o) + Is(y5, o)
    BY DEF Added
  <2>3. rc'[o] > rc[o] => o \in {y1, y2, y3, y4, y5}
    <3>1. o \notin {y1, y2, y3, y4, y5} =>
           Is(y1, o) = 0 /\ Is(y2, o) = 0 /\ Is(y3, o) = 0 /\ Is(y4, o) = 0 /\ Is(y5, o) = 0
      BY DEF Is
    <3> QED BY <2>1, <2>2, <3>1
  <2>4. o \in {y1, y2, y3, y4, y5} => rc'[o] > rc[o]
    <3>1. o \in {y1, y2, y3, y4, y5} =>
           Is(y1, o) = 1 \/ Is(y2, o) = 1 \/ Is(y3, o) = 1 \/ Is(y4, o) = 1 \/ Is(y5, o) = 1
      BY DEF Is
    <3> QED BY <2>1, <2>2, <3>1
  <2>5. o # None
    BY HwContextAssumption
  <2> QED BY <2>1, <2>2, <2>3, <2>4, <2>5
<1> QED BY <1>1

LEMMA FramesPaired ==
  ASSUME Types, Alive, Companions, NEW S, \A s \in S : life[s] # "live",
         \A o \in Surfaces : o \notin S => parent'[o] = parent[o],
         NEW f \in Frames, NEW fr, Changes(frame, frame', f, fr), Pairing(fr)
  PROVE  \A g \in Frames : Pairing(frame'[g])
<1>1. ASSUME NEW g \in Frames  PROVE Pairing(frame[g])
  <2>1. Paired(frame[g]) /\ (frame[g].buf # None => life[frame[g].buf] = "live")
    BY DEF Alive, Companions
  <2> QED BY <2>1, StillPaired
<1>2. \A g \in Frames : frame'[g] = fr \/ frame'[g] = frame[g]
  BY DEF Changes, Types
<1> QED BY <1>1, <1>2

LEMMA RefsConcat ==
  ASSUME NEW fr, NEW c, NEW m
  PROVE  RefsOf(fr) \o <<c, m>> = <<fr.buf, fr.ctx, c, m>>
<1>1. PICK a : a = fr.buf
  OBVIOUS
<1>2. PICK b : b = fr.ctx
  OBVIOUS
<1>3. RefsOf(fr) = <<a, b>>
  BY <1>1, <1>2 DEF RefsOf
<1>4. PICK n : n = <<a, b>> \o <<c, m>>
  OBVIOUS
<1>5. n \in Seq({a, b, c, m}) /\ Len(n) = 4 /\ n[1] = a /\ n[2] = b /\ n[3] = c /\ n[4] = m
  BY <1>4
<1>6. n = <<a, b, c, m>>
  BY <1>5
<1>7. <<a, b>> \o <<c, m>> = <<a, b, c, m>>
  BY <1>4, <1>6
<1> QED BY <1>1, <1>2, <1>3, <1>7

LEMMA MapFrameKeeps ==
  ASSUME IInv, NEW t \in Threads, NEW dst \in Frames, NEW src \in Frames, MapFrame(t, dst, src)
  PROVE  IInv'
<1>1. Types /\ Fields /\ Alive /\ Companions /\ Lived /\ Ranked
  BY AllAlive DEF IInv
<1>2. PICK from \in Frame, to \in Frame : from = frame[src] /\ to = frame[dst]
  BY <1>1 DEF Types
<1>3. PICK m \in Maps, c \in {from.ctx, to.ctx} \ {None} :
        /\ todo[t] = <<>> /\ to.buf = None /\ from.buf # None /\ life[m] = "none"
        /\ life' = [life EXCEPT ![m] = "live"]
        /\ parent' = [parent EXCEPT ![m] = c]
        /\ mapsrc' = [mapsrc EXCEPT ![m] = from]
        /\ rc' = Plus(rc, RefsOf(from) \o <<c, m>>)
        /\ frame' = [frame EXCEPT ![dst].buf = m]
        /\ UNCHANGED <<source, stage, pool, held, todo>>
  BY <1>2 DEF MapFrame, Idle, Born
<1>4. /\ c \in Contexts /\ life[c] = "live" /\ c # None /\ c # m /\ c \in Objects
      /\ life[from.buf] = "live" /\ (from.ctx # None => life[from.ctx] = "live")
      /\ m \in Objects /\ m # None /\ m \notin Surfaces /\ from.buf # m /\ from.ctx # m
      /\ {m} \in SUBSET Maps /\ {} \in SUBSET Surfaces /\ {m} \in SUBSET Objects
  BY <1>1, <1>2, <1>3, FrameParts, Kinds DEF Alive
<1>5. /\ parent' \in [Objects -> Devices \union Contexts \union {None}]
      /\ parent'[m] = c /\ \A o \in Objects : o # m => parent'[o] = parent[o]
  BY <1>1, <1>3, <1>4 DEF Types
<1>6. /\ life' \in [Objects -> Lives]
      /\ life' = [o \in Objects |-> IF o \in {} \union {m} THEN "live" ELSE life[o]]
  BY <1>1, <1>3, <1>4 DEF Types, Lives
<1>7. [buf |-> m, ctx |-> to.ctx] \in Frame
  BY <1>3, FrameParts DEF Frame
<1>8. PICK fr \in Frame : fr = [buf |-> m, ctx |-> to.ctx] /\ fr.buf = m /\ fr.ctx = to.ctx
  BY <1>7
<1>9. frame' \in [Frames -> Frame] /\ Changes(frame, frame', dst, fr)
  <2>1. frame'[dst] = fr
    BY <1>1, <1>2, <1>3, <1>8 DEF Types, Frame
  <2>2. DOMAIN frame' = Frames /\ \A g \in Frames : g # dst => frame'[g] = frame[g]
    BY <1>1, <1>3 DEF Types
  <2>3. frame' \in [Frames -> Frame]
    BY <1>1, <1>3, <2>1, <2>2 DEF Types
  <2> QED BY <1>1, <2>1, <2>2, <2>3 DEF Changes, Types
<1>10. mapsrc' \in [Maps -> Frame] /\ mapsrc'[m] = from /\ \A o \in Maps : o # m => mapsrc'[o] = mapsrc[o]
  BY <1>1, <1>3 DEF Types
<1>11. Added(from.buf, from.ctx, c, m, None)
  <2>1. RefsOf(from) \o <<c, m>> = <<from.buf, from.ctx, c, m>>
    BY RefsConcat
  <2> QED BY <1>1, <1>3, <2>1, AddedFour
<1>12. Pushes(t, None, None)
  BY <1>1, <1>3, PushesFew
<1>13. Types'
  BY <1>1, <1>3, <1>5, <1>6, <1>9, <1>10, <1>11 DEF Types, Added
<1>14. Joined({}, {m})
  BY <1>3, <1>5, <1>6, <1>10 DEF Joined
<1>15. JoinedWell({}, {m})
  BY <1>3, <1>4, <1>5 DEF JoinedWell
<1>16. JoinedGrows({}, {m})
  <2>1. \A y \in {from.buf, from.ctx, c, m, None} : y = None \/ y \in {m} \/ life[y] = "live"
    BY <1>4
  <2>2. {m} \subseteq {from.buf, from.ctx, c, m, None} /\ {} \union {m} = {m}
    OBVIOUS
  <2>3. /\ \A o \in Objects : rc'[o] >= rc[o] /\ (rc'[o] > rc[o] => life[o] = "live" \/ o \in {m})
        /\ \A o \in {m} : rc'[o] > 0
    BY <1>1, <1>4, <1>11, <2>1, <2>2, JoinedCounts
  <2> QED BY <2>2, <2>3 DEF JoinedGrows
<1>17. Ranked' /\ \A o \in Objects : Held(o)' = Held(o) + BornRefs(m, o)
  <2>1. \A o \in (Devices \union Contexts \union Maps) \ {m} : Keeps(o)
    BY <1>3, <1>5, <1>6, <1>10, Kinds DEF Keeps
  <2>2. life[m] # "live" /\ life'[m] = "live" /\ parent'[m] # m /\ mapsrc'[m].buf # m /\ mapsrc'[m].ctx # m
    BY <1>3, <1>4, <1>5, <1>6, <1>10
  <2> QED BY <1>1, <2>1, <2>2, Birth, Kinds
<1>18. \A s \in Surfaces : parent'[s] = parent[s]
  BY <1>5, Kinds
<1>19. \A g \in Frames : Pairing(frame'[g])
  <2>1. Pairing(fr)
    BY <1>4, <1>8 DEF Pairing
  <2>2. PICK S : S = {}
    OBVIOUS
  <2>3. \A s \in S : life[s] # "live"
    BY <2>2
  <2>4. \A o \in Surfaces : o \notin S => parent'[o] = parent[o]
    BY <1>18
  <2> QED BY <1>1, <1>9, <2>1, <2>3, <2>4, FramesPaired
<1>20. \A o \in {m} : Pairing(mapsrc'[o])
  BY <1>1, <1>2, <1>10, <1>18 DEF Pairing, Paired, Companions
<1>21. ASSUME NEW o \in Objects
       PROVE  rc'[o] + Shown(o) + Held(o) = rc[o] + Shown(o)' + Held(o)' + Is(None, o) + Is(None, o)
  <2>1. Shown(o)' = Shown(o) - Is(to.buf, o) - Is(to.ctx, o) + Is(m, o) + Is(to.ctx, o)
    BY <1>1, <1>2, <1>8, <1>9, FrameChange
  <2>2. /\ Is(None, o) = 0 /\ Is(from.buf, o) \in Nat /\ Is(from.ctx, o) \in Nat
        /\ Is(c, o) \in Nat /\ Is(m, o) \in Nat /\ Is(to.ctx, o) \in Nat /\ Is(to.buf, o) = 0
    BY <1>3, IsInt
  <2>3. BornRefs(m, o) = Is(c, o) + Is(from.buf, o) + Is(from.ctx, o)
    BY <1>5, <1>10, <2>2, Kinds DEF BornRefs
  <2>4. Held(o)' = Held(o) + BornRefs(m, o) /\ Held(o) \in Nat /\ Shown(o) \in Nat /\ rc[o] \in Nat
    BY <1>1, <1>17, Sums DEF Types
  <2>5. rc'[o] = rc[o] + Is(from.buf, o) + Is(from.ctx, o) + Is(c, o) + Is(m, o) + Is(None, o)
    BY <1>11 DEF Added
  <2>6. Shown(o)' = Shown(o) + Is(m, o)
    BY <2>1, <2>2, <2>4
  <2> QED BY <2>2, <2>3, <2>4, <2>5, <2>6
<1>22. None \in Objects \union {None} /\ None \notin Surfaces
  BY Kinds
<1> QED BY <1>4, <1>12, <1>13, <1>14, <1>15, <1>16, <1>17, <1>19, <1>20, <1>21, <1>22, JoinedKeeps

\* A new mapping for a frame of a derived context.
MappedAtOnce(f, c, src, s, m) ==
    /\ life[m] = "none"
    /\ life' = [life EXCEPT ![s] = "live", ![m] = "live"]
    /\ parent' = [parent EXCEPT ![s] = src, ![m] = c]
    /\ mapsrc' = [mapsrc EXCEPT ![m] = [buf |-> s, ctx |-> src]]
    /\ rc' = Plus(rc, <<s, src, c, m, c>>)
    /\ frame' = [frame EXCEPT ![f] = [buf |-> m, ctx |-> c]]
    /\ UNCHANGED <<source, stage, pool, held, todo>>

LEMMA GotMapped ==
  ASSUME IInv, NEW t \in Threads, NEW f \in Frames, frame[f] = Empty, todo[t] = <<>>,
         NEW c \in Contexts, life[c] = "live", NEW src \in Contexts, life[src] = "live",
         stage[src] = "ready", source[src] = None,
         NEW s \in Available(src), NEW m \in Maps, MappedAtOnce(f, c, src, s, m)
  PROVE  IInv'
<1>1. Types /\ Fields /\ Alive /\ Companions /\ Lived /\ Ranked
  BY AllAlive DEF IInv
<1>0. /\ life[m] = "none"
      /\ life' = [life EXCEPT ![s] = "live", ![m] = "live"]
      /\ parent' = [parent EXCEPT ![s] = src, ![m] = c]
      /\ mapsrc' = [mapsrc EXCEPT ![m] = [buf |-> s, ctx |-> src]]
      /\ rc' = Plus(rc, <<s, src, c, m, c>>)
      /\ frame' = [frame EXCEPT ![f] = [buf |-> m, ctx |-> c]]
      /\ UNCHANGED <<source, stage, pool, held, todo>>
  BY DEF MappedAtOnce
<1>2. /\ s \in Surfaces /\ life[s] \in {"none", "idle"} /\ pool[src] = "open"
      /\ life[s] = "idle" => parent[s] = src
  BY FromPool
<1>3. /\ s \in Objects /\ m \in Objects /\ s # m /\ src # s /\ src # m /\ c # s /\ c # m /\ m \notin Surfaces
      /\ s # None /\ m # None /\ src # None
      /\ {s} \in SUBSET Surfaces /\ {m} \in SUBSET Maps /\ {s} \union {m} \in SUBSET Objects
      /\ c \in Objects /\ src \in Objects
  BY <1>2, Kinds
<1>4. /\ parent' \in [Objects -> Devices \union Contexts \union {None}]
      /\ parent'[s] = src /\ parent'[m] = c /\ \A o \in Objects : o \notin {s} \union {m} => parent'[o] = parent[o]
  BY <1>0, <1>1, <1>3 DEF Types
<1>5. /\ life' \in [Objects -> Lives]
      /\ life' = [o \in Objects |-> IF o \in {s} \union {m} THEN "live" ELSE life[o]]
  BY <1>0, <1>1, <1>3 DEF Types, Lives
<1>6. [buf |-> m, ctx |-> c] \in Frame /\ [buf |-> s, ctx |-> src] \in Frame
  BY <1>2 DEF Frame
<1>7. PICK fr \in Frame : fr = [buf |-> m, ctx |-> c] /\ fr.buf = m /\ fr.ctx = c
  BY <1>6
<1>8. PICK got \in Frame : got = [buf |-> s, ctx |-> src] /\ got.buf = s /\ got.ctx = src
  BY <1>6
<1>9. frame' \in [Frames -> Frame] /\ Changes(frame, frame', f, fr)
  BY <1>0, <1>1, <1>7 DEF Types, Changes
<1>10. mapsrc' \in [Maps -> Frame] /\ mapsrc'[m] = got /\ \A o \in Maps : o # m => mapsrc'[o] = mapsrc[o]
  BY <1>0, <1>1, <1>8 DEF Types
<1>11. Added(s, src, c, m, c)
  BY <1>0, <1>1, AddedFive
<1>12. Pushes(t, None, None)
  BY <1>0, <1>1, PushesFew
<1>13. Types'
  BY <1>0, <1>1, <1>4, <1>5, <1>9, <1>10, <1>11 DEF Types, Added
<1>14. Joined({s}, {m})
  BY <1>0, <1>4, <1>5, <1>10 DEF Joined
<1>15. JoinedWell({s}, {m})
  BY <1>0, <1>2, <1>4 DEF JoinedWell
<1>16. JoinedGrows({s}, {m})
  <2>1. \A y \in {s, src, c, m, c} : y = None \/ y \in {s} \union {m} \/ life[y] = "live"
    OBVIOUS
  <2>2. {s} \union {m} \subseteq {s, src, c, m, c}
    OBVIOUS
  <2>3. /\ \A o \in Objects : rc'[o] >= rc[o] /\ (rc'[o] > rc[o] => life[o] = "live" \/ o \in {s} \union {m})
        /\ \A o \in {s} \union {m} : rc'[o] > 0
    BY <1>1, <1>3, <1>11, <2>1, <2>2, JoinedCounts
  <2> QED BY <2>3 DEF JoinedGrows
<1>17. Ranked' /\ \A o \in Objects : Held(o)' = Held(o) + BornRefs(m, o)
  <2>1. ASSUME NEW o \in (Devices \union Contexts \union Maps) \ {m}  PROVE Keeps(o)
    <3>1. o \in Objects /\ o \notin {s} \union {m}
      BY <1>2, Kinds
    <3> QED BY <1>0, <1>4, <1>5, <1>10, <3>1 DEF Keeps
  <2>2. life[m] # "live" /\ life'[m] = "live" /\ parent'[m] # m /\ mapsrc'[m].buf # m /\ mapsrc'[m].ctx # m
    BY <1>0, <1>3, <1>4, <1>5, <1>8, <1>10
  <2> QED BY <1>1, <2>1, <2>2, Birth, Kinds
<1>19. \A g \in Frames : Pairing(frame'[g])
  <2>1. Pairing(fr)
    BY <1>3, <1>7 DEF Pairing
  <2>2. PICK S : S = {s}
    OBVIOUS
  <2>3. \A x \in S : life[x] # "live"
    BY <1>2, <2>2
  <2>4. \A o \in Surfaces : o \notin S => parent'[o] = parent[o]
    BY <1>3, <1>4, <2>2, Kinds
  <2> QED BY <1>1, <1>9, <2>1, <2>3, <2>4, FramesPaired
<1>20. \A o \in {m} : Pairing(mapsrc'[o])
  BY <1>4, <1>8, <1>10 DEF Pairing
<1>21. ASSUME NEW o \in Objects
       PROVE  rc'[o] + Shown(o) + Held(o) = rc[o] + Shown(o)' + Held(o)' + Is(None, o) + Is(None, o)
  <2>1. Shown(o)' = Shown(o) - Is(frame[f].buf, o) - Is(frame[f].ctx, o) + Is(m, o) + Is(c, o)
    BY <1>1, <1>7, <1>9, FrameChange
  <2>2. /\ Is(None, o) = 0 /\ Is(s, o) \in Nat /\ Is(src, o) \in Nat
        /\ Is(c, o) \in Nat /\ Is(m, o) \in Nat /\ frame[f].buf = None /\ frame[f].ctx = None
    BY IsInt, FrameParts
  <2>3. BornRefs(m, o) = Is(c, o) + Is(s, o) + Is(src, o)
    BY <1>4, <1>8, <1>10, <2>2, Kinds DEF BornRefs
  <2>4. Held(o)' = Held(o) + BornRefs(m, o) /\ Held(o) \in Nat /\ Shown(o) \in Nat /\ rc[o] \in Nat
    BY <1>1, <1>17, Sums DEF Types
  <2>5. rc'[o] = rc[o] + Is(s, o) + Is(src, o) + Is(c, o) + Is(m, o) + Is(c, o)
    BY <1>11 DEF Added
  <2>6. Shown(o)' = Shown(o) + Is(m, o) + Is(c, o)
    BY <2>1, <2>2, <2>4
  <2>7. Held(o)' = Held(o) + Is(c, o) + Is(s, o) + Is(src, o)
    BY <2>2, <2>3, <2>4
  <2> QED BY <2>2, <2>4, <2>5, <2>6, <2>7
<1>22. None \in Objects \union {None} /\ None \notin Surfaces
  BY Kinds
<1> QED BY <1>3, <1>12, <1>13, <1>14, <1>15, <1>16, <1>17, <1>19, <1>20, <1>21, <1>22, JoinedKeeps

\* The surface is dropped again, because it could not be mapped.
LEMMA GotUnmapped ==
  ASSUME IInv, NEW t \in Threads, NEW f \in Frames, frame[f] = Empty, todo[t] = <<>>,
         NEW c \in Contexts, life[c] = "live", NEW src \in Contexts, life[src] = "live",
         stage[src] = "ready", source[src] = None,
         NEW s \in Available(src),
         life' = [life EXCEPT ![s] = "live"], parent' = [parent EXCEPT ![s] = src],
         rc' = Plus(rc, <<s, src, c>>), frame' = [frame EXCEPT ![f].ctx = c],
         Push(t, Drop(s) \o Drop(src)),
         UNCHANGED <<source, stage, pool, held, mapsrc>>
  PROVE  IInv'
<1>1. Types /\ Fields /\ Alive /\ Companions /\ Lived /\ Ranked
  BY AllAlive DEF IInv
<1>2. /\ s \in Surfaces /\ life[s] \in {"none", "idle"} /\ pool[src] = "open"
      /\ life[s] = "idle" => parent[s] = src
  BY FromPool
<1>3. /\ s \in Objects /\ src # s /\ c # s /\ src \notin Surfaces /\ s # None /\ src # None
      /\ {s} \in SUBSET Surfaces /\ {} \in SUBSET Maps /\ {s} \in SUBSET Objects
      /\ c \in Objects /\ src \in Objects
  BY <1>2, Kinds
<1>4. /\ parent' \in [Objects -> Devices \union Contexts \union {None}]
      /\ parent'[s] = src /\ \A o \in Objects : o # s => parent'[o] = parent[o]
  BY <1>1, <1>3 DEF Types
<1>5. /\ life' \in [Objects -> Lives]
      /\ life' = [o \in Objects |-> IF o \in {s} \union {} THEN "live" ELSE life[o]]
  BY <1>1, <1>3 DEF Types, Lives
<1>6. [buf |-> None, ctx |-> c] \in Frame
  BY DEF Frame
<1>7. PICK fr \in Frame : fr = [buf |-> None, ctx |-> c] /\ fr.buf = None /\ fr.ctx = c
  BY <1>6
<1>8. frame' \in [Frames -> Frame] /\ Changes(frame, frame', f, fr)
  BY <1>1, <1>7 DEF Types, Changes, Empty
<1>9. Added(s, src, c, None, None)
  BY <1>1, AddedThree
<1>10. Pushes(t, s, src)
  BY DEF Push, Pushes
<1>11. todo' \in Todo /\ Few(todo')
  BY <1>1, <1>3, <1>10, PushTwo
<1>12. Types'
  BY <1>1, <1>4, <1>5, <1>8, <1>9, <1>11 DEF Types, Added
<1>13. Joined({s}, {})
  BY <1>4, <1>5 DEF Joined
<1>14. JoinedWell({s}, {})
  BY <1>2, <1>4 DEF JoinedWell
<1>15. JoinedGrows({s}, {})
  <2>1. \A y \in {s, src, c, None, None} : y = None \/ y \in {s} \/ life[y] = "live"
    OBVIOUS
  <2>2. {s} \subseteq {s, src, c, None, None} /\ {s} \union {} = {s}
    OBVIOUS
  <2>3. /\ \A o \in Objects : rc'[o] >= rc[o] /\ (rc'[o] > rc[o] => life[o] = "live" \/ o \in {s})
        /\ \A o \in {s} : rc'[o] > 0
    BY <1>1, <1>3, <1>9, <2>1, <2>2, JoinedCounts
  <2> QED BY <2>2, <2>3 DEF JoinedGrows
<1>16. srcs' = srcs /\ pars' = pars /\ mbufs' = mbufs /\ mctxs' = mctxs
  <2>1. \A o \in Devices \union Contexts \union Maps : o # s /\ o \in Objects
    BY <1>2, Kinds
  <2>2. \A o \in Devices \union Contexts \union Maps : Keeps(o)
    BY <1>4, <1>5, <2>1 DEF Keeps
  <2> QED BY <2>2, NoBirth
<1>17. Ranked'
  BY <1>1, <1>16, NoBirthRanks
<1>18. \A g \in Frames : Pairing(frame'[g])
  <2>1. Pairing(fr)
    BY <1>7, Kinds DEF Pairing
  <2>2. PICK S : S = {s}
    OBVIOUS
  <2>3. \A x \in S : life[x] # "live"
    BY <1>2, <2>2
  <2>4. \A o \in Surfaces : o \notin S => parent'[o] = parent[o]
    BY <1>3, <1>4, <2>2, Kinds
  <2> QED BY <1>1, <1>8, <2>1, <2>3, <2>4, FramesPaired
<1>19. \A o \in {} : Pairing(mapsrc'[o])
  OBVIOUS
<1>20. ASSUME NEW o \in Objects
       PROVE  rc'[o] + Shown(o) + Held(o) = rc[o] + Shown(o)' + Held(o)' + Is(s, o) + Is(src, o)
  <2>1. Shown(o)' = Shown(o) - Is(frame[f].buf, o) - Is(frame[f].ctx, o) + Is(None, o) + Is(c, o)
    BY <1>1, <1>7, <1>8, FrameChange
  <2>2. /\ Is(None, o) = 0 /\ Is(s, o) \in Nat /\ Is(src, o) \in Nat
        /\ Is(c, o) \in Nat /\ frame[f].buf = None /\ frame[f].ctx = None
    BY IsInt, FrameParts
  <2>3. Held(o)' = Held(o) /\ Held(o) \in Nat /\ Shown(o) \in Nat /\ rc[o] \in Nat
    BY <1>1, <1>16, Sums DEF Held, Types
  <2>4. rc'[o] = rc[o] + Is(s, o) + Is(src, o) + Is(c, o) + Is(None, o) + Is(None, o)
    BY <1>9 DEF Added
  <2>5. Shown(o)' = Shown(o) + Is(c, o)
    BY <2>1, <2>2, <2>3
  <2> QED BY <2>2, <2>3, <2>4, <2>5
<1> QED BY <1>3, <1>4, <1>10, <1>12, <1>13, <1>14, <1>15, <1>17, <1>18, <1>19, <1>20, JoinedKeeps

LEMMA GetBufferDerivedKeeps ==
  ASSUME IInv, NEW t \in Threads, NEW c \in Contexts, NEW f \in Frames, GetBufferDerived(t, c, f)
  PROVE  IInv'
<1>1. Types /\ Fields /\ Alive
  BY AllAlive DEF IInv
<1>2. PICK src : src = source[c]
  OBVIOUS
<1>3. /\ todo[t] = <<>> /\ frame[f] = Empty /\ held[c] > 0 /\ src # None /\ source[src] = None
      /\ UNCHANGED <<source, stage, pool, held>>
  BY <1>2 DEF GetBufferDerived, Idle
<1>4. src \in Contexts /\ life[c] = "live" /\ life[src] = "live" /\ stage[src] = "ready"
  BY <1>1, <1>2, <1>3 DEF IInv, Fields, Alive, Pools
<1>5. ASSUME NEW s \in Available(src), NEW m \in Maps,
             /\ life[m] = "none"
             /\ life' = [life EXCEPT ![s] = "live", ![m] = "live"]
             /\ parent' = [parent EXCEPT ![s] = src, ![m] = c]
             /\ mapsrc' = [mapsrc EXCEPT ![m] = [buf |-> s, ctx |-> src]]
             /\ rc' = Plus(rc, <<s, src, c, m, c>>)
             /\ frame' = [frame EXCEPT ![f] = [buf |-> m, ctx |-> c]]
             /\ UNCHANGED todo
      PROVE  IInv'
  BY <1>3, <1>4, <1>5, GotMapped DEF MappedAtOnce
<1>6. ASSUME NEW s \in Available(src),
             /\ Born(s)
             /\ parent' = [parent EXCEPT ![s] = src]
             /\ rc' = Plus(rc, <<s, src, c>>)
             /\ frame' = [frame EXCEPT ![f].ctx = c]
             /\ Push(t, Drop(s) \o Drop(src))
             /\ UNCHANGED mapsrc
      PROVE  IInv'
  BY <1>3, <1>4, <1>6, GotUnmapped DEF Born
<1>7. ASSUME /\ frame' = [frame EXCEPT ![f].ctx = c]
             /\ rc' = Plus(rc, <<c>>)
             /\ UNCHANGED <<life, parent, mapsrc, todo>>
      PROVE  IInv'
  BY <1>3, <1>4, <1>7, ContextSet DEF Quiet
<1> QED BY <1>2, <1>5, <1>6, <1>7 DEF GetBufferDerived

-----------------------------------------------------------------------------
\* Two mappings come into use.
LEMMA GainedTwo ==
  ASSUME NEW g, NEW h, NEW x \in DOMAIN g, NEW y \in DOMAIN g, x # y, g[x] = None, g[y] = None,
         DOMAIN h = DOMAIN g, \A z \in DOMAIN g : z \notin {x, y} => h[z] = g[z],
         NEW o \in Objects, IsFiniteSet(Places(g, o))
  PROVE  Count(h, o) = Count(g, o) + Is(h[x], o) + Is(h[y], o)
<1>1. PICK v : v = h[x]
  OBVIOUS
<1>2. PICK w : w = h[y]
  OBVIOUS
<1>3. PICK mid : mid = [z \in DOMAIN g |-> IF z = x THEN v ELSE g[z]]
  OBVIOUS
<1>4. Changes(g, mid, x, v) /\ Changes(mid, h, y, w) /\ mid[y] = None
  BY <1>1, <1>2, <1>3 DEF Changes
<1>5. IsFiniteSet(Places(mid, o)) /\ Count(mid, o) = Count(g, o) + Is(v, o)
  BY <1>4, Gained
<1>6. Count(h, o) = Count(mid, o) + Is(w, o)
  BY <1>4, <1>5, Gained
<1>7. Count(g, o) \in Nat /\ Is(v, o) \in Nat /\ Is(w, o) \in Nat
  BY CountNat, IsInt
<1> QED BY <1>1, <1>2, <1>5, <1>6, <1>7

MapRefs(m, o) == Is(parent'[m], o) + Is(mapsrc'[m].buf, o) + Is(mapsrc'[m].ctx, o)

LEMMA TwoBirths ==
  ASSUME Types, Alive, Ranked, NEW m \in Maps, NEW via \in Maps, m # via,
         life[m] # "live", life'[m] = "live", life[via] # "live", life'[via] = "live",
         \A o \in (Devices \union Contexts \union Maps) \ {m, via} : Keeps(o),
         \A x \in {m, via} : /\ parent'[x] \notin Maps
                             /\ mapsrc'[x].buf \notin {m, via} /\ mapsrc'[x].ctx \notin {m, via}
  PROVE  /\ Ranked'
         /\ \A o \in Objects : Held(o)' = Held(o) + MapRefs(m, o) + MapRefs(via, o)
<1>1. m \notin Devices \union Contexts /\ via \notin Devices \union Contexts /\ m \in Objects /\ via \in Objects
  BY Kinds
<1>2. srcs' = srcs
  BY <1>1 DEF srcs, InUseOr, Keeps
<1>3. /\ pars[m] = None /\ pars[via] = None /\ pars'[m] = parent'[m] /\ pars'[via] = parent'[via]
      /\ \A x \in Contexts \union Maps : x \notin {m, via} => pars'[x] = pars[x]
      /\ DOMAIN pars = Contexts \union Maps /\ DOMAIN pars' = Contexts \union Maps
  BY DEF pars, InUseOr, Keeps
<1>4. /\ mbufs[m] = None /\ mbufs[via] = None /\ mbufs'[m] = mapsrc'[m].buf /\ mbufs'[via] = mapsrc'[via].buf
      /\ \A x \in Maps : x \notin {m, via} => mbufs'[x] = mbufs[x]
      /\ DOMAIN mbufs = Maps /\ DOMAIN mbufs' = Maps
  BY DEF mbufs, InUseOr, Keeps
<1>5. /\ mctxs[m] = None /\ mctxs[via] = None /\ mctxs'[m] = mapsrc'[m].ctx /\ mctxs'[via] = mapsrc'[via].ctx
      /\ \A x \in Maps : x \notin {m, via} => mctxs'[x] = mctxs[x]
      /\ DOMAIN mctxs = Maps /\ DOMAIN mctxs' = Maps
  BY DEF mctxs, InUseOr, Keeps
<1>6. Ranked'
  <2>1. {m, via} \in SUBSET Objects /\ \A o \in {m, via} : life[o] # "live"
    BY <1>1
  <2>2. ASSUME NEW x \in Objects, NEW y \in Objects, Refers(x, y)'
        PROVE  Refers(x, y) \/ (x \in {m, via} /\ y \notin {m, via})
    <3>1. CASE x \in {m, via}
      <4>1. y = parent'[x] \/ y = mapsrc'[x].buf \/ y = mapsrc'[x].ctx
        BY <1>1, <1>3, <1>4, <1>5, <2>2, <3>1 DEF Refers
      <4> QED BY <3>1, <4>1
    <3>2. CASE x \notin {m, via}
      BY <1>2, <1>3, <1>4, <1>5, <2>2, <3>2 DEF Refers
    <3> QED BY <3>1, <3>2
  <2> QED BY <2>1, <2>2, RankBirth
<1>7. ASSUME NEW o \in Objects  PROVE Held(o)' = Held(o) + MapRefs(m, o) + MapRefs(via, o)
  <2>1. /\ Count(srcs, o) \in Nat /\ Count(pars, o) \in Nat
        /\ Count(mbufs, o) \in Nat /\ Count(mctxs, o) \in Nat
    BY NatParts
  <2>2. Count(pars', o) = Count(pars, o) + Is(parent'[m], o) + Is(parent'[via], o)
    <3>1. Count(pars', o) = Count(pars, o) + Is(pars'[m], o) + Is(pars'[via], o)
      BY <1>3, FiniteParts, GainedTwo
    <3> QED BY <1>3, <3>1
  <2>3. Count(mbufs', o) = Count(mbufs, o) + Is(mapsrc'[m].buf, o) + Is(mapsrc'[via].buf, o)
    <3>1. Count(mbufs', o) = Count(mbufs, o) + Is(mbufs'[m], o) + Is(mbufs'[via], o)
      BY <1>4, FiniteParts, GainedTwo
    <3> QED BY <1>4, <3>1
  <2>4. Count(mctxs', o) = Count(mctxs, o) + Is(mapsrc'[m].ctx, o) + Is(mapsrc'[via].ctx, o)
    <3>1. Count(mctxs', o) = Count(mctxs, o) + Is(mctxs'[m], o) + Is(mctxs'[via], o)
      BY <1>5, FiniteParts, GainedTwo
    <3> QED BY <1>5, <3>1
  <2>5. Held(o)' = Count(srcs, o) + Count(pars', o) + Count(mbufs', o) + Count(mctxs', o)
    BY <1>2 DEF Held
  <2>6. /\ Is(parent'[m], o) \in Nat /\ Is(mapsrc'[m].buf, o) \in Nat /\ Is(mapsrc'[m].ctx, o) \in Nat
        /\ Is(parent'[via], o) \in Nat /\ Is(mapsrc'[via].buf, o) \in Nat /\ Is(mapsrc'[via].ctx, o) \in Nat
    BY IsInt
  <2> QED BY <2>1, <2>2, <2>3, <2>4, <2>5, <2>6 DEF Held, MapRefs
<1> QED BY <1>6, <1>7

LEMMA Concat45 ==
  ASSUME NEW T, NEW n \in Seq(T), NEW w \in Seq(T), Len(n) = 4, Len(w) = 5
  PROVE  /\ n \o w \in Seq(T) /\ Len(n \o w) = 9
         /\ \A i \in 1 .. 4 : (n \o w)[i] = n[i]
         /\ \A i \in 5 .. 9 : (n \o w)[i] = w[i - 4]
<1>1. PICK k : k = n \o w
  OBVIOUS
<1>2. k \in Seq(T) /\ Len(k) = Len(n) + Len(w)
  BY <1>1, ConcatProperties
<1>3. \A i \in 1 .. Len(n) + Len(w) : k[i] = IF i <= Len(n) THEN n[i] ELSE w[i - Len(n)]
  BY <1>1, ConcatProperties
<1>4. \A i \in 1 .. 9 : k[i] = IF i <= 4 THEN n[i] ELSE w[i - 4]
  BY <1>3
<1>5. \A i \in 1 .. 4 : k[i] = n[i]
  BY <1>4
<1>6. \A i \in 5 .. 9 : k[i] = w[i - 4]
  BY <1>4
<1> QED BY <1>1, <1>2, <1>5, <1>6

LEMMA NineConcat ==
  ASSUME NEW fr, NEW got, NEW p, NEW q, NEW v, NEW m
  PROVE  RefsOf(fr) \o RefsOf(got) \o <<p, q, v, v, m>>
            = <<fr.buf, fr.ctx, got.buf, got.ctx, p, q, v, v, m>>
<1>1. PICK a, b, c, d : a = fr.buf /\ b = fr.ctx /\ c = got.buf /\ d = got.ctx
  OBVIOUS
<1>2. RefsOf(fr) = <<a, b>> /\ RefsOf(got) = <<c, d>>
  BY <1>1 DEF RefsOf
<1>3. PICK n : n = <<a, b>> \o <<c, d>>
  OBVIOUS
<1>4. n \in Seq({a, b, c, d}) /\ Len(n) = 4 /\ n[1] = a /\ n[2] = b /\ n[3] = c /\ n[4] = d
  BY <1>3
<1>5. n = <<a, b, c, d>>
  BY <1>4
<1>6. PICK T : T = {a, b, c, d, p, q, v, m}
  OBVIOUS
<1>7. PICK w : w = <<p, q, v, v, m>>
  OBVIOUS
<1>8. n \in Seq(T) /\ w \in Seq(T)
  BY <1>5, <1>6, <1>7
<1>9. Len(w) = 5 /\ w[1] = p /\ w[2] = q /\ w[3] = v /\ w[4] = v /\ w[5] = m
  BY <1>7
<1>10. PICK k : k = n \o w
  OBVIOUS
<1>11. /\ k \in Seq(T) /\ Len(k) = 9
       /\ \A i \in 1 .. 4 : k[i] = n[i]
       /\ \A i \in 5 .. 9 : k[i] = w[i - 4]
  BY <1>4, <1>8, <1>9, <1>10, Concat45
<1>12. k \in Seq(T) /\ Len(k) = 9
  BY <1>11
<1>13. k[1] = a /\ k[2] = b /\ k[3] = c /\ k[4] = d
  BY <1>4, <1>11
<1>14. k[5] = p /\ k[6] = q /\ k[7] = v /\ k[8] = v /\ k[9] = m
  <2>1. k[5] = w[1] /\ k[6] = w[2] /\ k[7] = w[3] /\ k[8] = w[4] /\ k[9] = w[5]
    BY <1>11
  <2> QED BY <1>9, <2>1
<1>15. k = <<a, b, c, d, p, q, v, v, m>>
  BY <1>12, <1>13, <1>14
<1>16. RefsOf(fr) \o RefsOf(got) \o <<p, q, v, v, m>> = k
  BY <1>2, <1>3, <1>7, <1>10
<1> QED BY <1>1, <1>15, <1>16

LEMMA PlusNine ==
  ASSUME NEW count, NEW o \in Objects, count[o] \in Nat,
         NEW a, NEW b, NEW c, NEW d, NEW e, NEW f, NEW g, NEW h, NEW i
  PROVE  Plus(count, <<a, b, c, d, e, f, g, h, i>>)[o]
            = count[o] + Is(a, o) + Is(b, o) + Is(c, o) + Is(d, o) + Is(e, o)
                + Is(f, o) + Is(g, o) + Is(h, o) + Is(i, o)
<1>1. Extends(5, <<a, b, c, d, e>>, <<a, b, c, d, e, f>>, f)
  BY DEF Extends
<1>2. Extends(6, <<a, b, c, d, e, f>>, <<a, b, c, d, e, f, g>>, g)
  BY DEF Extends
<1>3. Extends(7, <<a, b, c, d, e, f, g>>, <<a, b, c, d, e, f, g, h>>, h)
  BY DEF Extends
<1>4. Extends(8, <<a, b, c, d, e, f, g, h>>, <<a, b, c, d, e, f, g, h, i>>, i)
  BY DEF Extends
<1>5. Plus(count, <<a, b, c, d, e>>)[o]
            = count[o] + Is(a, o) + Is(b, o) + Is(c, o) + Is(d, o) + Is(e, o)
  BY PlusABCDE
<1>6. Plus(count, <<a, b, c, d, e, f>>)[o] = Plus(count, <<a, b, c, d, e>>)[o] + Is(f, o)
  BY <1>1, PlusOne
<1>7. Plus(count, <<a, b, c, d, e, f, g>>)[o] = Plus(count, <<a, b, c, d, e, f>>)[o] + Is(g, o)
  BY <1>2, PlusOne
<1>8. Plus(count, <<a, b, c, d, e, f, g, h>>)[o] = Plus(count, <<a, b, c, d, e, f, g>>)[o] + Is(h, o)
  BY <1>3, PlusOne
<1>9. Plus(count, <<a, b, c, d, e, f, g, h, i>>)[o] = Plus(count, <<a, b, c, d, e, f, g, h>>)[o] + Is(i, o)
  BY <1>4, PlusOne
<1> QED BY <1>5, <1>6, <1>7, <1>8, <1>9

AddedNine(y1, y2, y3, y4, y5, y6, y7, y8, y9) == \A o \in Objects :
    /\ rc'[o] \in Nat
    /\ rc'[o] = rc[o] + Is(y1, o) + Is(y2, o) + Is(y3, o) + Is(y4, o) + Is(y5, o)
                    + Is(y6, o) + Is(y7, o) + Is(y8, o) + Is(y9, o)

LEMMA NineMore ==
  ASSUME NEW a \in Nat, NEW b \in Nat, NEW c \in Nat, NEW d \in Nat, NEW e \in Nat,
         NEW f \in Nat, NEW g \in Nat, NEW h \in Nat, NEW i \in Nat, NEW r \in Nat,
         NEW r2, r2 = r + a + b + c + d + e + f + g + h + i
  PROVE  /\ r2 >= r /\ (g = 1 \/ i = 1 => r2 > r /\ r2 > 0)
         /\ a = 0 /\ b = 0 /\ c = 0 /\ d = 0 /\ e = 0 /\ f = 0 /\ g = 0 /\ h = 0 /\ i = 0 => r2 = r
OBVIOUS

LEMMA NineCounts ==
  ASSUME Types, NEW X \in SUBSET Objects,
         NEW y1, NEW y2, NEW y3, NEW y4, NEW y5, NEW y6, NEW y7, NEW y8, NEW y9,
         AddedNine(y1, y2, y3, y4, y5, y6, y7, y8, y9),
         \A y \in {y1, y2, y3, y4, y5, y6, y7, y8, y9} : y = None \/ y \in X \/ life[y] = "live",
         X \subseteq {y7, y9}
  PROVE  /\ \A o \in Objects : rc'[o] >= rc[o] /\ (rc'[o] > rc[o] => life[o] = "live" \/ o \in X)
         /\ \A o \in X : rc'[o] > 0
<1>1. ASSUME NEW o \in Objects
      PROVE  /\ rc'[o] >= rc[o] /\ (rc'[o] > rc[o] => life[o] = "live" \/ o \in X)
             /\ o \in X => rc'[o] > 0
  <2>1. /\ Is(y1, o) \in Nat /\ Is(y2, o) \in Nat /\ Is(y3, o) \in Nat /\ Is(y4, o) \in Nat /\ Is(y5, o) \in Nat
        /\ Is(y6, o) \in Nat /\ Is(y7, o) \in Nat /\ Is(y8, o) \in Nat /\ Is(y9, o) \in Nat
        /\ rc[o] \in Nat
    BY IsInt DEF Types
  <2>2. rc'[o] = rc[o] + Is(y1, o) + Is(y2, o) + Is(y3, o) + Is(y4, o) + Is(y5, o)
                    + Is(y6, o) + Is(y7, o) + Is(y8, o) + Is(y9, o)
    BY DEF AddedNine
  <2>3. PICK a, b, c, d, e, f, g, h, i, r, r2 :
          /\ a = Is(y1, o) /\ b = Is(y2, o) /\ c = Is(y3, o) /\ d = Is(y4, o) /\ e = Is(y5, o)
          /\ f = Is(y6, o) /\ g = Is(y7, o) /\ h = Is(y8, o) /\ i = Is(y9, o)
          /\ r = rc[o] /\ r2 = rc'[o]
    OBVIOUS
  <2>4. /\ r2 = r + a + b + c + d + e + f + g + h + i
        /\ a \in Nat /\ b \in Nat /\ c \in Nat /\ d \in Nat /\ e \in Nat /\ f \in Nat
        /\ g \in Nat /\ h \in Nat /\ i \in Nat /\ r \in Nat
    BY <2>1, <2>2, <2>3
  <2>5. /\ r2 >= r /\ (g = 1 \/ i = 1 => r2 > r /\ r2 > 0)
        /\ a = 0 /\ b = 0 /\ c = 0 /\ d = 0 /\ e = 0 /\ f = 0 /\ g = 0 /\ h = 0 /\ i = 0 => r2 = r
    BY <2>4, NineMore
  <2>6. o \in X => g = 1 \/ i = 1
    BY <2>3 DEF Is
  <2>7. o \notin {y1, y2, y3, y4, y5, y6, y7, y8, y9} =>
            a = 0 /\ b = 0 /\ c = 0 /\ d = 0 /\ e = 0 /\ f = 0 /\ g = 0 /\ h = 0 /\ i = 0
    BY <2>3 DEF Is
  <2>8. o # None
    BY HwContextAssumption
  <2>9. r2 > r => o \in {y1, y2, y3, y4, y5, y6, y7, y8, y9}
    BY <2>4, <2>5, <2>7
  <2>10. r2 > r => life[o] = "live" \/ o \in X
    BY <2>8, <2>9
  <2>11. o \in X => r2 > 0
    BY <2>5, <2>6
  <2> QED BY <2>3, <2>5, <2>10, <2>11
<1> QED BY <1>1

LEMMA NinePlus ==
  ASSUME Types, NEW y1, NEW y2, NEW y3, NEW y4, NEW y5, NEW y6, NEW y7, NEW y8, NEW y9,
         rc' = Plus(rc, <<y1, y2, y3, y4, y5, y6, y7, y8, y9>>)
  PROVE  AddedNine(y1, y2, y3, y4, y5, y6, y7, y8, y9)
<1>1. ASSUME NEW o \in Objects
      PROVE  /\ rc'[o] \in Nat
             /\ rc'[o] = rc[o] + Is(y1, o) + Is(y2, o) + Is(y3, o) + Is(y4, o) + Is(y5, o)
                    + Is(y6, o) + Is(y7, o) + Is(y8, o) + Is(y9, o)
  <2>1. rc[o] \in Nat
    BY DEF Types
  <2>2. rc'[o] = rc[o] + Is(y1, o) + Is(y2, o) + Is(y3, o) + Is(y4, o) + Is(y5, o)
                    + Is(y6, o) + Is(y7, o) + Is(y8, o) + Is(y9, o)
    BY <2>1, PlusNine
  <2>3. /\ Is(y1, o) \in Nat /\ Is(y2, o) \in Nat /\ Is(y3, o) \in Nat /\ Is(y4, o) \in Nat
        /\ Is(y5, o) \in Nat /\ Is(y6, o) \in Nat /\ Is(y7, o) \in Nat /\ Is(y8, o) \in Nat
        /\ Is(y9, o) \in Nat
    BY IsInt
  <2>4. rc'[o] \in Nat
    BY <2>1, <2>2, <2>3
  <2> QED BY <2>2, <2>4
<1> QED BY <1>1 DEF AddedNine

LEMMA NineSum ==
  ASSUME NEW a \in Nat, NEW b \in Nat, NEW c \in Nat, NEW d \in Nat, NEW q \in Nat,
         NEW v \in Nat, NEW m \in Nat, NEW r \in Nat, NEW s \in Nat, NEW h \in Nat,
         NEW r2, NEW s2, NEW h2, r2 = r + a + b + c + d + b + q + v + v + m,
         s2 = s + m, h2 = h + (q + c + d) + (b + a + b)
  PROVE  r2 + s + h = r + s2 + h2 + v + v
OBVIOUS

\* What MapThrough does with the two mappings.
Through(t, dst, from, to, m, via, got) ==
    /\ life' = [life EXCEPT ![m] = "live", ![via] = "live"]
    /\ parent' = [parent EXCEPT ![m] = to.ctx, ![via] = from.ctx]
    /\ frame' = [frame EXCEPT ![dst].buf = m]
    /\ mapsrc' = [mapsrc EXCEPT ![via] = from, ![m] = got]
    /\ rc' = Plus(rc, RefsOf(from) \o RefsOf(got) \o <<from.ctx, to.ctx, via, via, m>>)
    /\ Push(t, Drop(via) \o Drop(via))
    /\ UNCHANGED <<source, stage, pool, held>>

LEMMA ThroughKeeps ==
  ASSUME IInv, NEW t \in Threads, todo[t] = <<>>, NEW dst \in Frames, NEW src \in Frames,
         NEW from \in Frame, from = frame[src], NEW to \in Frame, to = frame[dst],
         to.buf = None, from.buf # None, from.ctx # None, to.ctx # None,
         NEW m \in Maps, NEW via \in Maps, m # via, life[m] = "none", life[via] = "none",
         NEW got \in Frame, got \in {from, Empty},
         Through(t, dst, from, to, m, via, got)
  PROVE  IInv'
<1>1. Types /\ Fields /\ Alive /\ Companions /\ Lived /\ Ranked
  BY AllAlive DEF IInv
<1>0. /\ life' = [life EXCEPT ![m] = "live", ![via] = "live"]
      /\ parent' = [parent EXCEPT ![m] = to.ctx, ![via] = from.ctx]
      /\ frame' = [frame EXCEPT ![dst].buf = m]
      /\ mapsrc' = [mapsrc EXCEPT ![via] = from, ![m] = got]
      /\ rc' = Plus(rc, RefsOf(from) \o RefsOf(got) \o <<from.ctx, to.ctx, via, via, m>>)
      /\ Push(t, Drop(via) \o Drop(via))
      /\ UNCHANGED <<source, stage, pool, held>>
  BY DEF Through
<1>2. /\ from.ctx \in Contexts /\ to.ctx \in Contexts /\ life[from.ctx] = "live" /\ life[to.ctx] = "live"
      /\ life[from.buf] = "live"
      /\ got.buf = None \/ life[got.buf] = "live"
      /\ got.ctx = None \/ life[got.ctx] = "live"
  BY <1>1, FrameParts DEF Alive
<1>3. /\ m \in Objects /\ via \in Objects /\ m \notin Surfaces /\ via \notin Surfaces
      /\ m # None /\ via # None
      /\ {m, via} \in SUBSET Maps /\ {} \in SUBSET Surfaces /\ {m, via} \in SUBSET Objects
      /\ to.ctx \notin Maps /\ from.ctx \notin Maps
  BY <1>2, Kinds
<1>4. /\ parent' \in [Objects -> Devices \union Contexts \union {None}]
      /\ parent'[m] = to.ctx /\ parent'[via] = from.ctx
      /\ \A o \in Objects : o \notin {m, via} => parent'[o] = parent[o]
  BY <1>0, <1>1, <1>2, <1>3 DEF Types
<1>5. /\ life' \in [Objects -> Lives]
      /\ life' = [o \in Objects |-> IF o \in {} \union {m, via} THEN "live" ELSE life[o]]
  BY <1>0, <1>1, <1>3 DEF Types, Lives
<1>6. [buf |-> m, ctx |-> to.ctx] \in Frame
  BY <1>2 DEF Frame
<1>7. PICK fr \in Frame : fr = [buf |-> m, ctx |-> to.ctx] /\ fr.buf = m /\ fr.ctx = to.ctx
  BY <1>6
<1>8. frame' \in [Frames -> Frame] /\ Changes(frame, frame', dst, fr)
  <2>1. frame'[dst] = fr
    BY <1>0, <1>1, <1>7 DEF Types, Frame
  <2>2. DOMAIN frame' = Frames /\ \A g \in Frames : g # dst => frame'[g] = frame[g]
    BY <1>0, <1>1 DEF Types
  <2>3. frame' \in [Frames -> Frame]
    BY <1>0, <1>1, <2>1, <2>2 DEF Types
  <2> QED BY <1>1, <2>1, <2>2, <2>3 DEF Changes, Types
<1>9. /\ mapsrc' \in [Maps -> Frame] /\ mapsrc'[m] = got /\ mapsrc'[via] = from
      /\ \A o \in Maps : o \notin {m, via} => mapsrc'[o] = mapsrc[o]
  BY <1>0, <1>1 DEF Types
<1>26. PICK a, b, c, d, q : a = from.buf /\ b = from.ctx /\ c = got.buf /\ d = got.ctx /\ q = to.ctx
  OBVIOUS
<1>10. AddedNine(a, b, c, d, b, q, via, via, m)
  <2>1. RefsOf(from) \o RefsOf(got) \o <<b, q, via, via, m>> = <<a, b, c, d, b, q, via, via, m>>
    BY <1>26, NineConcat
  <2>2. rc' = Plus(rc, <<a, b, c, d, b, q, via, via, m>>)
    BY <1>0, <1>26, <2>1
  <2> QED BY <1>1, <2>2, NinePlus
<1>11. Pushes(t, via, via)
  BY <1>0 DEF Push, Pushes
<1>12. todo' \in Todo /\ Few(todo')
  BY <1>1, <1>3, <1>11, PushTwo
<1>13. rc' \in [Objects -> Nat]
  <2>1. \A o \in Objects : rc'[o] \in Nat
    BY <1>10 DEF AddedNine
  <2> QED BY <1>0, <2>1 DEF Plus
<1>14. Types'
  BY <1>0, <1>1, <1>4, <1>5, <1>8, <1>9, <1>12, <1>13 DEF Types
<1>15. Joined({}, {m, via})
  BY <1>0, <1>4, <1>5, <1>9 DEF Joined
<1>16. JoinedWell({}, {m, via})
  BY <1>2, <1>4 DEF JoinedWell
<1>17. JoinedGrows({}, {m, via})
  <2>1. \A y \in {a, b, c, d, b, q, via, via, m} : y = None \/ y \in {m, via} \/ life[y] = "live"
    BY <1>2, <1>26
  <2>2. PICK X \in SUBSET Objects : X = {m, via}
    BY <1>3
  <2>3. X \subseteq {via, m}
    BY <2>2
  <2>4. \A y \in {a, b, c, d, b, q, via, via, m} : y = None \/ y \in X \/ life[y] = "live"
    BY <2>1, <2>2
  <2>5. /\ \A o \in Objects : rc'[o] >= rc[o] /\ (rc'[o] > rc[o] => life[o] = "live" \/ o \in X)
        /\ \A o \in X : rc'[o] > 0
    BY <1>1, <1>10, <2>3, <2>4, NineCounts
  <2>6. {} \union {m, via} = X
    BY <2>2
  <2> QED BY <2>5, <2>6 DEF JoinedGrows
<1>18. Ranked' /\ \A o \in Objects : Held(o)' = Held(o) + MapRefs(m, o) + MapRefs(via, o)
  <2>1. ASSUME NEW o \in (Devices \union Contexts \union Maps) \ {m, via}  PROVE Keeps(o)
    <3>1. o \in Objects
      BY Kinds
    <3> QED BY <1>0, <1>4, <1>5, <1>9, <3>1 DEF Keeps
  <2>2. \A x \in {m, via} : /\ parent'[x] \notin Maps
                            /\ mapsrc'[x].buf \notin {m, via} /\ mapsrc'[x].ctx \notin {m, via}
    BY <1>2, <1>3, <1>4, <1>9
  <2>3. life[m] # "live" /\ life'[m] = "live" /\ life[via] # "live" /\ life'[via] = "live"
    BY <1>3, <1>5
  <2> QED BY <1>1, <2>1, <2>2, <2>3, TwoBirths
<1>19. \A s \in Surfaces : parent'[s] = parent[s]
  BY <1>4, Kinds
<1>20. \A g \in Frames : Pairing(frame'[g])
  <2>1. Pairing(fr)
    BY <1>3, <1>7 DEF Pairing
  <2>2. PICK S : S = {}
    OBVIOUS
  <2>3. \A s \in S : life[s] # "live"
    BY <2>2
  <2>4. \A o \in Surfaces : o \notin S => parent'[o] = parent[o]
    BY <1>19
  <2> QED BY <1>1, <1>8, <2>1, <2>3, <2>4, FramesPaired
<1>21. \A o \in {m, via} : Pairing(mapsrc'[o])
  <2>1. Pairing(from)
    BY <1>1, <1>19 DEF Pairing, Paired, Companions
  <2>2. Pairing(Empty)
    BY Kinds, FrameParts DEF Pairing
  <2> QED BY <1>9, <2>1, <2>2
<1>22. ASSUME NEW o \in Objects
       PROVE  rc'[o] + Shown(o) + Held(o) = rc[o] + Shown(o)' + Held(o)' + Is(via, o) + Is(via, o)
  <2>1. Shown(o)' = Shown(o) - Is(to.buf, o) - Is(q, o) + Is(m, o) + Is(q, o)
    BY <1>1, <1>7, <1>8, <1>26, FrameChange
  <2>2. /\ Is(a, o) \in Nat /\ Is(b, o) \in Nat /\ Is(c, o) \in Nat /\ Is(d, o) \in Nat
        /\ Is(via, o) \in Nat /\ Is(m, o) \in Nat /\ Is(q, o) \in Nat /\ Is(to.buf, o) = 0
    BY IsInt
  <2>3. /\ MapRefs(m, o) = Is(q, o) + Is(c, o) + Is(d, o)
        /\ MapRefs(via, o) = Is(b, o) + Is(a, o) + Is(b, o)
    BY <1>4, <1>9, <1>26 DEF MapRefs
  <2>4. Held(o)' = Held(o) + MapRefs(m, o) + MapRefs(via, o) /\ Held(o) \in Nat /\ Shown(o) \in Nat /\ rc[o] \in Nat
    BY <1>1, <1>18, Sums DEF Types
  <2>5. rc'[o] = rc[o] + Is(a, o) + Is(b, o) + Is(c, o) + Is(d, o)
                    + Is(b, o) + Is(q, o) + Is(via, o) + Is(via, o) + Is(m, o)
    BY <1>10 DEF AddedNine
  <2>6. Shown(o)' = Shown(o) + Is(m, o)
    BY <2>1, <2>2, <2>4
  <2>7. Held(o)' = Held(o) + (Is(q, o) + Is(c, o) + Is(d, o)) + (Is(b, o) + Is(a, o) + Is(b, o))
    BY <2>3, <2>4
  <2>8. PICK x1, x2, x3, x4, x5, x6, x7 :
          /\ x1 = Is(a, o) /\ x2 = Is(b, o) /\ x3 = Is(c, o) /\ x4 = Is(d, o)
          /\ x5 = Is(q, o) /\ x6 = Is(via, o) /\ x7 = Is(m, o)
    OBVIOUS
  <2>9. PICK r, s, h, r2, s2, h2 :
          r = rc[o] /\ s = Shown(o) /\ h = Held(o) /\ r2 = rc'[o] /\ s2 = Shown(o)' /\ h2 = Held(o)'
    OBVIOUS
  <2>10. /\ r2 = r + x1 + x2 + x3 + x4 + x2 + x5 + x6 + x6 + x7
         /\ s2 = s + x7 /\ h2 = h + (x5 + x3 + x4) + (x2 + x1 + x2)
         /\ r \in Nat /\ s \in Nat /\ h \in Nat /\ x1 \in Nat /\ x2 \in Nat /\ x3 \in Nat
         /\ x4 \in Nat /\ x5 \in Nat /\ x6 \in Nat /\ x7 \in Nat
    BY <2>2, <2>4, <2>5, <2>6, <2>7, <2>8, <2>9
  <2>11. r2 + s + h = r + s2 + h2 + x6 + x6
    BY <2>10, NineSum
  <2> QED BY <2>8, <2>9, <2>11
<1>23. PICK B : B = {m, via}
  OBVIOUS
<1>24. /\ B \in SUBSET Maps /\ Joined({}, B) /\ JoinedWell({}, B) /\ JoinedGrows({}, B)
       /\ \A o \in B : Pairing(mapsrc'[o])
  BY <1>3, <1>15, <1>16, <1>17, <1>21, <1>23
<1>25. via \in Objects \union {None}
  BY <1>3
<1> QED BY <1>3, <1>11, <1>14, <1>18, <1>20, <1>22, <1>24, <1>25, JoinedKeeps

LEMMA MapThroughKeeps ==
  ASSUME IInv, NEW t \in Threads, NEW dst \in Frames, NEW src \in Frames, MapThrough(t, dst, src)
  PROVE  IInv'
<1>1. Types
  BY DEF IInv
<1>2. PICK from \in Frame, to \in Frame : from = frame[src] /\ to = frame[dst]
  BY <1>1 DEF Types
<1>3. PICK m \in Maps, via \in Maps, got \in {from, Empty} :
        /\ life[m] = "none" /\ life[via] = "none" /\ m # via
        /\ Through(t, dst, from, to, m, via, got)
  BY <1>2 DEF MapThrough, Through
<1>4. todo[t] = <<>> /\ to.buf = None /\ from.buf # None /\ from.ctx # None /\ to.ctx # None
  BY <1>2 DEF MapThrough, Idle
<1>5. got \in Frame
  BY DEF Frame, Empty
<1> QED BY <1>2, <1>3, <1>4, <1>5, ThroughKeeps


-----------------------------------------------------------------------------
\* A context gets a pool with some surfaces in it, or none.
Stocked(t, c, got) ==
    /\ todo[t] = <<>> /\ held[c] > 0 /\ stage[c] = "new"
    /\ \A s \in got : life[s] = "none"
    /\ stage' \in [Contexts -> {"new", "ready", "failed"}] /\ stage'[c] # "new"
    /\ \A x \in Contexts : x # c => stage'[x] = stage[x]
    /\ pool' \in [Contexts -> {"none", "open"}]
    /\ \A x \in Contexts : x # c => pool'[x] = pool[x]
    /\ pool[c] = "open" => pool'[c] = "open"
    /\ got # {} \/ stage'[c] = "ready" => pool'[c] = "open"
    /\ life' = [o \in Objects |-> IF o \in got THEN "idle" ELSE life[o]]
    /\ parent' = [o \in Objects |-> IF o \in got THEN c ELSE parent[o]]
    /\ UNCHANGED <<rc, source, mapsrc, frame, held, todo>>

LEMMA StockedKeeps ==
  ASSUME IInv, NEW t \in Threads, NEW c \in Contexts, NEW got \in SUBSET Surfaces, Stocked(t, c, got)
  PROVE  IInv'
<1>1. Types /\ Fields /\ Alive /\ Companions /\ Lived /\ Ledger /\ Pools /\ Ranked
  BY AllAlive DEF IInv
<1>2. /\ todo[t] = <<>> /\ held[c] > 0 /\ stage[c] = "new"
      /\ \A s \in got : life[s] = "none"
      /\ UNCHANGED <<rc, source, mapsrc, frame, held, todo>>
  BY DEF Stocked
<1>3. /\ stage' \in [Contexts -> {"new", "ready", "failed"}]
      /\ \A x \in Contexts : x # c => stage'[x] = stage[x]
      /\ pool' \in [Contexts -> {"none", "open"}]
      /\ \A x \in Contexts : x # c => pool'[x] = pool[x]
      /\ pool[c] = "open" => pool'[c] = "open"
      /\ got # {} \/ stage'[c] = "ready" => pool'[c] = "open"
  BY DEF Stocked
<1>4. /\ life' = [o \in Objects |-> IF o \in got THEN "idle" ELSE life[o]]
      /\ parent' = [o \in Objects |-> IF o \in got THEN c ELSE parent[o]]
  BY DEF Stocked
<1>5. life[c] = "live" /\ c \in Objects /\ c \notin got
  BY <1>1, <1>2, Kinds DEF Alive
<1>6. \A o \in Objects : /\ o \in got => life'[o] = "idle" /\ parent'[o] = c
                         /\ o \notin got => life'[o] = life[o] /\ parent'[o] = parent[o]
  BY <1>4
<1>7. /\ life' \in [Objects -> Lives]
      /\ parent' \in [Objects -> Devices \union Contexts \union {None}]
  BY <1>1, <1>4 DEF Types, Lives
<1>8. Types'
  BY <1>1, <1>2, <1>3, <1>7 DEF Types
<1>9. \A o \in Devices \union Contexts \union Maps : o \notin got /\ o \in Objects
  BY Kinds
<1>10. srcs' = srcs /\ pars' = pars /\ mbufs' = mbufs /\ mctxs' = mctxs
  <2>1. \A o \in Devices \union Contexts \union Maps : Keeps(o)
    BY <1>2, <1>6, <1>9 DEF Keeps
  <2> QED BY <2>1, NoBirth
<1>11. Ranked'
  BY <1>1, <1>10, NoBirthRanks
<1>12. Ledger'
  <2>1. bufs' = bufs /\ ctxs' = ctxs
    BY <1>2 DEF bufs, ctxs
  <2>2. ASSUME NEW o \in Objects  PROVE RefsTo(o)' = RefsTo(o)
    BY <1>2, <1>10, <2>1 DEF RefsTo, HeldOf
  <2> QED BY <1>1, <1>2, <2>2 DEF Ledger
<1>13. Lived'
  <2>1. ASSUME NEW o \in Objects
        PROVE  (life'[o] = "live" <=> rc'[o] > 0) /\ (life'[o] = "idle" => o \in Surfaces)
    BY <1>1, <1>2, <1>6 DEF Lived
  <2> QED BY <2>1 DEF Lived
<1>14. Fields'
  <2>1. /\ \A d \in Devices : source'[d] \in Devices \union {None}
        /\ \A x \in Contexts : source'[x] \in Contexts \union {None}
    BY <1>1, <1>2 DEF Fields
  <2>2. \A x \in Contexts : life'[x] # "none" => parent'[x] \in Devices
    BY <1>1, <1>6, <1>9 DEF Fields
  <2>3. \A m \in Maps : life'[m] # "none" => parent'[m] \in Contexts
    BY <1>1, <1>6, <1>9 DEF Fields
  <2>4. ASSUME NEW s \in Surfaces, life'[s] # "none"
        PROVE  parent'[s] \in Contexts /\ pool'[parent'[s]] = "open"
    <3>1. CASE s \in got
      BY <1>3, <1>6, <3>1, Kinds
    <3>2. CASE s \notin got
      <4>1. parent'[s] = parent[s] /\ parent[s] \in Contexts /\ pool[parent[s]] = "open"
        BY <1>1, <1>6, <2>4, <3>2, Kinds DEF Fields
      <4> QED BY <1>3, <4>1
    <3> QED BY <3>1, <3>2
  <2>5. ASSUME NEW o \in Objects, life'[o] = "none"
        PROVE  /\ parent'[o] = None
               /\ o \in Devices \union Contexts => source'[o] = None
               /\ o \in Contexts => stage'[o] = "new" /\ pool'[o] = "none"
               /\ o \in Maps => mapsrc'[o] = Empty
    <3>1. life[o] = "none" /\ parent'[o] = parent[o] /\ o # c
      BY <1>5, <1>6, <2>5
    <3>2. /\ parent[o] = None
          /\ o \in Devices \union Contexts => source[o] = None
          /\ o \in Contexts => stage[o] = "new" /\ pool[o] = "none"
          /\ o \in Maps => mapsrc[o] = Empty
      BY <1>1, <3>1 DEF Fields
    <3> QED BY <1>2, <1>3, <3>1, <3>2
  <2> QED BY <2>1, <2>2, <2>3, <2>4, <2>5 DEF Fields
<1>15. Companions'
  <2>1. \A s \in got : life[s] # "live"
    BY <1>2
  <2>2. \A o \in Surfaces : o \notin got => parent'[o] = parent[o]
    BY <1>6, Kinds
  <2>3. ASSUME NEW f \in Frames  PROVE Pairing(frame[f])
    <3>1. Paired(frame[f]) /\ (frame[f].buf # None => life[frame[f].buf] = "live")
      BY <1>1 DEF Companions, Alive
    <3> QED BY <1>1, <2>1, <2>2, <3>1, StillPaired
  <2>4. ASSUME NEW m \in Maps, life'[m] = "live"  PROVE Pairing(mapsrc[m])
    <3>1. life[m] = "live"
      BY <1>6, <1>9, <2>4
    <3>2. Paired(mapsrc[m]) /\ (mapsrc[m].buf # None => life[mapsrc[m].buf] = "live")
      BY <1>1, <3>1 DEF Companions, Alive
    <3> QED BY <1>1, <2>1, <2>2, <3>2, StillPaired
  <2> QED BY <1>2, <2>3, <2>4 DEF Companions, Paired, Pairing
<1>16. OpenPools'
  <2>1. ASSUME NEW x \in Contexts, life'[x] = "live", stage'[x] = "ready", source'[x] = None
        PROVE  pool'[x] = "open"
    <3>1. life[x] = "live" /\ source[x] = None
      BY <1>2, <1>6, <1>9, <2>1
    <3> QED BY <1>1, <1>3, <2>1, <3>1 DEF Pools
  <2>2. ASSUME NEW x \in Contexts, life'[x] = "live", source'[x] # None
        PROVE  stage'[source'[x]] = "ready"
    <3>1. life[x] = "live" /\ source'[x] = source[x] /\ source[x] # None
      BY <1>2, <1>6, <1>9, <2>2
    <3>2. stage[source[x]] = "ready" /\ source[x] \in Contexts
      BY <1>1, <3>1 DEF Pools, Fields
    <3> QED BY <1>2, <1>3, <3>1, <3>2
  <2> QED BY <2>1, <2>2 DEF OpenPools
<1>17. ApiStep(t)
  <2>1. \A o \in Objects : life[o] \in {"live", "dying"} =>
          /\ life'[o] = life[o] /\ parent'[o] = parent[o]
          /\ o \in Devices \union Contexts => source'[o] = source[o]
    BY <1>2, <1>6
  <2>2. \A o \in Objects : life'[o] = "dying" => life[o] = "dying"
    BY <1>6
  <2>3. \A x \in Contexts : pool'[x] = "open" => pool[x] = "open" \/ life[x] = "live"
    BY <1>3, <1>5
  <2>4. Pushes(t, None, None)
    BY <1>1, <1>2, PushesFew
  <2>5. None \in Objects \union {None} /\ None \notin Surfaces
    BY Kinds
  <2> QED BY <2>1, <2>2, <2>3, <2>4, <2>5 DEF ApiStep
<1> QED BY <1>8, <1>11, <1>12, <1>13, <1>14, <1>15, <1>16, <1>17, Api

LEMMA ContextInitKeeps ==
  ASSUME IInv, NEW t \in Threads, NEW c \in Contexts, ContextInit(t, c)
  PROVE  IInv'
<1>1. /\ stage \in [Contexts -> {"new", "ready", "failed"}] /\ pool \in [Contexts -> {"none", "open"}]
      /\ DOMAIN life = Objects /\ DOMAIN parent = Objects
  BY DEF IInv, Types
<1>2. todo[t] = <<>> /\ held[c] > 0 /\ stage[c] = "new" /\ UNCHANGED <<rc, source, mapsrc, frame, held, todo>>
  BY DEF ContextInit, Idle
<1>3. ASSUME pool' = [pool EXCEPT ![c] = "open"],
             NEW got \in SUBSET {s \in Surfaces : life[s] = "none"}, NEW done \in {"ready", "failed"},
             stage' = [stage EXCEPT ![c] = done],
             life' = [o \in Objects |-> IF o \in got THEN "idle" ELSE life[o]],
             parent' = [o \in Objects |-> IF o \in got THEN c ELSE parent[o]]
      PROVE  IInv'
  <2>1. Stocked(t, c, got)
    BY <1>1, <1>2, <1>3 DEF Stocked
  <2> QED BY <2>1, StockedKeeps
<1>4. ASSUME stage' = [stage EXCEPT ![c] = "failed"], UNCHANGED <<pool, life, parent>>
      PROVE  IInv'
  <2>1. PICK got \in SUBSET Surfaces : got = {}
    OBVIOUS
  <2>2. /\ life' = [o \in Objects |-> IF o \in got THEN "idle" ELSE life[o]]
        /\ parent' = [o \in Objects |-> IF o \in got THEN c ELSE parent[o]]
    <3>1. life = [o \in Objects |-> life[o]] /\ parent = [o \in Objects |-> parent[o]]
      BY DEF IInv, Types
    <3> QED BY <1>4, <2>1, <3>1
  <2>3. Stocked(t, c, got)
    BY <1>1, <1>2, <1>4, <2>1, <2>2 DEF Stocked
  <2> QED BY <2>3, StockedKeeps
<1> QED
  <2>1. \/ /\ pool' = [pool EXCEPT ![c] = "open"]
           /\ \E got \in SUBSET {s \in Surfaces : life[s] = "none"}, done \in {"ready", "failed"} :
                /\ stage' = [stage EXCEPT ![c] = done]
                /\ life' = [o \in Objects |-> IF o \in got THEN "idle" ELSE life[o]]
                /\ parent' = [o \in Objects |-> IF o \in got THEN c ELSE parent[o]]
        \/ stage' = [stage EXCEPT ![c] = "failed"] /\ UNCHANGED <<pool, life, parent>>
    BY DEF ContextInit
  <2> QED BY <1>3, <1>4, <2>1


-----------------------------------------------------------------------------
\* A thread takes the first call off its list.
Takes(t, call) == /\ todo[t] # <<>> /\ call = Head(todo[t])
                  /\ todo' = [todo EXCEPT ![t] = Tail(@)]

LEMMA TakesTypes ==
  ASSUME Types, NEW t \in Threads, NEW call, Takes(t, call)
  PROVE  /\ call \in Calls /\ todo' \in Todo /\ Few(todo')
         /\ todo'[t] = Tail(todo[t]) /\ todo[t] = <<call>> \o todo'[t]
         /\ \A u \in Threads \ {t} : todo'[u] = todo[u]
         /\ \A w \in {"unref", "last"}, o \in Objects :
               Count(Marks(todo', w), o) = Count(Marks(todo, w), o) - Of(call, w, o)
<1>1. todo \in Todo /\ Few(todo) /\ todo[t] \in Seq(Calls) /\ todo[t] # <<>>
  BY DEF Types, Todo, Takes
<1>2. PICK n : n = Tail(todo[t])
  OBVIOUS
<1>3. n \in Seq(Calls) /\ Head(todo[t]) \in Calls /\ todo[t] = <<Head(todo[t])>> \o n
  BY <1>1, <1>2, TailSeq
<1>4. todo' = [todo EXCEPT ![t] = n] /\ call = Head(todo[t])
  BY <1>2 DEF Takes
<1>5. /\ todo' \in Todo /\ todo'[t] = n
      /\ \A u \in Threads \ {t} : todo'[u] = todo[u]
  BY <1>1, <1>3, <1>4 DEF Todo
<1>6. Changes(todo, todo', t, Tail(todo[t]))
  BY <1>1, <1>2, <1>4 DEF Todo, Changes
<1>7. PICK tn : tn = todo'
  OBVIOUS
<1>8. /\ Few(tn)
      /\ \A w \in {"unref", "last"}, o \in Objects :
               Count(Marks(tn, w), o) = Count(Marks(todo, w), o) - Of(Head(todo[t]), w, o)
  BY <1>1, <1>5, <1>6, <1>7, Popped
<1> QED BY <1>2, <1>3, <1>4, <1>5, <1>7, <1>8

LEMMA TakesCounts ==
  ASSUME Types, NEW t \in Threads, NEW call, Takes(t, call), NEW o \in Objects
  PROVE  /\ Count(Marks(todo', "unref"), o) = Count(Marks(todo, "unref"), o) - Of(call, "unref", o)
         /\ Count(Marks(todo', "last"), o) = Count(Marks(todo, "last"), o) - Of(call, "last", o)
BY TakesTypes

LEMMA TakesKept ==
  ASSUME Types, Promises, NEW t \in Threads, NEW call, Takes(t, call)
  PROVE  /\ \A u \in Threads : Kept(parent, source, todo'[u])
         /\ \A p \in Promised(parent, source, call) : Among(p, todo'[t])
<1>1. todo[t] \in Seq(Calls) /\ todo[t] # <<>> /\ call = Head(todo[t])
  BY DEF Types, Todo, Takes
<1>2. todo'[t] = Tail(todo[t]) /\ \A u \in Threads \ {t} : todo'[u] = todo[u]
  BY TakesTypes
<1>3. \A u \in Threads : Kept(parent, source, todo[u])
  BY DEF Promises
<1>4. PICK s \in Seq(Calls) : s = todo[t]
  BY <1>1
<1>5. /\ Kept(parent, source, Tail(s))
      /\ \A p \in Promised(parent, source, Head(s)) : Among(p, Tail(s))
  BY <1>1, <1>3, <1>4, KeptTail
<1> QED BY <1>1, <1>2, <1>3, <1>4, <1>5

LEMMA TakesAmong ==
  ASSUME Types, NEW t \in Threads, NEW call, Takes(t, call), NEW u \in Threads, NEW p
  PROVE  /\ Among(p, todo'[u]) => Among(p, todo[u])
         /\ Among(p, todo[u]) /\ p # call => Among(p, todo'[u])
<1>1. CASE u # t
  <2>1. todo'[u] = todo[u]
    BY <1>1, TakesTypes
  <2> QED BY <2>1
<1>2. CASE u = t
  <2>1. call \in Calls /\ todo'[t] \in Seq(Calls) /\ todo[t] = <<call>> \o todo'[t]
    BY TakesTypes DEF Todo
  <2>2. PICK s \in Seq(Calls) : s = todo'[t]
    BY <2>1
  <2>3. Among(p, <<call>> \o s) <=> p = call \/ Among(p, s)
    BY <2>1, AmongCons
  <2> QED BY <1>2, <2>1, <2>2, <2>3
<1> QED BY <1>1, <1>2

\* What is on the lists, as it was before.
LEMMA Listed ==
  ASSUME IInv, NEW t \in Threads, NEW call, Takes(t, call), NEW u \in Threads, NEW i \in DOMAIN todo'[u]
  PROVE  /\ todo'[u][i] \in Calls /\ Right(life, todo'[u][i])
         /\ todo'[u][i].what = "unref" => life[todo'[u][i].obj] = "live"
<1>1. Types /\ Alive
  BY AllAlive DEF IInv
<1>2. Among(todo'[u][i], todo'[u])
  BY DEF Among
<1>3. PICK j \in DOMAIN todo[u] : todo[u][j] = todo'[u][i]
  BY <1>1, <1>2, TakesAmong DEF Among
<1>4. Right(life, todo[u][j]) /\ todo[u][j] \in Calls
  BY <1>1 DEF IInv, Deaths, Types, Todo
<1>5. todo[u][j].what = "unref" => life[todo[u][j].obj] = "live"
  BY <1>1 DEF Alive
<1> QED BY <1>3, <1>4, <1>5

\* A call other than an unreference changes no counts, and nothing of what is in use.
Silent == /\ rc' = rc /\ frame' = frame /\ held' = held
          /\ srcs' = srcs /\ pars' = pars /\ mbufs' = mbufs /\ mctxs' = mctxs
          /\ \A o \in Objects : life'[o] = "live" <=> life[o] = "live"
          /\ \A o \in Objects : life'[o] = "idle" => o \in Surfaces

SameCalls(call) ==
    /\ \A u \in Threads : \A i \in DOMAIN todo'[u] :
          /\ Promised(parent', source', todo'[u][i]) = Promised(parent, source, todo'[u][i])
          /\ Right(life', todo'[u][i])
    /\ \A o \in Objects : (life'[o] = "dying" <=> life[o] = "dying" /\ Of(call, "last", o) = 0)
    /\ \A c \in Contexts : pool'[c] = "open" /\ life'[c] # "live" =>
          pool[c] = "open" /\ life[c] # "live" /\ call # Call("frames_uninit", c)

LEMMA SilentKeeps ==
  ASSUME IInv, NEW t \in Threads, NEW call, Takes(t, call), call.what # "unref",
         Silent, SameCalls(call), Types', Fields', Companions', OpenPools'
  PROVE  IInv'
<1>1. Types /\ Promises /\ Alive /\ Ledger /\ Lived /\ Ranked /\ Deaths /\ Pools
  BY AllAlive DEF IInv
<1>2. call \in Calls
  BY <1>1, TakesTypes
<1>3. Ledger'
  <2>1. ASSUME NEW o \in Objects  PROVE RefsTo(o)' = RefsTo(o)
    <3>1. Count(Marks(todo', "unref"), o) = Count(Marks(todo, "unref"), o) - Of(call, "unref", o)
      BY <1>1, TakesTypes
    <3>2. Of(call, "unref", o) = 0
      BY DEF Of, Mark
    <3>3. Count(Marks(todo, "unref"), o) \in Nat
      BY <1>1, NatParts
    <3>4. Count(Marks(todo', "unref"), o) = Count(Marks(todo, "unref"), o)
      BY <3>1, <3>2, <3>3
    <3>5. bufs' = bufs /\ ctxs' = ctxs /\ HeldOf(o)' = HeldOf(o)
      BY DEF Silent, bufs, ctxs, HeldOf
    <3> QED BY <3>4, <3>5 DEF RefsTo, Silent
  <2> QED BY <1>1, <2>1 DEF Ledger, Silent
<1>4. Lived'
  BY <1>1 DEF Lived, Silent
<1>5. Ranked'
  BY <1>1, NoBirthRanks DEF Silent
<1>6. Promises'
  <2>1. ASSUME NEW u \in Threads  PROVE Kept(parent', source', todo'[u])
    <3>1. PICK s \in Seq(Calls) : s = todo'[u]
      BY DEF Types, Todo
    <3>2. Kept(parent, source, s)
      BY <1>1, <3>1, TakesKept
    <3>3. \A i \in DOMAIN s : Promised(parent', source', s[i]) = Promised(parent, source, s[i])
      BY <3>1 DEF SameCalls
    <3> QED BY <3>1, <3>2, <3>3, KeptSame
  <2> QED BY <2>1 DEF Promises
<1>7. Deaths'
  <2>1. ASSUME NEW o \in Objects
        PROVE  Count(Marks(todo', "last"), o) = IF life'[o] = "dying" THEN 1 ELSE 0
    <3>1. Count(Marks(todo', "last"), o) = Count(Marks(todo, "last"), o) - Of(call, "last", o)
      BY <1>1, TakesTypes
    <3>2. Count(Marks(todo, "last"), o) = IF life[o] = "dying" THEN 1 ELSE 0
      BY <1>1 DEF Deaths
    <3>3. Of(call, "last", o) \in {0, 1}
      BY DEF Of, Is
    <3>4. Count(Marks(todo', "last"), o) \in Nat
      BY CountNat DEF Types, Few
    <3>5. life'[o] = "dying" <=> life[o] = "dying" /\ Of(call, "last", o) = 0
      BY DEF SameCalls
    <3> QED BY <3>1, <3>2, <3>3, <3>4, <3>5
  <2> QED BY <2>1 DEF Deaths, SameCalls
<1>8. Pools'
  <2>1. ASSUME NEW c \in Contexts, pool'[c] = "open", life'[c] # "live"
        PROVE  \E u \in Threads : Among(Call("frames_uninit", c), todo'[u])
    <3>1. pool[c] = "open" /\ life[c] # "live" /\ call # Call("frames_uninit", c)
      BY <2>1 DEF SameCalls
    <3>2. PICK u \in Threads : Among(Call("frames_uninit", c), todo[u])
      BY <1>1, <3>1 DEF Pools
    <3> QED BY <1>1, <3>1, <3>2, TakesAmong
  <2> QED BY <2>1 DEF Pools, OpenPools
<1> QED BY <1>3, <1>4, <1>5, <1>6, <1>7, <1>8 DEF IInv


LEMMA FirstRight ==
  ASSUME IInv, NEW t \in Threads, NEW call, Takes(t, call)
  PROVE  call \in Calls /\ call.obj \in Objects /\ Right(life, call) /\ Among(call, todo[t])
<1>1. Types
  BY DEF IInv
<1>2. call \in Calls /\ todo[t] = <<call>> \o todo'[t] /\ todo'[t] \in Seq(Calls)
  BY <1>1, TakesTypes DEF Todo
<1>3. Among(call, todo[t])
  <2>1. PICK s \in Seq(Calls) : s = todo'[t]
    BY <1>2
  <2>2. Among(call, <<call>> \o s)
    BY <1>2, <2>1, AmongCons
  <2> QED BY <1>2, <2>1, <2>2
<1>4. Right(life, call)
  BY <1>3 DEF Among, IInv, Deaths
<1> QED BY <1>2, <1>3, <1>4 DEF Calls

\* Drivers' callbacks.
LEMMA DriverKeeps ==
  ASSUME IInv, NEW t \in Threads, NEW call, Takes(t, call), call.what \in {"device_uninit", "unmap"},
         UNCHANGED <<life, parent, pool, rc, source, stage, mapsrc, frame, held>>
  PROVE  IInv'
<1>1. Types /\ Fields /\ Companions /\ Pools /\ Lived
  BY DEF IInv
<1>2. todo' \in Todo /\ Few(todo') /\ call \in Calls
  BY <1>1, TakesTypes
<1>3. Types'
  BY <1>1, <1>2 DEF Types
<1>4. Fields'
  BY <1>1 DEF Fields
<1>5. Companions'
  BY <1>1 DEF Companions, Paired
<1>6. OpenPools'
  BY <1>1 DEF Pools, OpenPools
<1>7. Silent
  <2>1. \A o \in Devices \union Contexts \union Maps : Keeps(o)
    BY DEF Keeps
  <2> QED BY <1>1, <2>1, NoBirth DEF Silent, Lived
<1>8. SameCalls(call)
  <2>1. ASSUME NEW u \in Threads, NEW i \in DOMAIN todo'[u]
        PROVE  /\ Promised(parent', source', todo'[u][i]) = Promised(parent, source, todo'[u][i])
               /\ Right(life', todo'[u][i])
    BY Listed
  <2>2. \A o \in Objects : Of(call, "last", o) = 0
    BY DEF Of, Mark
  <2>3. \A c \in Contexts : call # Call("frames_uninit", c)
    BY DEF Call
  <2>4. \A c \in Contexts : pool'[c] = "open" /\ life'[c] # "live" =>
          pool[c] = "open" /\ life[c] # "live" /\ call # Call("frames_uninit", c)
    BY <2>3
  <2>5. \A o \in Objects : (life'[o] = "dying" <=> life[o] = "dying" /\ Of(call, "last", o) = 0)
    BY <2>2
  <2> QED BY <2>1, <2>4, <2>5 DEF SameCalls
<1>9. call.what # "unref"
  OBVIOUS
<1> QED BY <1>3, <1>4, <1>5, <1>6, <1>7, <1>8, <1>9, SilentKeeps

\* A surface goes back to its pool.  No pool is closed: the surfaces in use refer
\* to their context, by the frames and mappings they are in.
LEMMA ReleaseKeeps ==
  ASSUME IInv, NEW t \in Threads, NEW call, Takes(t, call), call.what = "pool_release",
         PoolRelease(call.obj), UNCHANGED <<rc, source, stage, mapsrc, frame, held>>
  PROVE  IInv'
<1>1. Types /\ Fields /\ Companions /\ Pools /\ Lived
  BY DEF IInv
<1>2. todo' \in Todo /\ Few(todo') /\ call \in Calls
  BY <1>1, TakesTypes
<1>3. PICK s : s = call.obj
  OBVIOUS
<1>4. s \in Surfaces /\ s \in Objects /\ life[s] = "dying"
  BY <1>3, FirstRight, Kinds DEF Right
<1>5. parent[s] \in Contexts /\ pool[parent[s]] = "open"
  BY <1>1, <1>4 DEF Fields
<1>6. life' = [life EXCEPT ![s] = "idle"] /\ pool' = pool /\ parent' = parent
  BY <1>3, <1>5 DEF PoolRelease
<1>7. life' \in [Objects -> Lives] /\ life'[s] = "idle" /\ \A o \in Objects : o # s => life'[o] = life[o]
  BY <1>1, <1>4, <1>6 DEF Types, Lives
<1>8. Types'
  BY <1>1, <1>2, <1>6, <1>7 DEF Types
<1>9. \A o \in Devices \union Contexts \union Maps : o # s /\ o \in Objects
  BY <1>4, Kinds
<1>10. \A o \in Objects : /\ life'[o] = "live" <=> life[o] = "live"
                          /\ life'[o] = "none" <=> life[o] = "none"
                          /\ life'[o] = "dying" <=> life[o] = "dying" /\ o # s
  BY <1>4, <1>7
<1>11. Fields'
  <2>1. /\ \A d \in Devices : source'[d] \in Devices \union {None}
        /\ \A x \in Contexts : source'[x] \in Contexts \union {None}
    BY <1>1 DEF Fields
  <2>2. \A x \in Contexts : life'[x] # "none" => parent'[x] \in Devices
    BY <1>1, <1>6, <1>9, <1>10 DEF Fields
  <2>3. \A m \in Maps : life'[m] # "none" => parent'[m] \in Contexts
    BY <1>1, <1>6, <1>9, <1>10 DEF Fields
  <2>4. \A x \in Surfaces : life'[x] # "none" => parent'[x] \in Contexts /\ pool'[parent'[x]] = "open"
    BY <1>1, <1>6, <1>10, Kinds DEF Fields
  <2>5. \A o \in Objects : life'[o] = "none" =>
          /\ parent'[o] = None
          /\ o \in Devices \union Contexts => source'[o] = None
          /\ o \in Contexts => stage'[o] = "new" /\ pool'[o] = "none"
          /\ o \in Maps => mapsrc'[o] = Empty
    BY <1>1, <1>6, <1>10 DEF Fields
  <2> QED BY <2>1, <2>2, <2>3, <2>4, <2>5 DEF Fields
<1>12. Companions'
  BY <1>1, <1>6, <1>9, <1>10 DEF Companions, Paired
<1>13. OpenPools'
  BY <1>1, <1>6, <1>9, <1>10 DEF Pools, OpenPools
<1>14. Silent
  <2>1. \A o \in Devices \union Contexts \union Maps : Keeps(o)
    BY <1>6, <1>9, <1>10 DEF Keeps
  <2>2. \A o \in Objects : life'[o] = "idle" => o \in Surfaces
    BY <1>1, <1>4, <1>7 DEF Lived
  <2> QED BY <1>10, <2>1, <2>2, NoBirth DEF Silent
<1>15. \A o \in Objects : Of(call, "last", o) = Is(s, o)
  BY <1>3 DEF Of, Mark
<1>16. \A u \in Threads : \A i \in DOMAIN todo'[u] :
          todo'[u][i] \in Calls /\ (Mark(todo'[u][i]) = "last" => todo'[u][i].obj # s)
  <2>1. Count(Marks(todo', "last"), s) = Count(Marks(todo, "last"), s) - Of(call, "last", s)
    BY <1>1, <1>4, TakesTypes
  <2>2. Count(Marks(todo, "last"), s) = 1
    BY <1>4 DEF IInv, Deaths
  <2>3. Of(call, "last", s) = 1
    BY <1>4, <1>15 DEF Is
  <2>4. ~(Count(Marks(todo', "last"), s) > 0)
    BY <2>1, <2>2, <2>3
  <2>5. PICK td : td = todo'
    OBVIOUS
  <2>6. Count(Marks(td, "last"), s) > 0 <=>
            \E u \in Threads : \E i \in DOMAIN td[u] : Mark(td[u][i]) = "last" /\ td[u][i].obj = s
    BY <1>2, <1>4, <2>5, Waiting
  <2>7. \A u \in Threads : \A i \in DOMAIN todo'[u] : todo'[u][i] \in Calls
    BY Listed
  <2> QED BY <2>4, <2>5, <2>6, <2>7
<1>17. SameCalls(call)
  <2>1. ASSUME NEW u \in Threads, NEW i \in DOMAIN todo'[u]
        PROVE  /\ Promised(parent', source', todo'[u][i]) = Promised(parent, source, todo'[u][i])
               /\ Right(life', todo'[u][i])
    <3>1. PICK c \in Calls : c = todo'[u][i]
      BY <1>16
    <3>2. Right(life, c) /\ (c.what = "unref" => life[c.obj] = "live") /\ c.obj \in Objects
      BY <3>1, Listed DEF Calls
    <3>3. Mark(c) = "last" => c.obj # s
      BY <1>16, <3>1
    <3>4. c.what # "unref" => c.obj # s
      BY <1>4, <3>2, <3>3, Kinds DEF Right, Mark, Calls
    <3>5. Right(life', c)
      BY <1>10, <3>2, <3>4 DEF Right
    <3> QED BY <1>6, <3>1, <3>5
  <2>2. \A c \in Contexts : call # Call("frames_uninit", c)
    BY DEF Call
  <2>3. \A c \in Contexts : pool'[c] = "open" /\ life'[c] # "live" =>
          pool[c] = "open" /\ life[c] # "live" /\ call # Call("frames_uninit", c)
    BY <1>6, <1>9, <1>10, <2>2
  <2>4. \A o \in Objects : (life'[o] = "dying" <=> life[o] = "dying" /\ Of(call, "last", o) = 0)
    BY <1>10, <1>15 DEF Is
  <2> QED BY <2>1, <2>3, <2>4 DEF SameCalls
<1>18. call.what # "unref"
  OBVIOUS
<1> QED BY <1>8, <1>11, <1>12, <1>13, <1>14, <1>17, <1>18, SilentKeeps


\* A thread that has to drop a surface drops a reference to its context later.
LEMMA DropsContext ==
  ASSUME IInv, NEW t \in Threads, NEW i \in DOMAIN todo[t],
         todo[t][i].what \in {"unref", "pool_release"}, NEW s \in Surfaces, todo[t][i].obj = s,
         parent[s] # None
  PROVE  life[parent[s]] = "live"
<1>1. Types /\ Alive /\ Promises
  BY AllAlive DEF IInv
<1>2. PICK p : p = Call("unref", parent[s])
  OBVIOUS
<1>3. p \in Promised(parent, source, todo[t][i])
  BY <1>2 DEF Promised, Later
<1>4. PICK j \in i + 1 .. Len(todo[t]) : todo[t][j] = p
  BY <1>1, <1>3 DEF Promises, Kept
<1>5. j \in DOMAIN todo[t]
  BY <1>1, <1>4 DEF Types, Todo
<1> QED BY <1>1, <1>2, <1>4, <1>5 DEF Alive, Call

\* Nothing of a context's pool is in use when the context is not.
LEMMA NoneInUse ==
  ASSUME IInv, NEW c \in Contexts, life[c] # "live", NEW s \in Surfaces, parent[s] = c
  PROVE  life[s] \notin {"live", "dying"}
<1>1. Types /\ Alive /\ Fields /\ Companions /\ Lived /\ Ledger
  BY AllAlive DEF IInv
<1>2. s \in Objects /\ c # None /\ s # None
  BY Kinds
<1>3. ASSUME life[s] = "live"  PROVE FALSE
  <2>1. rc[s] > 0 /\ rc[s] = RefsTo(s)
    BY <1>1, <1>2, <1>3 DEF Lived, Ledger
  <2>2. HeldOf(s) = 0
    BY Kinds DEF HeldOf
  <2>3. /\ Count(bufs, s) \in Nat /\ Count(ctxs, s) \in Nat
        /\ Count(srcs, s) \in Nat /\ Count(pars, s) \in Nat
        /\ Count(mbufs, s) \in Nat /\ Count(mctxs, s) \in Nat
        /\ Count(Marks(todo, "unref"), s) \in Nat
    BY <1>1, <1>2, NatParts
  <2>4. ~(Count(bufs, s) > 0)
    <3>1. \A f \in Frames : frame[f].buf # s
      BY <1>1, <1>2 DEF Companions, Paired, Alive
    <3> QED BY <3>1, FiniteParts, Counted DEF bufs
  <2>5. ~(Count(ctxs, s) > 0)
    <3>1. \A f \in Frames : frame[f].ctx # s
      BY <1>1, Kinds DEF Types, Frame
    <3> QED BY <3>1, FiniteParts, Counted DEF ctxs
  <2>6. ~(Count(srcs, s) > 0)
    <3>1. \A x \in Devices \union Contexts : srcs[x] # s
      BY <1>1, Kinds DEF Types, srcs, InUseOr
    <3> QED BY <3>1, FiniteParts, Counted DEF srcs
  <2>7. ~(Count(pars, s) > 0)
    <3>1. \A x \in Contexts \union Maps : pars[x] # s
      BY <1>1, Kinds DEF Types, pars, InUseOr
    <3> QED BY <3>1, FiniteParts, Counted DEF pars
  <2>8. ~(Count(mbufs, s) > 0)
    <3>1. \A m \in Maps : mbufs[m] # s
      BY <1>1, <1>2 DEF mbufs, InUseOr, Companions, Paired, Alive
    <3> QED BY <3>1, FiniteParts, Counted DEF mbufs
  <2>9. ~(Count(mctxs, s) > 0)
    <3>1. \A m \in Maps : mctxs[m] # s
      BY <1>1, Kinds DEF Types, Frame, mctxs, InUseOr
    <3> QED BY <3>1, FiniteParts, Counted DEF mctxs
  <2>10. ~(Count(Marks(todo, "unref"), s) > 0)
    <3>1. ASSUME NEW t \in Threads, NEW i \in DOMAIN todo[t],
                 Mark(todo[t][i]) = "unref", todo[t][i].obj = s
          PROVE  FALSE
      <4>1. todo[t][i].what = "unref"
        BY <3>1 DEF Mark
      <4> QED BY <1>2, <3>1, <4>1, DropsContext
    <3> QED BY <1>1, <1>2, <3>1, Waiting DEF Types
  <2> QED BY <2>1, <2>2, <2>3, <2>4, <2>5, <2>6, <2>7, <2>8, <2>9, <2>10 DEF RefsTo
<1>4. ASSUME life[s] = "dying"  PROVE FALSE
  <2>1. Count(Marks(todo, "last"), s) > 0
    BY <1>2, <1>4 DEF IInv, Deaths
  <2>2. PICK t \in Threads : \E i \in DOMAIN todo[t] :
           Mark(todo[t][i]) = "last" /\ todo[t][i].obj = s
    BY <1>1, <1>2, <2>1, Waiting DEF Types
  <2>3. PICK i \in DOMAIN todo[t] : Mark(todo[t][i]) = "last" /\ todo[t][i].obj = s
    BY <2>2
  <2>4. todo[t][i].what \in {"free", "pool_release"} /\ Right(life, todo[t][i])
    BY <2>3 DEF Mark, IInv, Deaths
  <2>5. todo[t][i].what = "pool_release"
    BY <2>3, <2>4 DEF Right
  <2> QED BY <1>2, <2>3, <2>5, DropsContext
<1> QED BY <1>3, <1>4

\* The pool of a context that dies, with all its surfaces.
LEMMA PoolGone ==
  ASSUME IInv, NEW c \in Contexts, life[c] = "dying", PoolUninit(c)
  PROVE  LET gone == {s \in Surfaces : parent[s] = c} IN
         /\ pool' = [pool EXCEPT ![c] = "none"]
         /\ life' = [o \in Objects |-> IF o \in gone THEN "none" ELSE life[o]]
         /\ parent' = [o \in Objects |-> IF o \in gone THEN None ELSE parent[o]]
         /\ \A s \in gone : life[s] = "idle"
<1> DEFINE gone == {s \in Surfaces : parent[s] = c}
<1>1. Types /\ Fields
  BY DEF IInv
<1>2. \A s \in gone : life[s] \notin {"live", "dying"}
  BY NoneInUse
<1>3. ASSUME NEW s \in gone  PROVE life[s] = "idle" /\ pool[c] = "open"
  <2>1. s \in Objects /\ c # None /\ parent[s] = c
    BY Kinds
  <2>2. life[s] # "none"
    BY <1>1, <2>1 DEF Fields
  <2>3. life[s] \in Lives
    BY <1>1, <2>1 DEF Types
  <2> QED BY <1>1, <1>2, <2>1, <2>2, <2>3 DEF Fields, Lives
<1>4. CASE pool[c] = "none"
  <2>1. gone = {}
    BY <1>3, <1>4
  <2>2. UNCHANGED <<pool, life, parent>>
    BY <1>4 DEF PoolUninit
  <2> QED BY <1>1, <1>4, <2>1, <2>2 DEF Types
<1>5. CASE pool[c] # "none"
  <2>1. ~InUse(c, life)
    BY <1>2 DEF InUse
  <2>2. PoolFreed(c, life)
    BY <1>5, <2>1 DEF PoolUninit
  <2> QED BY <1>3, <2>2 DEF PoolFreed
<1> QED BY <1>4, <1>5


LEMMA UninitKeeps ==
  ASSUME IInv, NEW t \in Threads, NEW call, Takes(t, call), call.what = "frames_uninit",
         PoolUninit(call.obj), UNCHANGED <<rc, source, stage, mapsrc, frame, held>>
  PROVE  IInv'
<1>1. Types /\ Fields /\ Companions /\ Pools /\ Lived /\ Alive
  BY AllAlive DEF IInv
<1>2. todo' \in Todo /\ Few(todo') /\ call \in Calls
  BY <1>1, TakesTypes
<1>3. PICK c : c = call.obj
  OBVIOUS
<1>4. c \in Contexts /\ c \in Objects /\ life[c] = "dying"
  BY <1>3, FirstRight, Kinds DEF Right
<1>5. PICK gone : gone = {s \in Surfaces : parent[s] = c}
  OBVIOUS
<1>6. /\ pool' = [pool EXCEPT ![c] = "none"]
      /\ life' = [o \in Objects |-> IF o \in gone THEN "none" ELSE life[o]]
      /\ parent' = [o \in Objects |-> IF o \in gone THEN None ELSE parent[o]]
      /\ \A s \in gone : life[s] = "idle"
  BY <1>3, <1>4, <1>5, PoolGone
<1>7. /\ life' \in [Objects -> Lives]
      /\ parent' \in [Objects -> Devices \union Contexts \union {None}]
      /\ pool' \in [Contexts -> {"none", "open"}]
  BY <1>1, <1>6 DEF Types, Lives
<1>8. \A o \in Objects : /\ o \in gone => life'[o] = "none" /\ parent'[o] = None
                         /\ o \notin gone => life'[o] = life[o] /\ parent'[o] = parent[o]
  BY <1>6
<1>9. pool'[c] = "none" /\ \A x \in Contexts : x # c => pool'[x] = pool[x]
  BY <1>1, <1>4, <1>6 DEF Types
<1>10. Types'
  BY <1>1, <1>2, <1>7 DEF Types
<1>11. \A o \in Devices \union Contexts \union Maps : o \notin gone /\ o \in Objects
  BY <1>5, Kinds
<1>12. \A o \in Objects : /\ life'[o] = "live" <=> life[o] = "live"
                          /\ life'[o] = "dying" <=> life[o] = "dying"
                          /\ life'[o] = "idle" => life[o] = "idle"
  BY <1>6, <1>8
<1>13. Fields'
  <2>1. /\ \A d \in Devices : source'[d] \in Devices \union {None}
        /\ \A x \in Contexts : source'[x] \in Contexts \union {None}
    BY <1>1 DEF Fields
  <2>2. \A x \in Contexts : life'[x] # "none" => parent'[x] \in Devices
    BY <1>1, <1>8, <1>11 DEF Fields
  <2>3. \A m \in Maps : life'[m] # "none" => parent'[m] \in Contexts
    BY <1>1, <1>8, <1>11 DEF Fields
  <2>4. ASSUME NEW s \in Surfaces, life'[s] # "none"
        PROVE  parent'[s] \in Contexts /\ pool'[parent'[s]] = "open"
    <3>1. s \notin gone /\ life[s] # "none" /\ parent'[s] = parent[s]
      BY <1>8, <2>4, Kinds
    <3>2. parent[s] \in Contexts /\ pool[parent[s]] = "open" /\ parent[s] # c
      BY <1>1, <1>5, <3>1 DEF Fields
    <3> QED BY <1>9, <3>1, <3>2
  <2>5. ASSUME NEW o \in Objects, life'[o] = "none"
        PROVE  /\ parent'[o] = None
               /\ o \in Devices \union Contexts => source'[o] = None
               /\ o \in Contexts => stage'[o] = "new" /\ pool'[o] = "none"
               /\ o \in Maps => mapsrc'[o] = Empty
    <3>1. CASE o \in gone
      BY <1>8, <1>11, <3>1
    <3>2. CASE o \notin gone
      <4>1. life[o] = "none" /\ parent'[o] = parent[o] /\ o # c
        BY <1>4, <1>8, <2>5, <3>2
      <4>2. /\ parent[o] = None
            /\ o \in Devices \union Contexts => source[o] = None
            /\ o \in Contexts => stage[o] = "new" /\ pool[o] = "none"
            /\ o \in Maps => mapsrc[o] = Empty
        BY <1>1, <4>1 DEF Fields
      <4> QED BY <1>9, <4>1, <4>2
    <3> QED BY <3>1, <3>2
  <2> QED BY <2>1, <2>2, <2>3, <2>4, <2>5 DEF Fields
<1>14. Companions'
  <2>1. \A s \in gone : life[s] # "live"
    BY <1>6
  <2>2. \A o \in Surfaces : o \notin gone => parent'[o] = parent[o]
    BY <1>8, Kinds
  <2>3. ASSUME NEW f \in Frames  PROVE Pairing(frame[f])
    <3>1. Paired(frame[f]) /\ (frame[f].buf # None => life[frame[f].buf] = "live")
      BY <1>1 DEF Companions, Alive
    <3> QED BY <1>1, <2>1, <2>2, <3>1, StillPaired
  <2>4. ASSUME NEW m \in Maps, life'[m] = "live"  PROVE Pairing(mapsrc[m])
    <3>1. life[m] = "live"
      BY <1>11, <1>12, <2>4
    <3>2. Paired(mapsrc[m]) /\ (mapsrc[m].buf # None => life[mapsrc[m].buf] = "live")
      BY <1>1, <3>1 DEF Companions, Alive
    <3> QED BY <1>1, <2>1, <2>2, <3>2, StillPaired
  <2> QED BY <2>3, <2>4 DEF Companions, Paired, Pairing
<1>15. OpenPools'
  BY <1>1, <1>4, <1>9, <1>11, <1>12 DEF Pools, OpenPools
<1>16. Silent
  <2>1. \A o \in Devices \union Contexts \union Maps : Keeps(o)
    BY <1>8, <1>11, <1>12 DEF Keeps
  <2>2. \A o \in Objects : life'[o] = "idle" => o \in Surfaces
    BY <1>1, <1>12 DEF Lived
  <2> QED BY <1>12, <2>1, <2>2, NoBirth DEF Silent
<1>17. SameCalls(call)
  <2>1. ASSUME NEW u \in Threads, NEW i \in DOMAIN todo'[u]
        PROVE  /\ Promised(parent', source', todo'[u][i]) = Promised(parent, source, todo'[u][i])
               /\ Right(life', todo'[u][i])
    <3>1. PICK p : p = todo'[u][i]
      OBVIOUS
    <3>2. p \in Calls /\ Right(life, p) /\ (p.what = "unref" => life[p.obj] = "live") /\ p.obj \in Objects
      BY <3>1, Listed DEF Calls
    <3>3. life[p.obj] \in {"live", "dying"}
      BY <3>2 DEF Right
    <3>4. p.obj \notin gone
      BY <1>6, <3>3
    <3>5. parent'[p.obj] = parent[p.obj]
      BY <1>8, <3>2, <3>4
    <3>6. Later(parent', source', p) = Later(parent, source, p)
      BY <3>5 DEF Later
    <3>7. Promised(parent', source', p) = Promised(parent, source, p)
      BY <3>6 DEF Promised
    <3>8. Right(life', p)
      BY <1>12, <3>2 DEF Right
    <3> QED BY <3>1, <3>7, <3>8
  <2>2. ASSUME NEW x \in Contexts, pool'[x] = "open", life'[x] # "live"
        PROVE  pool[x] = "open" /\ life[x] # "live" /\ call # Call("frames_uninit", x)
    <3>1. x # c
      BY <1>9, <2>2
    <3>2. call # Call("frames_uninit", x)
      BY <1>3, <3>1 DEF Call
    <3> QED BY <1>9, <1>11, <1>12, <2>2, <3>1, <3>2
  <2>3. \A o \in Objects : Of(call, "last", o) = 0
    BY DEF Of, Mark
  <2>4. \A o \in Objects : (life'[o] = "dying" <=> life[o] = "dying" /\ Of(call, "last", o) = 0)
    BY <1>12, <2>3
  <2> QED BY <2>1, <2>2, <2>4 DEF SameCalls
<1>18. call.what # "unref"
  OBVIOUS
<1> QED BY <1>10, <1>13, <1>14, <1>15, <1>16, <1>17, <1>18, SilentKeeps

\* The last call for an object is taken: no other is about it.
LEMMA LastCall ==
  ASSUME IInv, NEW t \in Threads, NEW call, Takes(t, call), NEW o \in Objects,
         life[o] = "dying", Of(call, "last", o) = 1
  PROVE  \A u \in Threads : \A i \in DOMAIN todo'[u] : todo'[u][i].obj # o
<1>1. Types /\ Promises
  BY DEF IInv
<1>2. todo' \in Todo /\ Few(todo')
  BY <1>1, TakesTypes
<1>3. \A u \in Threads : \A i \in DOMAIN todo'[u] : Mark(todo'[u][i]) = "last" => todo'[u][i].obj # o
  <2>1. Count(Marks(todo', "last"), o) = Count(Marks(todo, "last"), o) - 1
    BY <1>1, TakesTypes
  <2>2. Count(Marks(todo, "last"), o) = 1
    BY DEF IInv, Deaths
  <2>3. ~(Count(Marks(todo', "last"), o) > 0)
    BY <2>1, <2>2
  <2>4. PICK td : td = todo'
    OBVIOUS
  <2>5. Count(Marks(td, "last"), o) > 0 <=>
            \E u \in Threads : \E i \in DOMAIN td[u] : Mark(td[u][i]) = "last" /\ td[u][i].obj = o
    BY <1>2, <2>4, Waiting
  <2> QED BY <2>3, <2>4, <2>5
<1>4. ASSUME NEW u \in Threads, NEW i \in DOMAIN todo'[u], todo'[u][i].obj = o  PROVE FALSE
  <2>1. PICK p : p = todo'[u][i]
    OBVIOUS
  <2>2. p \in Calls /\ (p.what = "unref" => life[p.obj] = "live") /\ p.obj = o
    BY <1>4, <2>1, Listed
  <2>3. p.what # "unref"
    BY <2>2
  <2>4. Mark(p) # "last"
    BY <1>3, <1>4, <2>1
  <2>5. p.what \in {"unmap", "frames_uninit", "device_uninit"}
    BY <2>2, <2>3, <2>4 DEF Mark, Calls
  <2>6. Call("free", o) \in Promised(parent, source, p)
    BY <2>2, <2>5 DEF Promised
  <2>7. Kept(parent, source, todo'[u])
    BY <1>1, TakesKept
  <2>8. PICK j \in i + 1 .. Len(todo'[u]) : todo'[u][j] = Call("free", o)
    BY <2>1, <2>6, <2>7 DEF Kept
  <2>9. j \in DOMAIN todo'[u]
    BY <1>2, <2>8 DEF Todo
  <2> QED BY <1>3, <2>8, <2>9 DEF Call, Mark
<1> QED BY <1>4


\* The structure of an object that died is deallocated.
LEMMA FreeKeeps ==
  ASSUME IInv, NEW t \in Threads, NEW call, Takes(t, call), call.what = "free",
         Dealloc(call.obj), UNCHANGED <<frame, held>>
  PROVE  IInv'
<1>1. Types /\ Fields /\ Companions /\ Pools /\ Lived /\ Alive
  BY AllAlive DEF IInv
<1>2. todo' \in Todo /\ Few(todo') /\ call \in Calls
  BY <1>1, TakesTypes
<1>3. PICK o : o = call.obj
  OBVIOUS
<1>4. o \in Objects /\ o \notin Surfaces /\ life[o] = "dying"
  BY <1>3, FirstRight DEF Right
<1>5. /\ life' = [life EXCEPT ![o] = "none"]
      /\ parent' = [parent EXCEPT ![o] = None]
      /\ source' = [x \in DOMAIN source |-> IF x = o THEN None ELSE source[x]]
      /\ stage' = [c \in Contexts |-> IF c = o THEN "new" ELSE stage[c]]
      /\ mapsrc' = [m \in Maps |-> IF m = o THEN Empty ELSE mapsrc[m]]
      /\ rc' = rc /\ pool' = pool
  BY <1>3 DEF Dealloc
<1>6. life' \in [Objects -> Lives] /\ life'[o] = "none" /\ \A x \in Objects : x # o => life'[x] = life[x]
  BY <1>1, <1>4, <1>5 DEF Types, Lives
<1>7. /\ parent' \in [Objects -> Devices \union Contexts \union {None}]
      /\ parent'[o] = None /\ \A x \in Objects : x # o => parent'[x] = parent[x]
  BY <1>1, <1>4, <1>5 DEF Types
<1>8. /\ source' \in [Devices \union Contexts -> Devices \union Contexts \union {None}]
      /\ \A x \in Devices \union Contexts : source'[x] = IF x = o THEN None ELSE source[x]
  BY <1>1, <1>5 DEF Types
<1>9. /\ stage' \in [Contexts -> {"new", "ready", "failed"}]
      /\ \A x \in Contexts : stage'[x] = IF x = o THEN "new" ELSE stage[x]
  BY <1>1, <1>5 DEF Types
<1>10. /\ mapsrc' \in [Maps -> Frame]
       /\ \A x \in Maps : mapsrc'[x] = IF x = o THEN Empty ELSE mapsrc[x]
  BY <1>1, <1>5, FrameParts DEF Types
<1>11. Types'
  BY <1>1, <1>2, <1>5, <1>6, <1>7, <1>8, <1>9, <1>10 DEF Types
<1>12. \A x \in Objects : Of(call, "last", x) = Is(o, x)
  BY <1>3 DEF Of, Mark
<1>13. \A u \in Threads : \A i \in DOMAIN todo'[u] : todo'[u][i].obj # o
  <2>1. Of(call, "last", o) = 1
    BY <1>4, <1>12 DEF Is
  <2> QED BY <1>4, <2>1, LastCall
<1>14. o \in Contexts => pool[o] = "none"
  <2>1. ASSUME o \in Contexts, pool[o] = "open"  PROVE FALSE
    <3>1. PICK u \in Threads : Among(Call("frames_uninit", o), todo[u])
      BY <1>1, <1>4, <2>1 DEF Pools
    <3>2. Call("frames_uninit", o) # call
      BY DEF Call
    <3>3. Among(Call("frames_uninit", o), todo'[u])
      BY <1>1, <3>1, <3>2, TakesAmong
    <3> QED BY <1>13, <3>3 DEF Among, Call
  <2> QED BY <1>1, <2>1 DEF Types
<1>15. \A x \in Objects : /\ life'[x] = "live" <=> life[x] = "live"
                          /\ life'[x] = "idle" <=> life[x] = "idle"
                          /\ life'[x] = "dying" <=> life[x] = "dying" /\ x # o
  BY <1>4, <1>6
<1>16. Fields'
  <2>1. /\ \A d \in Devices : source'[d] \in Devices \union {None}
        /\ \A x \in Contexts : source'[x] \in Contexts \union {None}
    BY <1>1, <1>8 DEF Fields
  <2>2. \A x \in Contexts : life'[x] # "none" => parent'[x] \in Devices
    BY <1>1, <1>6, <1>7, Kinds DEF Fields
  <2>3. \A m \in Maps : life'[m] # "none" => parent'[m] \in Contexts
    BY <1>1, <1>6, <1>7, Kinds DEF Fields
  <2>4. \A s \in Surfaces : life'[s] # "none" => parent'[s] \in Contexts /\ pool'[parent'[s]] = "open"
    BY <1>1, <1>4, <1>5, <1>6, <1>7, Kinds DEF Fields
  <2>5. ASSUME NEW x \in Objects, life'[x] = "none"
        PROVE  /\ parent'[x] = None
               /\ x \in Devices \union Contexts => source'[x] = None
               /\ x \in Contexts => stage'[x] = "new" /\ pool'[x] = "none"
               /\ x \in Maps => mapsrc'[x] = Empty
    <3>1. CASE x = o
      BY <1>5, <1>7, <1>8, <1>9, <1>10, <1>14, <3>1
    <3>2. CASE x # o
      <4>1. life[x] = "none" /\ parent'[x] = parent[x]
        BY <1>6, <1>7, <2>5, <3>2
      <4>2. /\ parent[x] = None
            /\ x \in Devices \union Contexts => source[x] = None
            /\ x \in Contexts => stage[x] = "new" /\ pool[x] = "none"
            /\ x \in Maps => mapsrc[x] = Empty
        BY <1>1, <4>1 DEF Fields
      <4> QED BY <1>5, <1>8, <1>9, <1>10, <3>2, <4>1, <4>2
    <3> QED BY <3>1, <3>2
  <2> QED BY <2>1, <2>2, <2>3, <2>4, <2>5 DEF Fields
<1>17. \A s \in Surfaces : parent'[s] = parent[s]
  BY <1>4, <1>7, Kinds
<1>18. Companions'
  <2>1. ASSUME NEW f \in Frames  PROVE Pairing(frame[f])
    BY <1>1, <1>17 DEF Companions, Paired, Pairing
  <2>2. ASSUME NEW m \in Maps, life'[m] = "live"  PROVE Pairing(mapsrc'[m])
    <3>1. m # o /\ life[m] = "live"
      BY <1>4, <1>15, <2>2, Kinds
    <3> QED BY <1>1, <1>10, <1>17, <3>1 DEF Companions, Paired, Pairing
  <2> QED BY <2>1, <2>2 DEF Companions, Paired, Pairing
<1>19. OpenPools'
  <2>1. ASSUME NEW x \in Contexts, life'[x] = "live", stage'[x] = "ready", source'[x] = None
        PROVE  pool'[x] = "open"
    <3>1. x # o /\ life[x] = "live"
      BY <1>6, <1>15, <2>1, Kinds
    <3> QED BY <1>1, <1>5, <1>8, <1>9, <2>1, <3>1 DEF Pools
  <2>2. ASSUME NEW x \in Contexts, life'[x] = "live", source'[x] # None
        PROVE  stage'[source'[x]] = "ready"
    <3>1. x # o /\ life[x] = "live" /\ source'[x] = source[x]
      BY <1>6, <1>8, <1>15, <2>2, Kinds
    <3>2. source[x] \in Contexts /\ life[source[x]] = "live" /\ stage[source[x]] = "ready"
      BY <1>1, <2>2, <3>1 DEF Fields, Alive, Pools
    <3>3. source[x] # o
      BY <1>4, <3>2
    <3> QED BY <1>9, <3>1, <3>2, <3>3
  <2> QED BY <2>1, <2>2 DEF OpenPools
<1>20. Silent
  <2>1. srcs' = srcs
    <3>1. ASSUME NEW x \in Devices \union Contexts
          PROVE  (IF life'[x] = "live" THEN source'[x] ELSE None) = (IF life[x] = "live" THEN source[x] ELSE None)
      BY <1>4, <1>8, <1>15, Kinds
    <3> QED BY <3>1 DEF srcs, InUseOr
  <2>2. pars' = pars
    <3>1. ASSUME NEW x \in Contexts \union Maps
          PROVE  (IF life'[x] = "live" THEN parent'[x] ELSE None) = (IF life[x] = "live" THEN parent[x] ELSE None)
      BY <1>4, <1>7, <1>15, Kinds
    <3> QED BY <3>1 DEF pars, InUseOr
  <2>3. mbufs' = mbufs /\ mctxs' = mctxs
    <3>1. ASSUME NEW x \in Maps
          PROVE  /\ (IF life'[x] = "live" THEN mapsrc'[x].buf ELSE None) = (IF life[x] = "live" THEN mapsrc[x].buf ELSE None)
                 /\ (IF life'[x] = "live" THEN mapsrc'[x].ctx ELSE None) = (IF life[x] = "live" THEN mapsrc[x].ctx ELSE None)
      BY <1>4, <1>10, <1>15, Kinds
    <3> QED BY <3>1 DEF mbufs, mctxs, InUseOr
  <2>4. \A x \in Objects : life'[x] = "idle" => x \in Surfaces
    BY <1>1, <1>15 DEF Lived
  <2> QED BY <1>5, <1>15, <2>1, <2>2, <2>3, <2>4 DEF Silent
<1>21. SameCalls(call)
  <2>1. ASSUME NEW u \in Threads, NEW i \in DOMAIN todo'[u]
        PROVE  /\ Promised(parent', source', todo'[u][i]) = Promised(parent, source, todo'[u][i])
               /\ Right(life', todo'[u][i])
    <3>1. PICK p : p = todo'[u][i]
      OBVIOUS
    <3>2. p \in Calls /\ Right(life, p) /\ p.obj \in Objects /\ p.obj # o
      BY <1>13, <3>1, Listed DEF Calls
    <3>3. parent'[p.obj] = parent[p.obj]
      BY <1>7, <3>2
    <3>4. p.what \in {"frames_uninit", "device_uninit"} => source'[p.obj] = source[p.obj]
      BY <1>8, <3>2 DEF Right
    <3>5. Later(parent', source', p) = Later(parent, source, p)
      BY <3>3, <3>4 DEF Later
    <3>6. Promised(parent', source', p) = Promised(parent, source, p)
      BY <3>5 DEF Promised
    <3>7. Right(life', p)
      BY <1>15, <3>2 DEF Right
    <3> QED BY <3>1, <3>6, <3>7
  <2>2. ASSUME NEW x \in Contexts, pool'[x] = "open", life'[x] # "live"
        PROVE  pool[x] = "open" /\ life[x] # "live" /\ call # Call("frames_uninit", x)
    BY <1>5, <1>15, <2>2, Kinds DEF Call
  <2>3. \A x \in Objects : (life'[x] = "dying" <=> life[x] = "dying" /\ Of(call, "last", x) = 0)
    BY <1>12, <1>15 DEF Is
  <2> QED BY <2>1, <2>2, <2>3 DEF SameCalls
<1>22. call.what # "unref"
  OBVIOUS
<1> QED BY <1>11, <1>16, <1>18, <1>19, <1>20, <1>21, <1>22, SilentKeeps


-----------------------------------------------------------------------------
OneLess(o) == rc' = [rc EXCEPT ![o] = @ - 1]

\* A reference is dropped that is not the last one.
LEMMA LessKeeps ==
  ASSUME IInv, NEW t \in Threads, NEW call, Takes(t, call), call.what = "unref", rc[call.obj] # 1,
         OneLess(call.obj),
         UNCHANGED <<life, parent, source, stage, pool, mapsrc, frame, held>>
  PROVE  IInv'
<1>1. Types /\ Fields /\ Companions /\ Pools /\ Lived /\ Ledger /\ Alive /\ Promises /\ Ranked
  BY AllAlive DEF IInv
<1>2. todo' \in Todo /\ Few(todo') /\ call \in Calls
  BY <1>1, TakesTypes
<1>3. PICK o : o = call.obj
  OBVIOUS
<1>4. o \in Objects /\ life[o] = "live"
  <2>1. Among(call, todo[t]) /\ call.obj \in Objects
    BY FirstRight
  <2> QED BY <1>1, <1>3, <2>1 DEF Among, Alive
<1>5. rc[o] \in Nat /\ rc[o] > 1
  BY <1>1, <1>3, <1>4 DEF Types, Lived
<1>6. rc' \in [Objects -> Nat] /\ \A x \in Objects : rc'[x] = rc[x] - Is(o, x)
  <2>1. rc' = [rc EXCEPT ![o] = rc[o] - 1] /\ rc[o] - 1 \in Nat
    BY <1>3, <1>5 DEF OneLess
  <2>2. rc \in [Objects -> Nat]
    BY <1>1 DEF Types
  <2>3. rc' \in [Objects -> Nat]
    BY <2>1, <2>2
  <2>4. ASSUME NEW x \in Objects  PROVE rc'[x] = rc[x] - Is(o, x)
    <3>1. CASE x = o
      BY <1>4, <2>1, <2>2, <3>1 DEF Is
    <3>2. CASE x # o
      <4>1. rc'[x] = rc[x] /\ Is(o, x) = 0 /\ rc[x] \in Nat
        BY <2>1, <2>2, <3>2 DEF Is
      <4> QED BY <4>1
    <3> QED BY <3>1, <3>2
  <2> QED BY <2>3, <2>4
<1>7. Types'
  BY <1>1, <1>2, <1>6 DEF Types
<1>8. srcs' = srcs /\ pars' = pars /\ mbufs' = mbufs /\ mctxs' = mctxs
  <2>1. \A x \in Devices \union Contexts \union Maps : Keeps(x)
    BY DEF Keeps
  <2> QED BY <2>1, NoBirth
<1>9. Ledger'
  <2>1. ASSUME NEW x \in Objects  PROVE rc'[x] = RefsTo(x)'
    <3>1. Count(Marks(todo', "unref"), x) = Count(Marks(todo, "unref"), x) - Of(call, "unref", x)
      BY <1>1, TakesCounts
    <3>2. Of(call, "unref", x) = Is(o, x)
      BY <1>3 DEF Of, Mark
    <3>3. HeldOf(x)' = HeldOf(x) /\ Shown(x)' = Shown(x) /\ Held(x)' = Held(x)
      BY <1>8, HandlesSame, FramesSame DEF Held
    <3>4. RefsTo(x)' = HeldOf(x)' + Shown(x)' + Held(x)' + Count(Marks(todo', "unref"), x)
      BY <1>7, SumsNext
    <3>5. /\ rc[x] = HeldOf(x) + Shown(x) + Held(x) + Count(Marks(todo, "unref"), x)
          /\ HeldOf(x) \in Nat /\ Shown(x) \in Nat /\ Held(x) \in Nat
          /\ Count(Marks(todo, "unref"), x) \in Nat
      BY <1>1, Sums DEF Ledger
    <3>6. Is(o, x) \in Nat /\ rc'[x] = rc[x] - Is(o, x)
      BY <1>6, IsInt
    <3> QED BY <3>1, <3>2, <3>3, <3>4, <3>5, <3>6
  <2> QED BY <2>1 DEF Ledger
<1>10. Lived'
  <2>1. ASSUME NEW x \in Objects
        PROVE  (life'[x] = "live" <=> rc'[x] > 0) /\ (life'[x] = "idle" => x \in Surfaces)
    <3>1. CASE x = o
      BY <1>1, <1>4, <1>5, <1>6, <3>1 DEF Lived, Is
    <3>2. CASE x # o
      <4>1. rc'[x] = rc[x] - 0 /\ rc[x] \in Nat
        BY <1>1, <1>6, <3>2 DEF Is, Types
      <4> QED BY <1>1, <4>1 DEF Lived
    <3> QED BY <3>1, <3>2
  <2> QED BY <2>1 DEF Lived
<1>11. Ranked'
  BY <1>1, <1>8, NoBirthRanks
<1>12. Fields' /\ Companions'
  <2>1. Fields'
    BY <1>1 DEF Fields
  <2>2. Companions'
    BY <1>1 DEF Companions, Paired
  <2> QED BY <2>1, <2>2
<1>13. Pools'
  <2>1. ASSUME NEW c \in Contexts, pool[c] = "open", life[c] # "live"
        PROVE  \E u \in Threads : Among(Call("frames_uninit", c), todo'[u])
    <3>1. call # Call("frames_uninit", c)
      BY DEF Call
    <3>2. PICK u \in Threads : Among(Call("frames_uninit", c), todo[u])
      BY <1>1, <2>1 DEF Pools
    <3> QED BY <1>1, <3>1, <3>2, TakesAmong
  <2> QED BY <1>1, <2>1 DEF Pools
<1>14. Promises'
  BY <1>1, TakesKept DEF Promises
<1>15. Deaths'
  <2>1. ASSUME NEW x \in Objects
        PROVE  Count(Marks(todo', "last"), x) = IF life'[x] = "dying" THEN 1 ELSE 0
    <3>1. Count(Marks(todo', "last"), x) = Count(Marks(todo, "last"), x) - Of(call, "last", x)
      BY <1>1, TakesCounts
    <3>2. Of(call, "last", x) = 0
      BY DEF Of, Mark
    <3>3. Count(Marks(todo, "last"), x) = IF life[x] = "dying" THEN 1 ELSE 0
      BY DEF IInv, Deaths
    <3> QED BY <3>1, <3>2, <3>3
  <2>2. \A u \in Threads : \A i \in DOMAIN todo'[u] : Right(life', todo'[u][i])
    BY Listed
  <2> QED BY <2>1, <2>2 DEF Deaths
<1> QED BY <1>7, <1>9, <1>10, <1>11, <1>12, <1>13, <1>14, <1>15 DEF IInv

\* What the fields of an object add to the counts while it is in use.
DyingRefs(x, o) ==
    (IF x \in Devices \union Contexts THEN Is(source[x], o) ELSE 0)
      + (IF x \in Contexts \union Maps THEN Is(parent[x], o) ELSE 0)
      + (IF x \in Maps THEN Is(mapsrc[x].buf, o) + Is(mapsrc[x].ctx, o) ELSE 0)

LEMMA Death ==
  ASSUME Types, Alive, Ranked, NEW x \in Objects, life[x] = "live", life'[x] = "dying",
         \A o \in Objects : o # x => life'[o] = life[o],
         parent' = parent, source' = source, mapsrc' = mapsrc
  PROVE  /\ Ranked'
         /\ \A o \in Objects : Held(o)' = Held(o) - DyingRefs(x, o)
<1>1. /\ x \in Devices \union Contexts => Changes(srcs, srcs', x, None) /\ srcs[x] = source[x]
      /\ x \notin Devices \union Contexts => srcs' = srcs
  BY Kinds DEF srcs, InUseOr, Changes
<1>2. /\ x \in Contexts \union Maps => Changes(pars, pars', x, None) /\ pars[x] = parent[x]
      /\ x \notin Contexts \union Maps => pars' = pars
  BY Kinds DEF pars, InUseOr, Changes
<1>3. /\ x \in Maps => Changes(mbufs, mbufs', x, None) /\ mbufs[x] = mapsrc[x].buf
      /\ x \notin Maps => mbufs' = mbufs
  BY Kinds DEF mbufs, InUseOr, Changes
<1>4. /\ x \in Maps => Changes(mctxs, mctxs', x, None) /\ mctxs[x] = mapsrc[x].ctx
      /\ x \notin Maps => mctxs' = mctxs
  BY Kinds DEF mctxs, InUseOr, Changes
<1>5. Ranked'
  <2>1. {} \in SUBSET Objects /\ \A o \in {} : life[o] # "live"
    OBVIOUS
  <2>2. ASSUME NEW z \in Objects, NEW y \in Objects, Refers(z, y)'
        PROVE  Refers(z, y)
    <3>1. y # None
      BY HwContextAssumption
    <3>2. z \in Devices \union Contexts /\ srcs'[z] = y => srcs[z] = y
      BY <1>1, <3>1 DEF Changes, srcs
    <3>3. z \in Contexts \union Maps /\ pars'[z] = y => pars[z] = y
      BY <1>2, <3>1 DEF Changes, pars
    <3>4. z \in Maps /\ mbufs'[z] = y => mbufs[z] = y
      BY <1>3, <3>1 DEF Changes, mbufs
    <3>5. z \in Maps /\ mctxs'[z] = y => mctxs[z] = y
      BY <1>4, <3>1 DEF Changes, mctxs
    <3> QED BY <2>2, <3>2, <3>3, <3>4, <3>5 DEF Refers
  <2> QED BY <2>1, <2>2, RankBirth
<1>6. ASSUME NEW o \in Objects  PROVE Held(o)' = Held(o) - DyingRefs(x, o)
  <2>0. /\ Count(srcs, o) \in Nat /\ Count(pars, o) \in Nat
        /\ Count(mbufs, o) \in Nat /\ Count(mctxs, o) \in Nat
    BY NatParts
  <2>1. Count(srcs', o) = Count(srcs, o) - IF x \in Devices \union Contexts THEN Is(source[x], o) ELSE 0
    BY <1>1, <2>0, FiniteParts, Lost
  <2>2. Count(pars', o) = Count(pars, o) - IF x \in Contexts \union Maps THEN Is(parent[x], o) ELSE 0
    BY <1>2, <2>0, FiniteParts, Lost
  <2>3. Count(mbufs', o) = Count(mbufs, o) - IF x \in Maps THEN Is(mapsrc[x].buf, o) ELSE 0
    BY <1>3, <2>0, FiniteParts, Lost
  <2>4. Count(mctxs', o) = Count(mctxs, o) - IF x \in Maps THEN Is(mapsrc[x].ctx, o) ELSE 0
    BY <1>4, <2>0, FiniteParts, Lost
  <2>5. Held(o)' = Count(srcs', o) + Count(pars', o) + Count(mbufs', o) + Count(mctxs', o)
    BY DEF Held
  <2> QED BY <2>0, <2>1, <2>2, <2>3, <2>4, <2>5 DEF Held, DyingRefs, Is
<1> QED BY <1>5, <1>6


-----------------------------------------------------------------------------
\* The list of a thread is built call by call, from its end.  The functions count
\* the unreferences and the last calls on all lists.
Before(td, t, s) == [td EXCEPT ![t] = s \o @]

Listable(t, lives, td, us, ls) ==
    /\ td \in Todo /\ Few(td)
    /\ Kept(parent, source, td[t])
    /\ \A i \in DOMAIN td[t] : Right(lives, td[t][i])
    /\ \A u \in Threads \ {t} : td[u] = todo[u]
    /\ us \in [Objects -> Int] /\ ls \in [Objects -> Int]
    /\ \A o \in Objects : Count(Marks(td, "unref"), o) = us[o] /\ Count(Marks(td, "last"), o) = ls[o]

More(us, x) == [o \in Objects |-> us[o] + Is(x, o)]

LEMMA RightCons ==
  ASSUME NEW lives, NEW s \in Seq(Calls), NEW call \in Calls, Right(lives, call),
         \A i \in DOMAIN s : Right(lives, s[i])
  PROVE  \A i \in DOMAIN (<<call>> \o s) : Right(lives, (<<call>> \o s)[i])
<1>1. PICK n : n = <<call>> \o s
  OBVIOUS
<1>2. /\ n \in Seq(Calls) /\ Len(n) = Len(s) + 1 /\ n[1] = call
      /\ \A i \in 2 .. Len(n) : n[i] = s[i - 1]
  BY <1>1, ConsSeq
<1>3. ASSUME NEW i \in DOMAIN n  PROVE Right(lives, n[i])
  <2>1. i \in 1 .. Len(n)
    BY <1>2
  <2>2. CASE i = 1
    BY <1>2, <2>2
  <2>3. CASE i # 1
    <3>1. i \in 2 .. Len(n) /\ i - 1 \in 1 .. Len(s)
      BY <1>2, <2>1, <2>3
    <3>2. n[i] = s[i - 1] /\ i - 1 \in DOMAIN s
      BY <1>2, <3>1
    <3> QED BY <3>2
  <2> QED BY <2>2, <2>3
<1> QED BY <1>1, <1>3

LEMMA ListsCall ==
  ASSUME NEW t \in Threads, NEW lives, NEW td, NEW us, NEW ls, Listable(t, lives, td, us, ls),
         NEW call \in Calls, Right(lives, call),
         \A p \in Promised(parent, source, call) : Among(p, td[t]),
         NEW x, x = IF Mark(call) = "unref" THEN call.obj ELSE None,
         NEW y, y = IF Mark(call) = "last" THEN call.obj ELSE None
  PROVE  /\ Listable(t, lives, Before(td, t, <<call>>), More(us, x), More(ls, y))
         /\ \A p : Among(p, Before(td, t, <<call>>)[t]) <=> p = call \/ Among(p, td[t])
<1>1. /\ td \in Todo /\ Few(td) /\ Kept(parent, source, td[t])
      /\ \A i \in DOMAIN td[t] : Right(lives, td[t][i])
      /\ \A u \in Threads \ {t} : td[u] = todo[u]
      /\ us \in [Objects -> Int] /\ ls \in [Objects -> Int]
      /\ \A o \in Objects : Count(Marks(td, "unref"), o) = us[o] /\ Count(Marks(td, "last"), o) = ls[o]
  BY DEF Listable
<1>2. PICK s \in Seq(Calls) : s = td[t]
  BY <1>1 DEF Todo
<1>3. PICK n : n = <<call>> \o s
  OBVIOUS
<1>4. n \in Seq(Calls)
  BY <1>3
<1>5. PICK tn : tn = Before(td, t, <<call>>)
  OBVIOUS
<1>6. tn \in Todo /\ tn[t] = n /\ \A u \in Threads \ {t} : tn[u] = td[u]
  BY <1>1, <1>2, <1>3, <1>4, <1>5 DEF Before, Todo
<1>7. Changes(td, tn, t, <<call>> \o td[t])
  BY <1>1, <1>2, <1>3, <1>6 DEF Changes, Todo
<1>8. /\ Few(tn)
      /\ \A w \in {"unref", "last"}, o \in Objects :
               Count(Marks(tn, w), o) = Count(Marks(td, w), o) + Of(call, w, o)
  BY <1>1, <1>6, <1>7, Consed
<1>9. \A o \in Objects : Of(call, "unref", o) = Is(x, o) /\ Of(call, "last", o) = Is(y, o)
  BY HwContextAssumption DEF Of, Is
<1>10. ASSUME NEW o \in Objects
       PROVE  Count(Marks(tn, "unref"), o) = More(us, x)[o] /\ Count(Marks(tn, "last"), o) = More(ls, y)[o]
  BY <1>1, <1>8, <1>9 DEF More
<1>11. More(us, x) \in [Objects -> Int] /\ More(ls, y) \in [Objects -> Int]
  BY <1>1, IsInt DEF More
<1>12. Kept(parent, source, n)
  BY <1>1, <1>2, <1>3, KeptCons
<1>13. \A i \in DOMAIN n : Right(lives, n[i])
  BY <1>1, <1>2, <1>3, RightCons
<1>14. Listable(t, lives, tn, More(us, x), More(ls, y))
  BY <1>1, <1>6, <1>8, <1>10, <1>11, <1>12, <1>13 DEF Listable
<1>15. ASSUME NEW p  PROVE Among(p, n) <=> p = call \/ Among(p, s)
  BY <1>3, AmongCons
<1> QED BY <1>2, <1>5, <1>6, <1>14, <1>15

LEMMA ListsDrop ==
  ASSUME NEW t \in Threads, NEW lives, NEW td, NEW us, NEW ls, Listable(t, lives, td, us, ls),
         NEW x \in Objects \union {None},
         x \in Surfaces /\ parent[x] # None => Among(Call("unref", parent[x]), td[t])
  PROVE  /\ Listable(t, lives, Before(td, t, Drop(x)), More(us, x), ls)
         /\ \A p : Among(p, Before(td, t, Drop(x))[t]) <=>
                      Among(p, td[t]) \/ (x # None /\ p = Call("unref", x))
<1>1. /\ td \in Todo /\ us \in [Objects -> Int] /\ ls \in [Objects -> Int]
  BY DEF Listable
<1>2. CASE x = None
  <2>1. Drop(x) = <<>>
    BY <1>2 DEF Drop
  <2>2. \A u \in Threads : <<>> \o td[u] = td[u]
    BY <1>1 DEF Todo
  <2>3. Before(td, t, Drop(x)) = td
    BY <1>1, <2>1, <2>2 DEF Before, Todo
  <2>4. More(us, x) = us
    BY <1>1, <1>2, IsInt DEF More
  <2> QED BY <1>2, <2>3, <2>4
<1>3. CASE x # None
  <2>1. Call("unref", x) \in Calls
    BY <1>3 DEF Call, Calls
  <2>2. PICK call \in Calls : call = Call("unref", x) /\ call.what = "unref" /\ call.obj = x
    BY <2>1 DEF Call
  <2>3. Drop(x) = <<call>>
    BY <1>3, <2>2 DEF Drop
  <2>4. \A p \in Promised(parent, source, call) : Among(p, td[t])
    BY <2>2 DEF Promised, Later
  <2>5. Right(lives, call)
    BY <2>2 DEF Right
  <2>6. Mark(call) = "unref"
    BY <2>2 DEF Mark
  <2>7. PICK none : none = None
    OBVIOUS
  <2>8. /\ Listable(t, lives, Before(td, t, <<call>>), More(us, x), More(ls, none))
        /\ \A p : Among(p, Before(td, t, <<call>>)[t]) <=> p = call \/ Among(p, td[t])
    BY <2>2, <2>4, <2>5, <2>6, <2>7, ListsCall
  <2>9. More(ls, none) = ls
    BY <1>1, <2>7, IsInt DEF More
  <2> QED BY <1>3, <2>2, <2>3, <2>8, <2>9
<1> QED BY <1>2, <1>3

LEMMA BeforeBefore ==
  ASSUME NEW td \in Todo, NEW t \in Threads, NEW a \in Seq(Calls), NEW b \in Seq(Calls)
  PROVE  Before(td, t, b) \in Todo /\ Before(Before(td, t, b), t, a) = Before(td, t, a \o b)
<1>1. PICK s \in Seq(Calls) : s = td[t]
  BY DEF Todo
<1>2. (a \o b) \o s = a \o (b \o s)
  BY ConcatAssociative
<1>10. b \o s \in Seq(Calls)
  OBVIOUS
<1>3. PICK n \in Seq(Calls) : n = b \o s
  BY <1>10
<1>11. a \o n \in Seq(Calls)
  OBVIOUS
<1>4. PICK m \in Seq(Calls) : m = a \o n
  BY <1>11
<1>5. Before(td, t, b) = [td EXCEPT ![t] = n]
  BY <1>1, <1>3 DEF Before
<1>6. [td EXCEPT ![t] = n] \in Todo /\ [td EXCEPT ![t] = n][t] = n
  BY DEF Todo
<1>7. Before(Before(td, t, b), t, a) = [td EXCEPT ![t] = m]
  BY <1>4, <1>5, <1>6 DEF Before, Todo
<1>8. (a \o b) \o s = m
  BY <1>2, <1>3, <1>4
<1>9. Before(td, t, a \o b) = [td EXCEPT ![t] = m]
  BY <1>1, <1>8 DEF Before
<1> QED BY <1>5, <1>6, <1>7, <1>9


\* The thread's call is taken off, an unreference of what dies now.
TakenOff(t, o, lives, td, us, ls) ==
    /\ lives = [life EXCEPT ![o] = "dying"]
    /\ td = [todo EXCEPT ![t] = Tail(@)]
    /\ us = [y \in Objects |-> Count(Marks(todo, "unref"), y) - Is(o, y)]
    /\ ls = [y \in Objects |-> Count(Marks(todo, "last"), y)]

LEMMA ListsTail ==
  ASSUME IInv, NEW t \in Threads, todo[t] # <<>>, NEW o \in Objects, life[o] = "live",
         Head(todo[t]) = Call("unref", o),
         NEW lives, NEW td, NEW us, NEW ls, TakenOff(t, o, lives, td, us, ls)
  PROVE  /\ Listable(t, lives, td, us, ls)
         /\ o \in Surfaces /\ parent[o] # None => Among(Call("unref", parent[o]), td[t])
<1>1. Types /\ Promises /\ Deaths
  BY DEF IInv
<1>0. /\ lives = [life EXCEPT ![o] = "dying"]
      /\ td = [todo EXCEPT ![t] = Tail(@)]
      /\ us = [y \in Objects |-> Count(Marks(todo, "unref"), y) - Is(o, y)]
      /\ ls = [y \in Objects |-> Count(Marks(todo, "last"), y)]
  BY DEF TakenOff
<1>2. todo \in Todo /\ Few(todo) /\ todo[t] \in Seq(Calls) /\ todo[t] # <<>>
  BY <1>1 DEF Types, Todo
<1>3. PICK n : n = Tail(todo[t])
  OBVIOUS
<1>4. PICK call : call = Call("unref", o) /\ call.what = "unref" /\ call.obj = o
  BY DEF Call
<1>5. n \in Seq(Calls) /\ call \in Calls /\ todo[t] = <<call>> \o n
  BY <1>2, <1>3, <1>4, TailSeq
<1>6. /\ td \in Todo /\ td[t] = n
      /\ \A u \in Threads \ {t} : td[u] = todo[u]
  BY <1>0, <1>2, <1>3, <1>5 DEF Todo
<1>7. Changes(todo, td, t, Tail(todo[t]))
  BY <1>2, <1>3, <1>6 DEF Todo, Changes
<1>8. /\ Few(td)
      /\ \A w \in {"unref", "last"}, y \in Objects :
               Count(Marks(td, w), y) = Count(Marks(todo, w), y) - Of(Head(todo[t]), w, y)
  BY <1>2, <1>6, <1>7, Popped
<1>9. \A y \in Objects : Of(call, "unref", y) = Is(o, y) /\ Of(call, "last", y) = 0
  BY <1>4 DEF Of, Mark
<1>10. \A y \in Objects : Count(Marks(todo, "unref"), y) \in Nat /\ Count(Marks(todo, "last"), y) \in Nat
  BY <1>2, CountNat DEF Few
<1>11. us \in [Objects -> Int] /\ ls \in [Objects -> Int]
  BY <1>0, <1>10, IsInt
<1>19. \A y \in Objects : us[y] = Count(Marks(todo, "unref"), y) - Is(o, y) /\ ls[y] = Count(Marks(todo, "last"), y)
  BY <1>0
<1>12. ASSUME NEW y \in Objects
       PROVE  Count(Marks(td, "unref"), y) = us[y] /\ Count(Marks(td, "last"), y) = ls[y]
  <2>1. Count(Marks(td, "unref"), y) = Count(Marks(todo, "unref"), y) - Of(call, "unref", y)
    BY <1>4, <1>8
  <2>2. Count(Marks(td, "last"), y) = Count(Marks(todo, "last"), y) - Of(call, "last", y)
    BY <1>4, <1>8
  <2> QED BY <1>9, <1>10, <1>19, <2>1, <2>2
<1>13. PICK s \in Seq(Calls) : s = todo[t] /\ s # <<>>
  BY <1>2
<1>14. Kept(parent, source, s)
  BY <1>1, <1>13 DEF Promises
<1>15. /\ Kept(parent, source, n)
       /\ \A p \in Promised(parent, source, call) : Among(p, n)
  BY <1>3, <1>4, <1>13, <1>14, KeptTail
<1>16. o \in Surfaces /\ parent[o] # None => Among(Call("unref", parent[o]), n)
  <2>1. ASSUME o \in Surfaces, parent[o] # None
        PROVE  Call("unref", parent[o]) \in Promised(parent, source, call)
    BY <1>4, <2>1 DEF Promised, Later
  <2> QED BY <1>15, <2>1
<1>17. \A i \in DOMAIN n : Right(lives, n[i])
  <2>1. ASSUME NEW i \in DOMAIN n  PROVE Right(lives, n[i])
    <3>1. Among(n[i], n)
      BY DEF Among
    <3>2. Among(n[i], todo[t])
      BY <1>5, <3>1, AmongCons
    <3>5. PICK j \in DOMAIN todo[t] : todo[t][j] = n[i]
      BY <3>2 DEF Among
    <3>6. Right(life, todo[t][j]) /\ todo[t][j] \in Calls
      BY <1>1, <1>2 DEF Deaths
    <3>3. Right(life, n[i]) /\ n[i].obj \in Objects
      BY <3>5, <3>6 DEF Calls
    <3>4. life[n[i].obj] = "dying" => lives[n[i].obj] = "dying"
      BY <1>0, <1>1, <3>3 DEF Types
    <3> QED BY <3>3, <3>4 DEF Right
  <2> QED BY <2>1
<1>18. Listable(t, lives, td, us, ls)
  BY <1>6, <1>8, <1>11, <1>12, <1>15, <1>17 DEF Listable
<1> QED BY <1>6, <1>16, <1>18


LEMMA CallOf ==
  ASSUME NEW what \in {"unref", "device_uninit", "frames_uninit", "unmap", "pool_release", "free"},
         NEW o \in Objects
  PROVE  Call(what, o) \in Calls /\ Call(what, o).what = what /\ Call(what, o).obj = o
BY DEF Call, Calls

LEMMA OneCall ==
  ASSUME NEW call \in Calls
  PROVE  <<call>> \in Seq(Calls)
OBVIOUS

LEMMA FourBefore ==
  ASSUME NEW td \in Todo, NEW t \in Threads, NEW a \in Seq(Calls), NEW b \in Seq(Calls),
         NEW c \in Seq(Calls), NEW d \in Seq(Calls)
  PROVE  Before(td, t, ((a \o b) \o c) \o d) = Before(Before(Before(Before(td, t, d), t, c), t, b), t, a)
<1>1. Before(td, t, d) \in Todo
  BY BeforeBefore
<1>2. PICK x \in Todo : x = Before(td, t, d)
  BY <1>1
<1>3. Before(x, t, c) \in Todo
  BY BeforeBefore
<1>4. PICK y \in Todo : y = Before(x, t, c)
  BY <1>3
<1>5. Before(Before(y, t, b), t, a) = Before(y, t, a \o b)
  BY BeforeBefore
<1>6. a \o b \in Seq(Calls)
  OBVIOUS
<1>7. PICK ab \in Seq(Calls) : ab = a \o b
  BY <1>6
<1>8. Before(y, t, ab) = Before(x, t, ab \o c)
  BY <1>4, BeforeBefore
<1>9. ab \o c \in Seq(Calls)
  OBVIOUS
<1>10. PICK abc \in Seq(Calls) : abc = ab \o c
  BY <1>9
<1>11. Before(x, t, abc) = Before(td, t, abc \o d)
  BY <1>2, BeforeBefore
<1> QED BY <1>2, <1>4, <1>5, <1>7, <1>8, <1>10, <1>11

LEMMA ThreeBefore ==
  ASSUME NEW td \in Todo, NEW t \in Threads, NEW a \in Seq(Calls), NEW b \in Seq(Calls), NEW c \in Seq(Calls)
  PROVE  Before(td, t, (a \o b) \o c) = Before(Before(Before(td, t, c), t, b), t, a)
<1>1. Before(td, t, c) \in Todo
  BY BeforeBefore
<1>2. PICK x \in Todo : x = Before(td, t, c)
  BY <1>1
<1>3. Before(Before(x, t, b), t, a) = Before(x, t, a \o b)
  BY BeforeBefore
<1>4. a \o b \in Seq(Calls)
  OBVIOUS
<1>5. PICK ab \in Seq(Calls) : ab = a \o b
  BY <1>4
<1>6. Before(x, t, ab) = Before(td, t, ab \o c)
  BY <1>2, BeforeBefore
<1> QED BY <1>2, <1>3, <1>5, <1>6

\* The end of each callback but a surface's: the object is freed, after its last
\* references are dropped, and the first call is the driver's.
LEMMA EndsFree ==
  ASSUME NEW t \in Threads, NEW o \in Objects, o \notin Surfaces, NEW lives, lives[o] = "dying",
         NEW n, NEW us, NEW ls, Listable(t, lives, n, us, ls)
  PROVE  /\ Listable(t, lives, Before(n, t, <<Call("free", o)>>), us, More(ls, o))
         /\ Among(Call("free", o), Before(n, t, <<Call("free", o)>>)[t])
<1>1. PICK call \in Calls : call = Call("free", o) /\ call.what = "free" /\ call.obj = o
  BY CallOf
<1>2. Right(lives, call)
  BY <1>1 DEF Right
<1>3. Mark(call) = "last" /\ Promised(parent, source, call) = {}
  BY <1>1 DEF Mark, Promised, Later
<1>4. PICK none : none = None
  OBVIOUS
<1>5. /\ Listable(t, lives, Before(n, t, <<call>>), More(us, none), More(ls, o))
      /\ \A p : Among(p, Before(n, t, <<call>>)[t]) <=> p = call \/ Among(p, n[t])
  BY <1>1, <1>2, <1>3, <1>4, ListsCall
<1>6. us \in [Objects -> Int]
  BY DEF Listable
<1>7. More(us, none) = us
  BY <1>4, <1>6, IsInt DEF More
<1> QED BY <1>1, <1>5, <1>7

LEMMA StartsDriver ==
  ASSUME NEW t \in Threads, NEW o \in Objects, NEW lives, lives[o] = "dying",
         NEW what \in {"device_uninit", "frames_uninit", "unmap"},
         what = "device_uninit" => o \in Devices, what = "frames_uninit" => o \in Contexts,
         what = "unmap" => o \in Maps,
         NEW n, NEW us, NEW ls, Listable(t, lives, n, us, ls),
         Among(Call("free", o), n[t]),
         what # "device_uninit" /\ parent[o] # None => Among(Call("unref", parent[o]), n[t]),
         what # "unmap" /\ source[o] # None => Among(Call("unref", source[o]), n[t])
  PROVE  /\ Listable(t, lives, Before(n, t, <<Call(what, o)>>), us, ls)
         /\ Among(Call(what, o), Before(n, t, <<Call(what, o)>>)[t])
<1>1. PICK call \in Calls : call = Call(what, o) /\ call.what = what /\ call.obj = o
  BY CallOf
<1>2. Right(lives, call)
  BY <1>1 DEF Right
<1>3. Mark(call) = "other"
  BY <1>1 DEF Mark
<1>4. PICK none : none = None
  OBVIOUS
<1>5. \A p \in Promised(parent, source, call) : Among(p, n[t])
  BY <1>1 DEF Promised, Later
<1>6. /\ Listable(t, lives, Before(n, t, <<call>>), More(us, none), More(ls, none))
      /\ \A p : Among(p, Before(n, t, <<call>>)[t]) <=> p = call \/ Among(p, n[t])
  BY <1>1, <1>2, <1>3, <1>4, <1>5, ListsCall
<1>7. us \in [Objects -> Int] /\ ls \in [Objects -> Int]
  BY DEF Listable
<1>8. More(us, none) = us /\ More(ls, none) = ls
  BY <1>4, <1>7, IsInt DEF More
<1> QED BY <1>1, <1>6, <1>8

\* What a free callback puts on the list: it drops what the fields of the object
\* refer to, and ends its death.
Grown(t, o, lives, n, us, ls) ==
    \E un, ln : /\ Listable(t, lives, Before(n, t, FreeCallback(o)), un, ln)
                /\ \A y \in Objects : un[y] = us[y] + DyingRefs(o, y) /\ ln[y] = ls[y] + Is(o, y)

LEMMA SurfaceFreed ==
  ASSUME IInv, NEW t \in Threads, NEW o \in Surfaces, NEW lives, lives[o] = "dying",
         NEW n, NEW us, NEW ls, Listable(t, lives, n, us, ls),
         parent[o] # None => Among(Call("unref", parent[o]), n[t])
  PROVE  Grown(t, o, lives, n, us, ls)
<1>1. o \in Objects /\ o \notin Devices /\ o \notin Contexts /\ o \notin Maps
  BY Kinds
<1>2. PICK call \in Calls : call = Call("pool_release", o) /\ call.what = "pool_release" /\ call.obj = o
  BY <1>1, CallOf
<1>3. FreeCallback(o) = <<call>>
  BY <1>1, <1>2 DEF FreeCallback
<1>4. Right(lives, call)
  BY <1>2 DEF Right
<1>5. Mark(call) = "last"
  BY <1>2 DEF Mark
<1>6. \A p \in Promised(parent, source, call) : Among(p, n[t])
  BY <1>2 DEF Promised, Later
<1>7. PICK none : none = None
  OBVIOUS
<1>8. Listable(t, lives, Before(n, t, <<call>>), More(us, none), More(ls, o))
  BY <1>2, <1>4, <1>5, <1>6, <1>7, ListsCall
<1>9. us \in [Objects -> Int] /\ ls \in [Objects -> Int]
  BY DEF Listable
<1>10. ASSUME NEW y \in Objects
       PROVE  More(us, none)[y] = us[y] + DyingRefs(o, y) /\ More(ls, o)[y] = ls[y] + Is(o, y)
  BY <1>1, <1>7, <1>9, IsInt DEF More, DyingRefs
<1> QED BY <1>3, <1>8, <1>10 DEF Grown

LEMMA DeviceFreed ==
  ASSUME IInv, NEW t \in Threads, NEW o \in Devices, NEW lives, lives[o] = "dying",
         NEW n, NEW us, NEW ls, Listable(t, lives, n, us, ls)
  PROVE  Grown(t, o, lives, n, us, ls)
<1>1. o \in Objects /\ o \notin Surfaces /\ o \notin Contexts /\ o \notin Maps
  BY Kinds
<1>2. PICK src : src = source[o]
  OBVIOUS
<1>3. src \in Objects \union {None} /\ src \notin Surfaces
  BY <1>2, Kinds DEF IInv, Fields
<1>4. PICK n1 : n1 = Before(n, t, <<Call("free", o)>>)
  OBVIOUS
<1>5. Listable(t, lives, n1, us, More(ls, o)) /\ Among(Call("free", o), n1[t])
  BY <1>1, <1>4, EndsFree
<1>6. PICK l1 : l1 = More(ls, o)
  OBVIOUS
<1>7. PICK n2 : n2 = Before(n1, t, Drop(src))
  OBVIOUS
<1>8. /\ Listable(t, lives, n2, More(us, src), l1)
      /\ \A p : Among(p, n2[t]) <=> Among(p, n1[t]) \/ (src # None /\ p = Call("unref", src))
  BY <1>3, <1>5, <1>6, <1>7, ListsDrop
<1>9. PICK u2 : u2 = More(us, src)
  OBVIOUS
<1>10. PICK what \in {"device_uninit", "frames_uninit", "unmap"} : what = "device_uninit"
  OBVIOUS
<1>11. Listable(t, lives, Before(n2, t, <<Call(what, o)>>), u2, l1)
  BY <1>1, <1>2, <1>5, <1>8, <1>9, <1>10, StartsDriver
<1>12. Before(n2, t, <<Call(what, o)>>) = Before(n, t, FreeCallback(o))
  <2>1. FreeCallback(o) = (<<Call("device_uninit", o)>> \o Drop(src)) \o <<Call("free", o)>>
    BY <1>2 DEF FreeCallback, DeviceFree
  <2>2. n \in Todo
    BY DEF Listable
  <2>3. Call("device_uninit", o) \in Calls /\ Call("free", o) \in Calls
    BY <1>1, CallOf
  <2>4. PICK a \in Seq(Calls), c \in Seq(Calls) : a = <<Call("device_uninit", o)>> /\ c = <<Call("free", o)>>
    BY <2>3, OneCall
  <2>5. Drop(src) \in Seq(Calls)
    BY <1>3, DropSeq
  <2>6. PICK b \in Seq(Calls) : b = Drop(src)
    BY <2>5
  <2>7. Before(n, t, (a \o b) \o c) = Before(Before(Before(n, t, c), t, b), t, a)
    BY <2>2, ThreeBefore
  <2> QED BY <1>4, <1>7, <1>10, <2>1, <2>4, <2>6, <2>7
<1>13. us \in [Objects -> Int] /\ ls \in [Objects -> Int]
  BY DEF Listable
<1>14. ASSUME NEW y \in Objects
       PROVE  u2[y] = us[y] + DyingRefs(o, y) /\ l1[y] = ls[y] + Is(o, y)
  BY <1>1, <1>2, <1>6, <1>9, <1>13, IsInt DEF More, DyingRefs
<1> QED BY <1>11, <1>12, <1>14 DEF Grown

LEMMA ContextFreed ==
  ASSUME IInv, NEW t \in Threads, NEW o \in Contexts, life[o] = "live", NEW lives, lives[o] = "dying",
         NEW n, NEW us, NEW ls, Listable(t, lives, n, us, ls)
  PROVE  /\ Grown(t, o, lives, n, us, ls)
         /\ Among(Call("frames_uninit", o), Before(n, t, FreeCallback(o))[t])
<1>1. o \in Objects /\ o \notin Surfaces /\ o \notin Devices /\ o \notin Maps
  BY Kinds
<1>2. PICK src, par : src = source[o] /\ par = parent[o]
  OBVIOUS
<1>3. src \in Objects \union {None} /\ src \notin Surfaces /\ par \in Objects \union {None} /\ par \notin Surfaces
  BY <1>2, Kinds DEF IInv, Fields
<1>4. PICK n1 : n1 = Before(n, t, <<Call("free", o)>>)
  OBVIOUS
<1>5. Listable(t, lives, n1, us, More(ls, o)) /\ Among(Call("free", o), n1[t])
  BY <1>1, <1>4, EndsFree
<1>6. PICK l1 : l1 = More(ls, o)
  OBVIOUS
<1>7. PICK n2 : n2 = Before(n1, t, Drop(par))
  OBVIOUS
<1>8. /\ Listable(t, lives, n2, More(us, par), l1)
      /\ \A p : Among(p, n2[t]) <=> Among(p, n1[t]) \/ (par # None /\ p = Call("unref", par))
  BY <1>3, <1>5, <1>6, <1>7, ListsDrop
<1>9. PICK u2 : u2 = More(us, par)
  OBVIOUS
<1>10. PICK n3 : n3 = Before(n2, t, Drop(src))
  OBVIOUS
<1>11. /\ Listable(t, lives, n3, More(u2, src), l1)
       /\ \A p : Among(p, n3[t]) <=> Among(p, n2[t]) \/ (src # None /\ p = Call("unref", src))
  BY <1>3, <1>8, <1>9, <1>10, ListsDrop
<1>12. PICK u3 : u3 = More(u2, src)
  OBVIOUS
<1>13. PICK what \in {"device_uninit", "frames_uninit", "unmap"} : what = "frames_uninit"
  OBVIOUS
<1>14. /\ Listable(t, lives, Before(n3, t, <<Call(what, o)>>), u3, l1)
       /\ Among(Call(what, o), Before(n3, t, <<Call(what, o)>>)[t])
  BY <1>1, <1>2, <1>5, <1>8, <1>11, <1>12, <1>13, StartsDriver
<1>15. Before(n3, t, <<Call(what, o)>>) = Before(n, t, FreeCallback(o))
  <2>1. FreeCallback(o) = ((<<Call("frames_uninit", o)>> \o Drop(src)) \o Drop(par)) \o <<Call("free", o)>>
    BY <1>1, <1>2 DEF FreeCallback, ContextFree
  <2>2. n \in Todo
    BY DEF Listable
  <2>3. Call("frames_uninit", o) \in Calls /\ Call("free", o) \in Calls
    BY <1>1, CallOf
  <2>4. PICK a \in Seq(Calls), d \in Seq(Calls) : a = <<Call("frames_uninit", o)>> /\ d = <<Call("free", o)>>
    BY <2>3, OneCall
  <2>5. Drop(src) \in Seq(Calls) /\ Drop(par) \in Seq(Calls)
    BY <1>3, DropSeq
  <2>6. PICK b \in Seq(Calls), c \in Seq(Calls) : b = Drop(src) /\ c = Drop(par)
    BY <2>5
  <2>7. Before(n, t, ((a \o b) \o c) \o d) = Before(Before(Before(Before(n, t, d), t, c), t, b), t, a)
    BY <2>2, FourBefore
  <2> QED BY <1>4, <1>7, <1>10, <1>13, <2>1, <2>4, <2>6, <2>7
<1>16. us \in [Objects -> Int] /\ ls \in [Objects -> Int]
  BY DEF Listable
<1>17. ASSUME NEW y \in Objects
       PROVE  u3[y] = us[y] + DyingRefs(o, y) /\ l1[y] = ls[y] + Is(o, y)
  BY <1>1, <1>2, <1>6, <1>9, <1>12, <1>16, IsInt DEF More, DyingRefs
<1>18. Grown(t, o, lives, n, us, ls)
  BY <1>14, <1>15, <1>17 DEF Grown
<1> QED BY <1>13, <1>14, <1>15, <1>18

LEMMA MapFreed ==
  ASSUME IInv, NEW t \in Threads, NEW o \in Maps, life[o] = "live", NEW lives, lives[o] = "dying",
         NEW n, NEW us, NEW ls, Listable(t, lives, n, us, ls)
  PROVE  Grown(t, o, lives, n, us, ls)
<1>1. o \in Objects /\ o \notin Surfaces /\ o \notin Devices /\ o \notin Contexts
  BY Kinds
<1>2. PICK buf, ctx, par : buf = mapsrc[o].buf /\ ctx = mapsrc[o].ctx /\ par = parent[o]
  OBVIOUS
<1>3. /\ buf \in Objects \union {None} /\ ctx \in Objects \union {None} /\ ctx \notin Surfaces
      /\ par \in Objects \union {None} /\ par \notin Surfaces
  <2>1. mapsrc[o] \in Frame /\ par \in Contexts
    BY <1>1, <1>2 DEF IInv, Types, Fields
  <2>2. buf \in Surfaces \union Maps \union {None} /\ ctx \in Contexts \union {None}
    BY <1>2, <2>1 DEF Frame
  <2> QED BY <2>1, <2>2, Kinds
<1>4. buf \in Surfaces => ctx = parent[buf]
  BY <1>2 DEF IInv, Companions, Paired
<1>5. PICK n1 : n1 = Before(n, t, <<Call("free", o)>>)
  OBVIOUS
<1>6. Listable(t, lives, n1, us, More(ls, o)) /\ Among(Call("free", o), n1[t])
  BY <1>1, <1>5, EndsFree
<1>7. PICK l1 : l1 = More(ls, o)
  OBVIOUS
<1>8. PICK n2 : n2 = Before(n1, t, Drop(par))
  OBVIOUS
<1>9. /\ Listable(t, lives, n2, More(us, par), l1)
      /\ \A p : Among(p, n2[t]) <=> Among(p, n1[t]) \/ (par # None /\ p = Call("unref", par))
  BY <1>3, <1>6, <1>7, <1>8, ListsDrop
<1>10. PICK u2 : u2 = More(us, par)
  OBVIOUS
<1>11. PICK n3 : n3 = Before(n2, t, Drop(ctx))
  OBVIOUS
<1>12. /\ Listable(t, lives, n3, More(u2, ctx), l1)
       /\ \A p : Among(p, n3[t]) <=> Among(p, n2[t]) \/ (ctx # None /\ p = Call("unref", ctx))
  BY <1>3, <1>9, <1>10, <1>11, ListsDrop
<1>13. PICK u3 : u3 = More(u2, ctx)
  OBVIOUS
<1>14. PICK n4 : n4 = Before(n3, t, Drop(buf))
  OBVIOUS
<1>15. buf \in Surfaces /\ parent[buf] # None => Among(Call("unref", parent[buf]), n3[t])
  BY <1>4, <1>12
<1>16. /\ Listable(t, lives, n4, More(u3, buf), l1)
       /\ \A p : Among(p, n4[t]) <=> Among(p, n3[t]) \/ (buf # None /\ p = Call("unref", buf))
  BY <1>3, <1>12, <1>13, <1>14, <1>15, ListsDrop
<1>17. PICK u4 : u4 = More(u3, buf)
  OBVIOUS
<1>18. PICK what \in {"device_uninit", "frames_uninit", "unmap"} : what = "unmap"
  OBVIOUS
<1>19. Listable(t, lives, Before(n4, t, <<Call(what, o)>>), u4, l1)
  BY <1>1, <1>2, <1>6, <1>9, <1>12, <1>16, <1>17, <1>18, StartsDriver
<1>20. Before(n4, t, <<Call(what, o)>>) = Before(n, t, FreeCallback(o))
  <2>1. n \in Todo
    BY DEF Listable
  <2>2. Call("unmap", o) \in Calls /\ Call("free", o) \in Calls
    BY <1>1, CallOf
  <2>3. PICK a \in Seq(Calls), d \in Seq(Calls) : a = <<Call("unmap", o)>> /\ d = <<Call("free", o)>>
    BY <2>2, OneCall
  <2>4. Drop(buf) \in Seq(Calls) /\ Drop(ctx) \in Seq(Calls) /\ Drop(par) \in Seq(Calls)
    BY <1>3, DropSeq
  <2>5. PICK x \in Seq(Calls), y \in Seq(Calls), c \in Seq(Calls) :
           x = Drop(buf) /\ y = Drop(ctx) /\ c = Drop(par)
    BY <2>4
  <2>6. x \o y \in Seq(Calls)
    OBVIOUS
  <2>7. PICK b \in Seq(Calls) : b = x \o y
    BY <2>6
  <2>8. DropRefs(mapsrc[o]) = b
    BY <1>2, <2>5, <2>7 DEF DropRefs, RefsOf
  <2>9. FreeCallback(o) = ((a \o b) \o c) \o d
    BY <1>1, <1>2, <2>3, <2>5, <2>8 DEF FreeCallback, Unmap
  <2>10. Before(n, t, ((a \o b) \o c) \o d) = Before(Before(Before(Before(n, t, d), t, c), t, b), t, a)
    BY <2>1, FourBefore
  <2>11. n2 = Before(Before(n, t, d), t, c) /\ n2 \in Todo
    BY <1>5, <1>8, <1>9, <2>3, <2>5 DEF Listable
  <2>12. Before(n2, t, b) = n4
    BY <1>11, <1>14, <2>5, <2>7, <2>11, BeforeBefore
  <2> QED BY <1>18, <2>3, <2>9, <2>10, <2>11, <2>12
<1>21. us \in [Objects -> Int] /\ ls \in [Objects -> Int]
  BY DEF Listable
<1>22. ASSUME NEW y \in Objects
       PROVE  u4[y] = us[y] + DyingRefs(o, y) /\ l1[y] = ls[y] + Is(o, y)
  BY <1>1, <1>2, <1>7, <1>10, <1>13, <1>17, <1>21, IsInt DEF More, DyingRefs
<1> QED BY <1>19, <1>20, <1>22 DEF Grown

LEMMA CallbackListed ==
  ASSUME IInv, NEW t \in Threads, NEW o \in Objects, life[o] = "live", NEW lives, lives[o] = "dying",
         NEW n, NEW us, NEW ls, Listable(t, lives, n, us, ls),
         o \in Surfaces /\ parent[o] # None => Among(Call("unref", parent[o]), n[t])
  PROVE  /\ Grown(t, o, lives, n, us, ls)
         /\ o \in Contexts => Among(Call("frames_uninit", o), Before(n, t, FreeCallback(o))[t])
<1>1. CASE o \in Surfaces
  BY <1>1, SurfaceFreed, Kinds
<1>2. CASE o \in Devices
  BY <1>2, DeviceFreed, Kinds
<1>3. CASE o \in Contexts
  BY <1>3, ContextFreed
<1>4. CASE o \in Maps
  BY <1>4, MapFreed, Kinds
<1> QED BY <1>1, <1>2, <1>3, <1>4 DEF Objects

LEMMA AmongConcat ==
  ASSUME NEW r \in Seq(Calls), NEW s \in Seq(Calls), NEW p, Among(p, s)
  PROVE  Among(p, r \o s)
<1>1. PICK i \in 1 .. Len(s) : s[i] = p
  BY DEF Among
<1>2. PICK n : n = r \o s
  OBVIOUS
<1>3. /\ DOMAIN n = 1 .. Len(n) /\ Len(n) = Len(r) + Len(s) /\ Len(r) \in Nat /\ Len(s) \in Nat
  BY <1>2
<1>4. Len(r) + i \in 1 .. Len(n) /\ n[Len(r) + i] = p
  BY <1>1, <1>2, <1>3
<1> QED BY <1>2, <1>3, <1>4 DEF Among

LEMMA CallbackSeq ==
  ASSUME Types, Fields, NEW o \in Objects, life[o] = "live"
  PROVE  FreeCallback(o) \in Seq(Calls)
<1>1. \A w \in {"device_uninit", "frames_uninit", "unmap", "pool_release", "free"} : Call(w, o) \in Calls
  BY CallOf
<1>2. \A w \in {"device_uninit", "frames_uninit", "unmap", "pool_release", "free"} : <<Call(w, o)>> \in Seq(Calls)
  BY <1>1, OneCall
<1>3. ASSUME NEW a \in Seq(Calls), NEW b \in Seq(Calls), NEW c \in Seq(Calls)
      PROVE  /\ (a \o b) \o c \in Seq(Calls)
             /\ \A d \in Seq(Calls) : ((a \o b) \o c) \o d \in Seq(Calls)
  OBVIOUS
<1>4. CASE o \in Devices
  <2>1. source[o] \in Objects \union {None}
    BY <1>4, ObjectTypes
  <2>2. Drop(source[o]) \in Seq(Calls)
    BY <2>1, DropSeq
  <2>3. FreeCallback(o) = (<<Call("device_uninit", o)>> \o Drop(source[o])) \o <<Call("free", o)>>
    BY <1>4 DEF FreeCallback, DeviceFree
  <2> QED BY <1>2, <1>3, <2>2, <2>3
<1>5. CASE o \in Contexts
  <2>1. source[o] \in Objects \union {None} /\ parent[o] \in Objects \union {None}
    BY <1>5, ObjectTypes
  <2>2. Drop(source[o]) \in Seq(Calls) /\ Drop(parent[o]) \in Seq(Calls)
    BY <2>1, DropSeq
  <2>3. FreeCallback(o) = ((<<Call("frames_uninit", o)>> \o Drop(source[o])) \o Drop(parent[o]))
                              \o <<Call("free", o)>>
    BY <1>5, Kinds DEF FreeCallback, ContextFree
  <2> QED BY <1>2, <1>3, <2>2, <2>3
<1>6. CASE o \in Maps
  <2>1. /\ mapsrc[o].buf \in Objects \union {None} /\ mapsrc[o].ctx \in Objects \union {None}
        /\ parent[o] \in Objects \union {None}
    BY <1>6, ObjectTypes
  <2>2. Drop(mapsrc[o].buf) \in Seq(Calls) /\ Drop(mapsrc[o].ctx) \in Seq(Calls) /\ Drop(parent[o]) \in Seq(Calls)
    BY <2>1, DropSeq
  <2>3. Drop(mapsrc[o].buf) \o Drop(mapsrc[o].ctx) \in Seq(Calls)
    BY <2>2
  <2>4. DropRefs(mapsrc[o]) \in Seq(Calls)
    BY <2>3 DEF DropRefs, RefsOf
  <2>5. FreeCallback(o) = ((<<Call("unmap", o)>> \o DropRefs(mapsrc[o])) \o Drop(parent[o])) \o <<Call("free", o)>>
    BY <1>6, Kinds DEF FreeCallback, Unmap
  <2> QED BY <1>2, <1>3, <2>2, <2>4, <2>5
<1>7. CASE o \in Surfaces
  BY <1>2, <1>7, Kinds DEF FreeCallback
<1> QED BY <1>4, <1>5, <1>6, <1>7 DEF Objects

\* The last reference to an object is dropped.
Dies(t, o) ==
    /\ todo[t] # <<>> /\ Head(todo[t]) = Call("unref", o) /\ rc[o] = 1 /\ OneLess(o)
    /\ life' = [life EXCEPT ![o] = "dying"]
    /\ todo' = [todo EXCEPT ![t] = FreeCallback(o) \o Tail(@)]
    /\ UNCHANGED <<parent, source, stage, pool, mapsrc, frame, held>>

\* The lists of the threads after it.
DeadLists(t, o) ==
    /\ todo' \in Todo /\ Few(todo')
    /\ Kept(parent, source, todo'[t])
    /\ \A i \in DOMAIN todo'[t] : Right(life', todo'[t][i])
    /\ \A u \in Threads \ {t} : todo'[u] = todo[u]
    /\ \A y \in Objects :
          /\ Count(Marks(todo', "unref"), y) = Count(Marks(todo, "unref"), y) - Is(o, y) + DyingRefs(o, y)
          /\ Count(Marks(todo', "last"), y) = Count(Marks(todo, "last"), y) + Is(o, y)
    /\ o \in Contexts => Among(Call("frames_uninit", o), todo'[t])
    /\ \A p : p.what # "unref" /\ Among(p, todo[t]) => Among(p, todo'[t])

LEMMA DeadListed ==
  ASSUME IInv, NEW t \in Threads, NEW o \in Objects, Dies(t, o)
  PROVE  DeadLists(t, o)
<1>1. Types /\ Fields /\ Lived /\ todo \in Todo
  BY DEF IInv, Types
<1>2. life[o] = "live"
  BY <1>1 DEF Dies, Lived
<1>3. PICK td : td = [todo EXCEPT ![t] = Tail(@)]
  OBVIOUS
<1>4. PICK lives : lives = [life EXCEPT ![o] = "dying"]
  OBVIOUS
<1>5. PICK us : us = [y \in Objects |-> Count(Marks(todo, "unref"), y) - Is(o, y)]
  OBVIOUS
<1>6. PICK ls : ls = [y \in Objects |-> Count(Marks(todo, "last"), y)]
  OBVIOUS
<1>7. TakenOff(t, o, lives, td, us, ls)
  BY <1>3, <1>4, <1>5, <1>6 DEF TakenOff
<1>8. todo[t] # <<>> /\ Head(todo[t]) = Call("unref", o)
  BY DEF Dies
<1>9. /\ Listable(t, lives, td, us, ls)
      /\ o \in Surfaces /\ parent[o] # None => Among(Call("unref", parent[o]), td[t])
  BY <1>2, <1>7, <1>8, ListsTail
<1>10. lives[o] = "dying" /\ life' = lives
  BY <1>1, <1>4 DEF Types, Dies
<1>11. /\ Grown(t, o, lives, td, us, ls)
       /\ o \in Contexts => Among(Call("frames_uninit", o), Before(td, t, FreeCallback(o))[t])
  BY <1>2, <1>9, <1>10, CallbackListed
<1>12. PICK s \in Seq(Calls) : s = FreeCallback(o)
  BY <1>1, <1>2, CallbackSeq
<1>13. PICK old \in Seq(Calls) : old = todo[t] /\ old # <<>>
  BY <1>1, <1>8 DEF Todo
<1>14. PICK n \in Seq(Calls) : n = Tail(old)
  BY <1>13, TailSeq
<1>15. td = [todo EXCEPT ![t] = n] /\ todo' = [todo EXCEPT ![t] = s \o n]
  BY <1>3, <1>12, <1>13, <1>14 DEF Dies
<1>16. td[t] = n
  BY <1>1, <1>15 DEF Todo
<1>17. todo' = Before(td, t, s)
  BY <1>1, <1>15, <1>16 DEF Before, Todo
<1>18. PICK un, ln : /\ Listable(t, lives, todo', un, ln)
                     /\ \A y \in Objects : un[y] = us[y] + DyingRefs(o, y) /\ ln[y] = ls[y] + Is(o, y)
  BY <1>11, <1>12, <1>17 DEF Grown
<1>19. /\ todo' \in Todo /\ Few(todo')
       /\ Kept(parent, source, todo'[t])
       /\ \A i \in DOMAIN todo'[t] : Right(life', todo'[t][i])
       /\ \A u \in Threads \ {t} : todo'[u] = todo[u]
       /\ \A y \in Objects : Count(Marks(todo', "unref"), y) = un[y] /\ Count(Marks(todo', "last"), y) = ln[y]
  BY <1>10, <1>18 DEF Listable
<1>20. ASSUME NEW y \in Objects
       PROVE  /\ Count(Marks(todo', "unref"), y) = Count(Marks(todo, "unref"), y) - Is(o, y) + DyingRefs(o, y)
              /\ Count(Marks(todo', "last"), y) = Count(Marks(todo, "last"), y) + Is(o, y)
  BY <1>5, <1>6, <1>18, <1>19
<1>21. o \in Contexts => Among(Call("frames_uninit", o), todo'[t])
  BY <1>11, <1>12, <1>17
<1>22. ASSUME NEW p, p.what # "unref", Among(p, todo[t])  PROVE Among(p, todo'[t])
  <2>1. Head(old) = Call("unref", o) /\ Head(old) \in Calls /\ old = <<Head(old)>> \o n
    BY <1>8, <1>13, <1>14, TailSeq
  <2>2. p # Head(old)
    BY <1>22, <2>1 DEF Call
  <2>3. Among(p, n)
    BY <1>13, <1>22, <2>1, <2>2, AmongCons
  <2>4. Among(p, s \o n)
    BY <2>3, AmongConcat
  <2>5. todo'[t] = s \o n
    BY <1>1, <1>15 DEF Todo
  <2> QED BY <2>4, <2>5
<1> QED BY <1>19, <1>20, <1>21, <1>22 DEF DeadLists

LEMMA DyingNat ==
  ASSUME NEW x, NEW o
  PROVE  DyingRefs(x, o) \in Nat
BY DEF DyingRefs, Is

LEMMA DeadKeeps ==
  ASSUME IInv, NEW t \in Threads, NEW o \in Objects, Dies(t, o)
  PROVE  IInv'
<1>1. Types /\ Fields /\ Companions /\ Pools /\ Lived /\ Ledger /\ Alive /\ Promises /\ Ranked /\ Deaths
  BY AllAlive DEF IInv
<1>2. /\ todo' \in Todo /\ Few(todo')
      /\ Kept(parent, source, todo'[t])
      /\ \A i \in DOMAIN todo'[t] : Right(life', todo'[t][i])
      /\ \A u \in Threads \ {t} : todo'[u] = todo[u]
      /\ o \in Contexts => Among(Call("frames_uninit", o), todo'[t])
      /\ \A p : p.what # "unref" /\ Among(p, todo[t]) => Among(p, todo'[t])
  BY DeadListed DEF DeadLists
<1>3. \A y \in Objects :
          /\ Count(Marks(todo', "unref"), y) = Count(Marks(todo, "unref"), y) - Is(o, y) + DyingRefs(o, y)
          /\ Count(Marks(todo', "last"), y) = Count(Marks(todo, "last"), y) + Is(o, y)
  BY DeadListed DEF DeadLists
<1>4. UNCHANGED <<parent, source, stage, pool, mapsrc, frame, held>> /\ rc[o] = 1
  BY DEF Dies
<1>5. life[o] = "live"
  BY <1>1, <1>4 DEF Lived
<1>6. life' \in [Objects -> Lives] /\ life'[o] = "dying" /\ \A x \in Objects : x # o => life'[x] = life[x]
  BY <1>1 DEF Types, Dies, Lives
<1>7. rc' \in [Objects -> Nat] /\ rc'[o] = 0 /\ \A x \in Objects : x # o => rc'[x] = rc[x]
  <2>1. rc' = [rc EXCEPT ![o] = 0]
    BY <1>4 DEF Dies, OneLess
  <2> QED BY <1>1, <2>1 DEF Types
<1>8. Types'
  BY <1>1, <1>2, <1>4, <1>6, <1>7 DEF Types
<1>9. Ranked' /\ \A x \in Objects : Held(x)' = Held(x) - DyingRefs(o, x)
  BY <1>1, <1>4, <1>5, <1>6, Death
<1>10. Ledger'
  <2>1. ASSUME NEW x \in Objects  PROVE rc'[x] = RefsTo(x)'
    <3>1. Count(Marks(todo', "unref"), x) = Count(Marks(todo, "unref"), x) - Is(o, x) + DyingRefs(o, x)
      BY <1>3
    <3>2. HeldOf(x)' = HeldOf(x) /\ Shown(x)' = Shown(x) /\ Held(x)' = Held(x) - DyingRefs(o, x)
      BY <1>4, <1>9, HandlesSame, FramesSame
    <3>3. RefsTo(x)' = HeldOf(x)' + Shown(x)' + Held(x)' + Count(Marks(todo', "unref"), x)
      BY <1>8, SumsNext
    <3>4. /\ rc[x] = HeldOf(x) + Shown(x) + Held(x) + Count(Marks(todo, "unref"), x)
          /\ HeldOf(x) \in Nat /\ Shown(x) \in Nat /\ Held(x) \in Nat
          /\ Count(Marks(todo, "unref"), x) \in Nat
      BY <1>1, Sums DEF Ledger
    <3>5. rc'[x] = rc[x] - Is(o, x)
      BY <1>4, <1>7, <3>4 DEF Is
    <3>6. Is(o, x) \in Nat /\ DyingRefs(o, x) \in Nat
      BY IsInt, DyingNat
    <3> QED BY <3>1, <3>2, <3>3, <3>4, <3>5, <3>6
  <2> QED BY <2>1 DEF Ledger
<1>11. Lived'
  BY <1>1, <1>6, <1>7 DEF Lived
<1>12. Fields'
  <2>1. \A x \in Objects : life'[x] # "none" => life[x] # "none"
    BY <1>5, <1>6
  <2>2. \A x \in Objects : life'[x] = "none" => life[x] = "none"
    BY <1>6
  <2> QED BY <1>1, <1>4, <2>1, <2>2, Kinds DEF Fields
<1>13. Companions'
  <2>1. \A m \in Maps : life'[m] = "live" => life[m] = "live"
    BY <1>6, Kinds
  <2> QED BY <1>1, <1>4, <2>1 DEF Companions, Paired
<1>14. Pools'
  <2>1. \A c \in Contexts : life'[c] = "live" => life[c] = "live"
    BY <1>6, Kinds
  <2>2. ASSUME NEW c \in Contexts, pool[c] = "open", life'[c] # "live"
        PROVE  \E u \in Threads : Among(Call("frames_uninit", c), todo'[u])
    <3>1. CASE c = o
      BY <1>2, <3>1
    <3>2. CASE c # o
      <4>1. life[c] # "live"
        BY <1>6, <2>2, <3>2, Kinds
      <4>2. PICK u \in Threads : Among(Call("frames_uninit", c), todo[u])
        BY <1>1, <2>2, <4>1 DEF Pools
      <4>3. Call("frames_uninit", c).what # "unref"
        BY DEF Call
      <4>4. Among(Call("frames_uninit", c), todo'[u])
        BY <1>2, <4>2, <4>3
      <4> QED BY <4>4
    <3> QED BY <3>1, <3>2
  <2> QED BY <1>1, <1>4, <2>1, <2>2 DEF Pools
<1>15. Promises'
  BY <1>1, <1>2, <1>4 DEF Promises
<1>16. Deaths'
  <2>1. ASSUME NEW u \in Threads, NEW i \in DOMAIN todo'[u]  PROVE Right(life', todo'[u][i])
    <3>1. CASE u = t
      BY <1>2, <3>1
    <3>2. CASE u # t
      <4>1. PICK call \in Calls : call = todo[u][i] /\ call = todo'[u][i]
        BY <1>1, <1>2, <3>2 DEF Types, Todo
      <4>2. Right(life, call) /\ call.obj \in Objects
        BY <1>1, <1>2, <3>2, <4>1 DEF Deaths, Calls
      <4>3. life[call.obj] = "dying" => life'[call.obj] = "dying"
        BY <1>6, <4>2
      <4> QED BY <4>1, <4>2, <4>3 DEF Right
    <3> QED BY <3>1, <3>2
  <2>2. ASSUME NEW x \in Objects
        PROVE  Count(Marks(todo', "last"), x) = IF life'[x] = "dying" THEN 1 ELSE 0
    <3>1. Count(Marks(todo, "last"), x) = IF life[x] = "dying" THEN 1 ELSE 0
      BY <1>1 DEF Deaths
    <3>2. Count(Marks(todo', "last"), x) = Count(Marks(todo, "last"), x) + Is(o, x)
      BY <1>3
    <3> QED BY <1>5, <1>6, <3>1, <3>2 DEF Is
  <2> QED BY <2>1, <2>2 DEF Deaths
<1> QED BY <1>8, <1>9, <1>10, <1>11, <1>12, <1>13, <1>14, <1>15, <1>16 DEF IInv

\* The next call of a thread.
LEMMA StepKeeps ==
  ASSUME IInv, NEW t \in Threads, Step(t)
  PROVE  IInv'
<1>1. PICK call : call = Head(todo[t])
  OBVIOUS
<1>2. Types /\ todo[t] # <<>> /\ frame' = frame /\ held' = held
  BY DEF IInv, Step, Idle
<1>3. call \in Calls /\ call.obj \in Objects
  BY <1>1, <1>2, TailSeq DEF Types, Todo, Calls
<1>4. CASE call.what = "unref" /\ Unref(t, call.obj)
  <2>1. PICK o \in Objects : o = call.obj
    BY <1>3
  <2>2. call = Call("unref", o)
    BY <1>3, <1>4, <2>1 DEF Call, Calls
  <2>3. OneLess(o) /\ UNCHANGED <<parent, source, stage, pool, mapsrc, frame, held>>
    BY <1>2, <1>4, <2>1 DEF Unref, OneLess
  <2>4. CASE rc[o] = 1
    <3>1. /\ life' = [life EXCEPT ![o] = "dying"]
          /\ todo' = [todo EXCEPT ![t] = FreeCallback(o) \o Tail(@)]
      BY <1>4, <2>1, <2>4 DEF Unref
    <3>2. Dies(t, o)
      BY <1>1, <1>2, <2>2, <2>3, <2>4, <3>1 DEF Dies
    <3> QED BY <3>2, DeadKeeps
  <2>5. CASE rc[o] # 1
    <3>1. life' = life /\ todo' = [todo EXCEPT ![t] = Tail(@)]
      BY <1>4, <2>1, <2>5 DEF Unref
    <3>2. Takes(t, call)
      BY <1>1, <1>2, <3>1 DEF Takes
    <3> QED BY <1>4, <2>1, <2>3, <2>5, <3>1, <3>2, LessKeeps
  <2> QED BY <2>4, <2>5
<1>5. CASE /\ call.what # "unref"
           /\ todo' = [todo EXCEPT ![t] = Tail(@)]
           /\ \/ /\ \/ call.what = "pool_release" /\ PoolRelease(call.obj)
                    \/ call.what = "frames_uninit" /\ PoolUninit(call.obj)
                    \/ /\ call.what \in {"device_uninit", "unmap"}
                       /\ UNCHANGED <<life, parent, pool>>
                 /\ UNCHANGED <<rc, source, stage, mapsrc>>
              \/ call.what = "free" /\ Dealloc(call.obj)
  <2>1. Takes(t, call)
    BY <1>1, <1>2, <1>5 DEF Takes
  <2>2. CASE call.what = "pool_release" /\ PoolRelease(call.obj) /\ UNCHANGED <<rc, source, stage, mapsrc>>
    BY <1>2, <2>1, <2>2, ReleaseKeeps
  <2>3. CASE call.what = "frames_uninit" /\ PoolUninit(call.obj) /\ UNCHANGED <<rc, source, stage, mapsrc>>
    BY <1>2, <2>1, <2>3, UninitKeeps
  <2>4. CASE call.what \in {"device_uninit", "unmap"} /\ UNCHANGED <<life, parent, pool>>
             /\ UNCHANGED <<rc, source, stage, mapsrc>>
    BY <1>2, <2>1, <2>4, DriverKeeps
  <2>5. CASE call.what = "free" /\ Dealloc(call.obj)
    BY <1>2, <2>1, <2>5, FreeKeeps
  <2> QED BY <1>5, <2>2, <2>3, <2>4, <2>5
<1> QED BY <1>1, <1>4, <1>5 DEF Step

LEMMA StutterKeeps ==
  ASSUME IInv, UNCHANGED vars
  PROVE  IInv'
<1>1. /\ life' = life /\ rc' = rc /\ parent' = parent /\ source' = source /\ stage' = stage
      /\ pool' = pool /\ mapsrc' = mapsrc /\ frame' = frame /\ held' = held /\ todo' = todo
  BY DEF vars
<1>2. Types'
  BY <1>1 DEF IInv, Types
<1>3. Ledger' /\ Lived' /\ Ranked'
  <2>1. srcs' = srcs /\ pars' = pars /\ mbufs' = mbufs /\ mctxs' = mctxs /\ bufs' = bufs /\ ctxs' = ctxs
    BY <1>1 DEF srcs, pars, mbufs, mctxs, bufs, ctxs, InUseOr
  <2>2. Lived'
    BY <1>1 DEF IInv, Lived
  <2>3. Ledger'
    BY <1>1, <2>1 DEF IInv, Ledger, RefsTo, HeldOf
  <2>4. Ranked'
    BY <2>1, AllAlive, NoBirthRanks DEF IInv
  <2> QED BY <2>2, <2>3, <2>4
<1>4. Fields' /\ Companions' /\ Pools'
  BY <1>1 DEF IInv, Fields, Companions, Paired, Pools
<1>5. Promises' /\ Deaths'
  BY <1>1 DEF IInv, Promises, Deaths
<1> QED BY <1>2, <1>3, <1>4, <1>5 DEF IInv

LEMMA NextKeeps ==
  ASSUME IInv, [Next]_vars
  PROVE  IInv'
<1>1. CASE UNCHANGED vars
  BY <1>1, StutterKeeps
<1>2. ASSUME NEW t \in Threads,
             \/ \E d \in Devices : DeviceCreate(t, d)
             \/ \E d, src \in Devices : DeviceDeriveNew(t, d, src)
             \/ \E d, src \in Devices : DeviceDeriveKnown(t, Type[d], src)
             \/ \E c \in Contexts, d \in Devices : ContextAlloc(t, c, d)
             \/ \E c \in Contexts : ContextInit(t, c)
             \/ \E c, src \in Contexts, d \in Devices : ContextDeriveNew(t, c, d, src)
             \/ \E src \in Contexts, d \in Devices : ContextDeriveBack(t, d, src)
      PROVE  IInv'
  BY <1>2, DeviceCreateKeeps, DeviceDeriveNewKeeps, DeviceDeriveKnownKeeps, ContextAllocKeeps,
     ContextInitKeeps, ContextDeriveNewKeeps, ContextDeriveBackKeeps
<1>3. ASSUME NEW t \in Threads, NEW c \in Contexts, NEW f \in Frames,
             GetBuffer(t, c, f) \/ GetBufferDerived(t, c, f) \/ SetFramesCtx(t, f, c)
      PROVE  IInv'
  BY <1>3, GetBufferKeeps, GetBufferDerivedKeeps, SetFramesCtxKeeps
<1>4. ASSUME NEW t \in Threads, NEW dst \in Frames, NEW src \in Frames,
             \/ MapFrame(t, dst, src) \/ UnmapFrame(t, dst, src)
             \/ MapThrough(t, dst, src)
             \/ FrameRef(t, dst, src) \/ FrameMove(t, dst, src)
      PROVE  IInv'
  BY <1>4, MapFrameKeeps, UnmapFrameKeeps, MapThroughKeeps, FrameRefKeeps, FrameMoveKeeps
<1>5. ASSUME NEW t \in Threads, \/ \E f \in Frames : FrameUnref(t, f)
                                \/ \E o \in Devices \union Contexts : DropHandle(t, o)
                                \/ Step(t)
      PROVE  IInv'
  BY <1>5, FrameUnrefKeeps, DropHandleKeeps, StepKeeps
<1> QED BY <1>1, <1>2, <1>3, <1>4, <1>5 DEF Next

\* At first there is nothing.
LEMMA InitHolds == Init => IInv
<1> SUFFICES ASSUME Init  PROVE IInv
  OBVIOUS
<1>1. /\ life = [o \in Objects |-> "none"] /\ rc = [o \in Objects |-> 0]
      /\ parent = [o \in Objects |-> None] /\ source = [o \in Devices \union Contexts |-> None]
      /\ stage = [c \in Contexts |-> "new"] /\ pool = [c \in Contexts |-> "none"]
      /\ mapsrc = [m \in Maps |-> Empty] /\ frame = [f \in Frames |-> Empty]
      /\ held = [o \in Devices \union Contexts |-> 0] /\ todo = [t \in Threads |-> <<>>]
  BY DEF Init
<1>2. Empty \in Frame /\ Empty.buf = None /\ Empty.ctx = None
  BY DEF Empty, Frame
<1>3. \A t \in Threads : todo[t] = <<>> /\ Len(todo[t]) = 0 /\ DOMAIN todo[t] = {}
  BY <1>1
<1>4. todo \in Todo
  BY <1>1 DEF Todo
<1>5. \A w : \A y \in DOMAIN Marks(todo, w) : Marks(todo, w)[y] = None
  BY <1>3 DEF Marks
<1>6. ASSUME NEW w, NEW o \in Objects
      PROVE  IsFiniteSet(Places(Marks(todo, w), o)) /\ Count(Marks(todo, w), o) = 0
  <2>1. Places(Marks(todo, w), o) = {}
    BY <1>5, HwContextAssumption DEF Places
  <2> QED BY <2>1, FS_EmptySet DEF Count
<1>7. Types
  <2>1. 0 \in 0 .. MaxHandles
    BY HwContextAssumption
  <2> QED BY <1>1, <1>2, <1>4, <1>6, <2>1 DEF Types, Lives, Few
<1>8. ASSUME NEW g, \A y \in DOMAIN g : g[y] = None, NEW o \in Objects
      PROVE  Count(g, o) = 0
  <2>1. Places(g, o) = {}
    BY <1>8, HwContextAssumption DEF Places
  <2> QED BY <2>1, FS_EmptySet DEF Count
<1>9. \A o \in Devices \union Contexts \union Maps : life[o] = "none"
  BY <1>1 DEF Objects
<1>10. /\ \A y \in DOMAIN bufs : bufs[y] = None
       /\ \A y \in DOMAIN ctxs : ctxs[y] = None
       /\ \A y \in DOMAIN srcs : srcs[y] = None
       /\ \A y \in DOMAIN pars : pars[y] = None
       /\ \A y \in DOMAIN mbufs : mbufs[y] = None
       /\ \A y \in DOMAIN mctxs : mctxs[y] = None
  BY <1>1, <1>2, <1>9 DEF bufs, ctxs, srcs, pars, mbufs, mctxs, InUseOr
<1>11. Ledger
  <2>1. ASSUME NEW o \in Objects  PROVE rc[o] = RefsTo(o)
    <3>1. /\ Count(bufs, o) = 0 /\ Count(ctxs, o) = 0 /\ Count(srcs, o) = 0 /\ Count(pars, o) = 0
          /\ Count(mbufs, o) = 0 /\ Count(mctxs, o) = 0
      BY <1>8, <1>10
    <3>2. Count(Marks(todo, "unref"), o) = 0
      BY <1>6
    <3>3. HeldOf(o) = 0 /\ rc[o] = 0
      BY <1>1 DEF HeldOf
    <3> QED BY <3>1, <3>2, <3>3 DEF RefsTo
  <2> QED BY <2>1 DEF Ledger
<1>12. Lived
  BY <1>1 DEF Lived
<1>13. Fields
  BY <1>1, Kinds DEF Fields
<1>14. Companions
  BY <1>1, <1>2, Kinds DEF Companions, Paired
<1>15. Pools
  BY <1>1, Kinds DEF Pools
<1>16. Promises
  BY <1>3 DEF Promises, Kept
<1>17. Deaths
  <2>1. \A o \in Objects : Count(Marks(todo, "last"), o) = IF life[o] = "dying" THEN 1 ELSE 0
    BY <1>1, <1>6
  <2>2. \A t \in Threads : \A i \in DOMAIN todo[t] : Right(life, todo[t][i])
    BY <1>3
  <2> QED BY <2>1, <2>2 DEF Deaths
<1>18. Ranked
  <2>1. PICK rank : rank = [o \in Objects |-> 0]
    OBVIOUS
  <2>2. rank \in [Objects -> 0 .. 0]
    BY <2>1
  <2>3. \A x, y \in Objects : ~Refers(x, y)
    BY <1>10, HwContextAssumption DEF Refers, srcs, pars, mbufs, mctxs
  <2> QED BY <2>2, <2>3 DEF Ranked
<1> QED BY <1>7, <1>11, <1>12, <1>13, <1>14, <1>15, <1>16, <1>17, <1>18 DEF IInv

-----------------------------------------------------------------------------
\* The reference counts are exact, references are acyclic, every death ends in
\* one last call, and what a call needs stays until the thread drops it: the
\* inductive invariant of the API and the callbacks of hwcontext.c.
THEOREM InductiveInvariant == Spec => []IInv
<1>1. IInv /\ [Next]_vars => IInv'
  BY NextKeeps
<1> QED BY <1>1, InitHolds, PTL DEF Spec

\* The first call of a list, and what it has promised.
LEMMA Heads ==
  ASSUME IInv, NEW t \in Threads, todo[t] # <<>>
  PROVE  /\ Head(todo[t]) \in Calls /\ Right(life, Head(todo[t]))
         /\ \A x \in Objects : Call("unref", x) \in Promised(parent, source, Head(todo[t])) =>
                life[x] = "live"
<1>1. Types /\ Promises /\ Deaths /\ Alive
  BY AllAlive DEF IInv
<1>2. PICK s \in Seq(Calls) : s = todo[t] /\ s # <<>>
  BY <1>1 DEF Types, Todo
<1>3. Head(s) = s[1] /\ 1 \in DOMAIN s /\ Head(s) \in Calls
  BY <1>2
<1>4. Right(life, s[1])
  BY <1>1, <1>2, <1>3 DEF Deaths
<1>5. ASSUME NEW x \in Objects, Call("unref", x) \in Promised(parent, source, s[1])
      PROVE  life[x] = "live"
  <2>1. PICK j \in 1 + 1 .. Len(s) : s[j] = Call("unref", x)
    BY <1>1, <1>2, <1>3, <1>5 DEF Promises, Kept
  <2>2. j \in DOMAIN s
    BY <2>1
  <2>3. s[j].what = "unref" /\ s[j].obj = x
    BY <2>1 DEF Call
  <2> QED BY <1>1, <1>2, <2>2, <2>3 DEF Alive
<1> QED BY <1>2, <1>3, <1>4, <1>5

\* A device in use, and everything it was derived from, are there.
LEMMA DeviceUsable ==
  ASSUME IInv, NEW d \in Devices, life[d] = "live"
  PROVE  Usable(d)
<1>1. Types /\ Fields /\ Alive
  BY AllAlive DEF IInv
<1> QED BY <1>1, AncestorsLive DEF Usable

LEMMA ContextUsable ==
  ASSUME IInv, NEW c \in Contexts, life[c] = "live"
  PROVE  Usable(parent[c])
<1>1. Types /\ Fields /\ Alive
  BY AllAlive DEF IInv
<1>2. parent[c] \in Devices /\ life[parent[c]] = "live"
  BY <1>1 DEF Fields, Alive
<1> QED BY <1>2, DeviceUsable

LEMMA TypesHold == IInv => TypeOK
<1> SUFFICES ASSUME IInv  PROVE TypeOK
  OBVIOUS
<1>1. Types /\ Lived
  BY DEF IInv
<1>2. /\ parent \in [Objects -> Objects \union {None}]
      /\ pool \in [Contexts -> {"none", "open", "closed"}]
      /\ \A t \in Threads : todo[t] \in Seq(Calls)
  BY <1>1 DEF Types, Todo, Objects
<1> QED BY <1>1, <1>2 DEF TypeOK, Types, Lived

LEMMA CallbacksSee == IInv => CallbacksSeeLiveContexts
<1> SUFFICES ASSUME IInv, NEW t \in Threads, ~Idle(t)
             PROVE  LET call == Head(todo[t])
                        o == call.obj
                    IN  /\ call.what = "unmap" =>
                              life[parent[o]] = "live" /\ Usable(parent[parent[o]])
                        /\ call.what = "pool_release" =>
                              /\ life[parent[o]] = "live" /\ Usable(parent[parent[o]])
                              /\ pool[parent[o]] = "open"
                        /\ call.what = "frames_uninit" =>
                              /\ Usable(parent[o])
                              /\ source[o] # None => life[source[o]] = "live"
                        /\ call.what = "device_uninit" /\ source[o] # None => Usable(source[o])
  BY DEF CallbacksSeeLiveContexts
<1>1. PICK call : call = Head(todo[t])
  OBVIOUS
<1>2. todo[t] # <<>> /\ Fields
  BY DEF Idle, IInv
<1>3. /\ call \in Calls /\ Right(life, call)
      /\ \A x \in Objects : Call("unref", x) \in Promised(parent, source, call) => life[x] = "live"
  BY <1>1, <1>2, Heads
<1>4. PICK o \in Objects : o = call.obj
  BY <1>3 DEF Calls
<1>5. ASSUME NEW x \in Later(parent, source, call) \ {None}, x \in Objects
      PROVE  life[x] = "live"
  BY <1>3, <1>5 DEF Promised
<1>6. call.what # "unref" => life[o] = "dying"
  BY <1>3, <1>4 DEF Right
<1>7. ASSUME call.what \in {"unmap", "pool_release"}
      PROVE  /\ life[parent[o]] = "live" /\ Usable(parent[parent[o]])
             /\ o \in Surfaces => pool[parent[o]] = "open"
  <2>1. parent[o] \in Contexts /\ (o \in Surfaces => pool[parent[o]] = "open")
    BY <1>2, <1>3, <1>4, <1>6, <1>7 DEF Right, Fields
  <2>2. parent[o] \in Later(parent, source, call) \ {None} /\ parent[o] \in Objects
    BY <1>4, <1>7, <2>1, Kinds DEF Later
  <2>3. life[parent[o]] = "live"
    BY <1>5, <2>2
  <2> QED BY <2>1, <2>3, ContextUsable
<1>8. ASSUME call.what = "frames_uninit"
      PROVE  Usable(parent[o]) /\ (source[o] # None => life[source[o]] = "live")
  <2>1. parent[o] \in Devices /\ source[o] \in Contexts \union {None}
    BY <1>2, <1>3, <1>4, <1>6, <1>8 DEF Right, Fields
  <2>2. parent[o] \in Later(parent, source, call) \ {None} /\ parent[o] \in Objects
    BY <1>4, <1>8, <2>1, Kinds DEF Later
  <2>3. source[o] # None => source[o] \in Later(parent, source, call) \ {None} /\ source[o] \in Objects
    BY <1>4, <1>8, <2>1, Kinds DEF Later
  <2>4. life[parent[o]] = "live" /\ (source[o] # None => life[source[o]] = "live")
    BY <1>5, <2>2, <2>3
  <2> QED BY <2>1, <2>4, DeviceUsable
<1>9. ASSUME call.what = "device_uninit", source[o] # None
      PROVE  Usable(source[o])
  <2>1. source[o] \in Devices
    BY <1>2, <1>3, <1>4, <1>9 DEF Right, Fields
  <2>2. source[o] \in Later(parent, source, call) \ {None} /\ source[o] \in Objects
    BY <1>4, <1>9, <2>1, Kinds DEF Later
  <2>3. life[source[o]] = "live"
    BY <1>5, <2>2
  <2> QED BY <2>1, <2>3, DeviceUsable
<1>10. call.what = "pool_release" => o \in Surfaces
  BY <1>3, <1>4 DEF Right
<1> QED BY <1>1, <1>4, <1>7, <1>8, <1>9, <1>10

\* A driver's unmap, pool release, frames_uninit and device_uninit find the
\* frames context, the pool, the device and its ancestors that their raw pointers
\* lead to (hwdevice_ctx_free, hwframe_ctx_free, ff_hwframe_unmap).
THEOREM CallbacksFindContextsHolds == Spec => []CallbacksFindContexts
<1>1. IInv => CallbacksFindContexts
  BY TypesHold, CallbacksSee DEF CallbacksFindContexts
<1> QED BY <1>1, InductiveInvariant, PTL

\* No frame and no mapping refers to a surface that its pool can give away again.
THEOREM SurfacesReused == Spec => []SurfacesReusedWhenFree
<1>1. IInv => SurfacesReusedWhenFree
  <2> SUFFICES ASSUME IInv  PROVE SurfacesReusedWhenFree
    OBVIOUS
  <2>1. Alive
    BY AllAlive DEF IInv
  <2> QED BY <2>1, Kinds DEF Alive, SurfacesReusedWhenFree
<1> QED BY <1>1, InductiveInvariant, PTL
-----------------------------------------------------------------------------
\* A set of numbers has a least one: of the intervals below them, one has none of
\* the others in it.
LEMMA LeastOf ==
  ASSUME NEW T, T \subseteq Nat, T # {}
  PROVE  \E x \in T : \A y \in T : x <= y
<1> DEFINE Below == {0 .. (k - 1) : k \in T}
<1>1. Below \subseteq FiniteSubsetsOf(Nat) /\ Below # {}
  <2>1. ASSUME NEW k \in T  PROVE 0 .. (k - 1) \in FiniteSubsetsOf(Nat)
    <3>1. 0 \in Int /\ k - 1 \in Int
      OBVIOUS
    <3>2. IsFiniteSet(0 .. (k - 1))
      BY <3>1, FS_Interval, Zenon
    <3>3. 0 .. (k - 1) \in SUBSET Nat
      OBVIOUS
    <3> QED BY <3>2, <3>3, Zenon DEF FiniteSubsetsOf
  <2> QED BY <2>1
<1>2. PICK B \in Below : \A C \in Below : <<C, B>> \notin StrictSubsetOrdering(Nat)
  BY <1>1, FS_StrictSubsetOrderingWellFounded, WFMin, Zenon
<1>3. PICK x \in T : B = 0 .. (x - 1)
  OBVIOUS
<1>4. ASSUME NEW y \in T, ~(x <= y)  PROVE FALSE
  <2>1. y < x
    BY <1>4
  <2>2. 0 .. (y - 1) \subseteq 0 .. (x - 1) /\ 0 .. (y - 1) # 0 .. (x - 1)
    <3>1. y \in 0 .. (x - 1) /\ y \notin 0 .. (y - 1)
      BY <2>1
    <3> QED BY <2>1, <3>1
  <2>3. <<0 .. (y - 1), B>> \in StrictSubsetOrdering(Nat)
    <3>1. 0 .. (y - 1) \in SUBSET Nat /\ 0 .. (x - 1) \in SUBSET Nat
      OBVIOUS
    <3> QED BY <1>3, <2>2, <3>1 DEF StrictSubsetOrdering
  <2> QED BY <1>2, <2>3
<1> QED BY <1>4

\* Every object in use has a reference from another one, when nothing else has
\* references.
AllReferred == \A x \in Objects : life[x] = "live" => \E y \in Objects : life[y] = "live" /\ Refers(y, x)

LEMMA NoneReferred ==
  ASSUME Ranked, AllReferred, NEW o \in Objects
  PROVE  life[o] # "live"
<1> SUFFICES ASSUME life[o] = "live"  PROVE FALSE
  OBVIOUS
<1>1. PICK n \in Nat : \E rank \in [Objects -> 0 .. n] :
         \A x, y \in Objects : Refers(x, y) => rank[y] < rank[x]
  BY DEF Ranked
<1>2. PICK rank \in [Objects -> 0 .. n] :
         \A x, y \in Objects : Refers(x, y) => rank[y] < rank[x]
  BY <1>1
<1>3. PICK T : T = {n - rank[x] : x \in {y \in Objects : life[y] = "live"}}
  OBVIOUS
<1>4. T \subseteq Nat /\ T # {}
  BY <1>3
<1>5. PICK k \in T : \A j \in T : k <= j
  BY <1>4, LeastOf
<1>6. PICK x \in Objects : life[x] = "live" /\ k = n - rank[x]
  BY <1>3
<1>7. PICK y \in Objects : life[y] = "live" /\ Refers(y, x)
  BY <1>6 DEF AllReferred
<1>8. rank[x] < rank[y] /\ n - rank[y] \in T /\ rank[x] \in 0 .. n /\ rank[y] \in 0 .. n
  BY <1>2, <1>3, <1>7
<1> QED BY <1>5, <1>6, <1>8

\* Nothing is called, kept by the user or in a frame.
AllDropped ==
    /\ \A t \in Threads : Idle(t)
    /\ \A o \in DOMAIN held : held[o] = 0
    /\ \A f \in Frames : frame[f] = Empty

LEMMA NothingReferred ==
  ASSUME IInv, AllDropped
  PROVE  AllReferred
<1>1. Types /\ Lived /\ Ledger /\ Alive
  BY AllAlive DEF IInv
<1>2. ASSUME NEW x \in Objects, life[x] = "live"
      PROVE  \E y \in Objects : life[y] = "live" /\ Refers(y, x)
  <2>1. rc[x] > 0 /\ rc[x] = RefsTo(x)
    BY <1>1, <1>2 DEF Lived, Ledger
  <2>2. HeldOf(x) = 0
    BY <1>1 DEF AllDropped, HeldOf, Types
  <2>3. /\ Count(bufs, x) \in Nat /\ Count(ctxs, x) \in Nat
        /\ Count(srcs, x) \in Nat /\ Count(pars, x) \in Nat
        /\ Count(mbufs, x) \in Nat /\ Count(mctxs, x) \in Nat
        /\ Count(Marks(todo, "unref"), x) \in Nat
    BY <1>1, NatParts
  <2>4. x # None
    BY HwContextAssumption
  <2>5. ~(Count(bufs, x) > 0) /\ ~(Count(ctxs, x) > 0)
    <3>1. \A f \in Frames : frame[f].buf # x /\ frame[f].ctx # x
      BY <2>4 DEF AllDropped, Empty
    <3> QED BY <3>1, FiniteParts, Counted DEF bufs, ctxs
  <2>6. ~(Count(Marks(todo, "unref"), x) > 0)
    <3>1. \A t \in Threads : todo[t] = <<>>
      BY DEF AllDropped, Idle
    <3>2. \A t \in Threads : DOMAIN todo[t] = {}
      BY <3>1
    <3> QED BY <1>1, <3>2, Waiting DEF Types
  <2>7. \/ Count(srcs, x) > 0 \/ Count(pars, x) > 0
        \/ Count(mbufs, x) > 0 \/ Count(mctxs, x) > 0
    BY <2>1, <2>2, <2>3, <2>5, <2>6 DEF RefsTo
  <2>8. \/ \E y \in DOMAIN srcs : srcs[y] = x
        \/ \E y \in DOMAIN pars : pars[y] = x
        \/ \E y \in DOMAIN mbufs : mbufs[y] = x
        \/ \E y \in DOMAIN mctxs : mctxs[y] = x
    BY <2>7, FiniteParts, Counted
  <2>9. PICK y \in Devices \union Contexts \union Maps : Refers(y, x)
    BY <2>8 DEF Refers, srcs, pars, mbufs, mctxs
  <2>10. y \in Objects
    BY <2>9 DEF Objects
  <2>11. life[y] = "live"
    BY <1>1, <2>9, <2>10, LiveReferences
  <2> QED BY <2>9, <2>10, <2>11
<1> QED BY <1>2 DEF AllReferred

LEMMA NothingLeft ==
  ASSUME IInv, AllDropped, NEW o \in Objects
  PROVE  life[o] = "none"
<1>1. Types /\ Lived /\ Fields /\ Pools /\ Deaths /\ Ranked /\ life[o] \in Lives
  BY DEF IInv, Types
<1>2. \A x \in Objects : life[x] # "live"
  BY <1>1, NothingReferred, NoneReferred
<1>3. \A t \in Threads : todo[t] = <<>>
  BY DEF AllDropped, Idle
<1>4. \A t \in Threads : DOMAIN todo[t] = {}
  BY <1>3
<1>5. ASSUME NEW x \in Objects  PROVE life[x] # "dying"
  <2>1. ~(Count(Marks(todo, "last"), x) > 0)
    BY <1>1, <1>4, Waiting DEF Types
  <2> QED BY <1>1, <2>1 DEF Deaths
<1>6. ASSUME life[o] = "idle"  PROVE FALSE
  <2>1. o \in Surfaces
    BY <1>1, <1>6 DEF Lived
  <2>2. parent[o] \in Contexts /\ pool[parent[o]] = "open" /\ life[parent[o]] # "live"
    BY <1>1, <1>2, <1>6, <2>1, Kinds DEF Fields
  <2>3. PICK t \in Threads : Among(Call("frames_uninit", parent[o]), todo[t])
    BY <1>1, <2>2 DEF Pools
  <2> QED BY <1>4, <2>3 DEF Among
<1> QED BY <1>1, <1>2, <1>5, <1>6 DEF Lives

\* When the user has dropped what it had and no call is under way, every device,
\* frames context, surface and mapping is freed.
THEOREM NothingLeaksHolds == Spec => []NothingLeaks
<1>1. IInv => NothingLeaks
  BY NothingLeft DEF NothingLeaks, AllDropped
<1> QED BY <1>1, InductiveInvariant, PTL
====
