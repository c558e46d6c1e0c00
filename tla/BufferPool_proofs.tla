------------------------- MODULE BufferPool_proofs -------------------------
(***************************************************************************)
(* The invariants of BufferPool, for any finite sets of threads, buffers   *)
(* and references, and any data.                                           *)
(*                                                                         *)
(* CountInv is inductive whatever the pool's alloc callback returns.  It   *)
(* says what the counts count, and what the locals of a thread are at each *)
(* place of a call.  A buffer's count is its references and the copies     *)
(* that a make_writable holds (Refcounts), so the thread that takes it to  *)
(* zero is the last to know the buffer (FreedOnce).  The pool's count lags *)
(* behind by the buffers that pool_get has not counted yet (PoolCount): it *)
(* reaches zero early only if somebody is still in pool_get, and this      *)
(* somebody has a buffer of his own that is counted (GettersHaveBuffers).  *)
(*                                                                         *)
(* DataInv, added to it, says who owns the data (Ownership).  It needs     *)
(* that av_buffer_realloc never moves a pool's data (EntriesFixed), so the *)
(* theorems that rest on it assume an alloc callback that does not use     *)
(* av_buffer_realloc; without it the properties do not hold, as            *)
(* MCBufferPoolRealloc.cfg shows.                                          *)
(***************************************************************************)
EXTENDS BufferPool, FiniteSetTheorems, TLAPS

BufferShapes == [refcount : Int, data : Data \union {Null}, entry : Data \union {Null},
                 readonly : BOOLEAN, reallocatable : BOOLEAN]

\* TypeOK without the bounds on the counts, which follow from what they count.
Types ==
    /\ mem \subseteq Data
    /\ avbuf \in [Bufs -> BufferShapes]
    /\ \A b \in Bufs : avbuf[b] = NoBuf \/ avbuf[b].data # Null
    /\ ref \in [Refs -> AVBufferRefs \union {NoRef}]
    /\ pool_life \in {"none", "live", "freed"} /\ pool_ref \in BOOLEAN
    /\ pool_refcount \in Int
    /\ pool_list \in Seq(Data)
    /\ pc \in [Threads -> Labels]
    /\ buf \in [Threads -> Bufs \union {Null}]
    /\ newbuf \in [Threads -> Bufs \union {Null}]
    /\ my_ref \in [Threads -> Refs \union {Null}]

RefsTo(b) == {r \in Refs : ref[r].buffer = b}
CopiesOf(b) == {t \in Threads : newbuf[t] = b}

\* Who holds what, by count.
Refcounts ==
    \A b \in Bufs :
       avbuf[b].refcount = Cardinality(RefsTo(b)) + Cardinality(CopiesOf(b))

\* A buffer without references is freed by one thread, the one that found so.
FreedOnce ==
    /\ \A t \in Threads : buf[t] # Null =>
          avbuf[buf[t]].data # Null /\ avbuf[buf[t]].refcount = 0
    /\ \A t, u \in Threads : buf[t] # Null /\ buf[t] = buf[u] => t = u
    /\ \A b \in Bufs : avbuf[b].data # Null /\ avbuf[b].refcount = 0
          => \E t \in Threads : buf[t] = b

FreeingLabels == {"free", "release", "drop_pool", "free_struct"}
RefLabels == {"copy", "recopy", "replace", "write"}

\* What the locals of a thread are, by where it is.
CallState(t) ==
    /\ pc[t] \in FreeingLabels => buf[t] # Null
    /\ pc[t] \notin FreeingLabels \union {"free_pool"} => buf[t] = Null
    /\ pc[t] # "free" /\ buf[t] # Null => avbuf[buf[t]].entry # Null
    /\ pc[t] = "replace" <=> newbuf[t] # Null
    /\ pc[t] \in RefLabels => my_ref[t] \in RefsOf(t)
    /\ pc[t] = "write" => avbuf[ref[my_ref[t]].buffer].refcount = 1
    /\ pc[t] = "get" => \E r \in RefsOf(t) :
                           /\ avbuf[ref[r].buffer].refcount = 1
                           /\ avbuf[ref[r].buffer].entry # Null

\* Threads in pool_get that have not counted their buffer, and the buffers
\* that the pool counts once they have.
Getting == {t \in Threads : pc[t] = "get"}
Counted == {b \in Bufs :
              /\ avbuf[b].entry # Null
              /\ \A t \in Threads :
                    buf[t] = b => pc[t] \notin {"free_pool", "free_struct"}}
One(p) == IF p THEN 1 ELSE 0

PoolCount == pool_refcount + Cardinality(Getting) = One(pool_ref) + Cardinality(Counted)

\* The pool lives while it is referenced or being freed.
PoolLife ==
    /\ pool_ref \/ Counted # {} => pool_life = "live"
    /\ Getting # {} => pool_ref
    /\ pool_life = "none" => pool_list = <<>>
    /\ \A t \in Threads : pc[t] = "free_pool" =>
          ~pool_ref /\ Counted = {} /\ pool_life = "live"
    /\ \A t, u \in Threads : pc[t] = "free_pool" /\ pc[u] = "free_pool" => t = u

RefInv == /\ Types /\ Refcounts /\ FreedOnce
          /\ \A t \in Threads : CallState(t)

\* True whatever the pool's alloc callback returns.
CountInv == RefInv /\ PoolCount /\ PoolLife

\* An entry's buffer holds the entry's data, which realloc does not touch.
EntriesFixed ==
    \A b \in Bufs : avbuf[b].entry # Null =>
       avbuf[b].entry = avbuf[b].data /\ ~avbuf[b].reallocatable

Holds(b) == /\ avbuf[b].data # Null
            /\ \A t \in Threads : buf[t] = b => pc[t] \in {"free", "release"}

\* OneOwner, without counting.
Ownership ==
    /\ \A b, c \in Bufs :
          Holds(b) /\ Holds(c) /\ avbuf[b].data = avbuf[c].data => b = c
    /\ \A j, k \in DOMAIN pool_list : pool_list[j] = pool_list[k] => j = k
    /\ \A b \in Bufs, k \in DOMAIN pool_list : Holds(b) => avbuf[b].data # pool_list[k]
    /\ \A b \in Bufs : Holds(b) => avbuf[b].data \in mem
    /\ \A k \in DOMAIN pool_list : pool_list[k] \in mem
    /\ \A d \in mem : \/ \E b \in Bufs : Holds(b) /\ avbuf[b].data = d
                      \/ \E k \in DOMAIN pool_list : pool_list[k] = d

\* Every reference sees its buffer's data.
RefsAgree ==
    \A r \in Refs : ref[r] # NoRef => ref[r].data = avbuf[ref[r].buffer].data

DataInv == EntriesFixed /\ Ownership /\ RefsAgree

IInv == CountInv /\ DataInv
-----------------------------------------------------------------------------
\* The assumption on the constants, as the proofs use it.
LEMMA Constants ==
  /\ IsFiniteSet(Refs) /\ IsFiniteSet(Bufs) /\ IsFiniteSet(Threads)
  /\ Null \notin Refs /\ Null \notin Bufs /\ Null \notin Data /\ Null \notin Threads
  BY BufferPoolAssumption

\* A reference that a thread has, or that refers to a buffer, is no free one.
LEMMA HasRef ==
  ASSUME Types, NEW r \in Refs, ref[r].owner # Null \/ ref[r].buffer # Null
  PROVE  /\ ref[r] # NoRef /\ ref[r].owner \in Threads
         /\ ref[r].buffer \in Bufs /\ ref[r].data \in Data /\ ref[r].moved \in BOOLEAN
  BY Constants DEF Types, NoRef, AVBufferRefs

\* What a thread's reference refers to.
LEMMA OwnRef ==
  ASSUME Types, NEW t \in Threads, NEW r \in RefsOf(t)
  PROVE  /\ r \in Refs /\ ref[r] # NoRef /\ ref[r].owner = t
         /\ ref[r].buffer \in Bufs /\ ref[r].data \in Data /\ ref[r].moved \in BOOLEAN
  BY HasRef, Constants DEF RefsOf

\* An AVBuffer is allocated when it has data.
LEMMA BufFields ==
  ASSUME Types, NEW b \in Bufs
  PROVE  /\ avbuf[b].refcount \in Int
         /\ avbuf[b].data \in Data \union {Null} /\ avbuf[b].entry \in Data \union {Null}
         /\ avbuf[b].readonly \in BOOLEAN /\ avbuf[b].reallocatable \in BOOLEAN
         /\ avbuf[b].data = Null <=> avbuf[b] = NoBuf
         /\ avbuf[b].data = Null => avbuf[b].refcount = 0 /\ avbuf[b].entry = Null
  BY DEF Types, NoBuf, BufferShapes

\* The sets that are counted are finite.
LEMMA FiniteSets ==
  /\ \A b \in Bufs : IsFiniteSet(RefsTo(b)) /\ IsFiniteSet(CopiesOf(b))
  /\ IsFiniteSet(Getting) /\ IsFiniteSet(Counted)
<1>1. \A b \in Bufs : RefsTo(b) \in SUBSET Refs /\ CopiesOf(b) \in SUBSET Threads
  BY DEF RefsTo, CopiesOf
<1>2. Getting \in SUBSET Threads /\ Counted \in SUBSET Bufs
  BY DEF Getting, Counted
<1> QED BY <1>1, <1>2, Constants, FS_Subset

\* The counts that Refcounts and PoolCount compare are numbers.
LEMMA Counting ==
  /\ \A b \in Bufs : /\ Cardinality(RefsTo(b)) \in Nat /\ Cardinality(CopiesOf(b)) \in Nat
                     /\ Cardinality(RefsTo(b)) <= Cardinality(Refs)
                     /\ Cardinality(CopiesOf(b)) <= Cardinality(Threads)
  /\ Cardinality(Getting) \in Nat /\ Cardinality(Counted) \in Nat
  /\ Cardinality(Counted) <= Cardinality(Bufs)
<1>1. \A b \in Bufs : RefsTo(b) \in SUBSET Refs /\ CopiesOf(b) \in SUBSET Threads
  BY DEF RefsTo, CopiesOf
<1>2. Counted \in SUBSET Bufs
  BY DEF Counted
<1> QED BY <1>1, <1>2, FiniteSets, FS_CardinalityType, FS_Subset, Constants

\* Nothing refers to a buffer whose count is zero.
LEMMA NoneRefers ==
  ASSUME Types, Refcounts, NEW b \in Bufs, avbuf[b].refcount = 0
  PROVE  RefsTo(b) = {} /\ CopiesOf(b) = {}
<1>1. Cardinality(RefsTo(b)) = 0 /\ Cardinality(CopiesOf(b)) = 0
  BY Counting DEF Refcounts
<1> QED BY <1>1, FiniteSets, FS_EmptySet

\* A buffer that is referred to has a count and data.
LEMMA Referred ==
  ASSUME Types, Refcounts, NEW r \in Refs, NEW b \in Bufs, ref[r].buffer = b
  PROVE  avbuf[b].refcount >= 1 /\ avbuf[b].data \in Data /\ r \in RefsTo(b)
<1>1. r \in RefsTo(b)
  BY DEF RefsTo
<1>2. avbuf[b].refcount # 0
  BY <1>1, NoneRefers
<1>3. avbuf[b].refcount \in Nat
  BY Counting DEF Refcounts
<1> QED BY <1>1, <1>2, <1>3, BufFields

\* The only reference to a buffer with count one.
LEMMA SoleRef ==
  ASSUME Types, Refcounts, NEW r \in Refs, NEW b \in Bufs, ref[r].buffer = b,
         avbuf[b].refcount = 1
  PROVE  RefsTo(b) = {r} /\ CopiesOf(b) = {}
<1>1. r \in RefsTo(b)
  BY DEF RefsTo
<1>2. Cardinality(RefsTo(b)) # 0
  BY <1>1, FiniteSets, FS_EmptySet
<1>3. Cardinality(RefsTo(b)) = 1 /\ Cardinality(CopiesOf(b)) = 0
  BY <1>2, Counting DEF Refcounts
<1>4. CopiesOf(b) = {}
  BY <1>3, FiniteSets, FS_EmptySet
<1>5. PICK x : RefsTo(b) = {x}
  BY <1>3, FiniteSets, FS_Singleton
<1> QED BY <1>1, <1>4, <1>5

\* Goto moves one thread.
LEMMA GotoMoves ==
  ASSUME Types, NEW t \in Threads, NEW l \in Labels, Goto(t, l)
  PROVE  /\ pc'[t] = l /\ \A u \in Threads \ {t} : pc'[u] = pc[u]
         /\ pc' \in [Threads -> Labels]
  BY DEF Types, Goto

\* What a thread's CallState depends on.
LEMMA OtherKeeps ==
  ASSUME RefInv, NEW u \in Threads,
         pc'[u] = pc[u], buf'[u] = buf[u], newbuf'[u] = newbuf[u], my_ref'[u] = my_ref[u],
         buf[u] # Null => avbuf'[buf[u]].entry = avbuf[buf[u]].entry,
         \A r \in RefsOf(u) : pc[u] # "idle" =>
            /\ ref'[r].owner = u /\ ref'[r].buffer = ref[r].buffer
            /\ avbuf'[ref[r].buffer].entry = avbuf[ref[r].buffer].entry
            /\ avbuf[ref[r].buffer].refcount = 1 => avbuf'[ref[r].buffer].refcount = 1
  PROVE  CallState(u)'
<1>1. CallState(u)
  BY DEF RefInv
<1>2. pc[u] \in RefLabels => my_ref'[u] \in RefsOf(u)' /\ ref'[my_ref[u]].buffer = ref[my_ref[u]].buffer
  BY <1>1 DEF CallState, RefsOf, RefLabels
<1>3. pc[u] = "write" => avbuf'[ref'[my_ref'[u]].buffer].refcount = 1
  BY <1>1, <1>2 DEF CallState, RefLabels
<1>4. ASSUME pc[u] = "get"
      PROVE  \E r \in RefsOf(u)' : /\ avbuf'[ref'[r].buffer].refcount = 1
                                   /\ avbuf'[ref'[r].buffer].entry # Null
  <2>1. PICK r \in RefsOf(u) : /\ avbuf[ref[r].buffer].refcount = 1
                               /\ avbuf[ref[r].buffer].entry # Null
    BY <1>1, <1>4 DEF CallState
  <2>2. r \in RefsOf(u)'
    BY <1>4, <2>1 DEF RefsOf
  <2> QED BY <1>4, <2>1, <2>2
<1>5. pc'[u] # "free" /\ buf'[u] # Null => avbuf'[buf'[u]].entry # Null
  BY <1>1 DEF CallState
<1>6. /\ pc'[u] \in FreeingLabels => buf'[u] # Null
      /\ pc'[u] \notin FreeingLabels \union {"free_pool"} => buf'[u] = Null
      /\ pc'[u] = "replace" <=> newbuf'[u] # Null
  BY <1>1 DEF CallState
<1> QED BY <1>2, <1>3, <1>4, <1>5, <1>6 DEF CallState
-----------------------------------------------------------------------------
(* The references and the buffers they count.                              *)

\* No buffer, no reference.
LEMMA InitRefInv == Init => RefInv
<1> SUFFICES ASSUME Init  PROVE RefInv
  OBVIOUS
<1>1. Types
  <2>1. NoBuf \in BufferShapes
    BY DEF NoBuf, BufferShapes
  <2>2. pc \in [Threads -> Labels]
    BY DEF Init, Labels
  <2>3. pool_list \in Seq(Data) /\ pool_refcount \in Int /\ pool_life = "none"
    BY DEF Init
  <2> QED BY <2>1, <2>2, <2>3 DEF Init, Types
<1>2. \A b \in Bufs : RefsTo(b) = {} /\ CopiesOf(b) = {} /\ avbuf[b].refcount = 0
                      /\ avbuf[b].data = Null
  BY Constants DEF Init, RefsTo, CopiesOf, NoRef, NoBuf
<1>3. Refcounts
  BY <1>2, FS_EmptySet DEF Refcounts
<1>4. FreedOnce
  BY <1>2 DEF Init, FreedOnce
<1>5. \A t \in Threads : CallState(t)
  BY DEF Init, CallState, FreeingLabels, RefLabels
<1> QED BY <1>1, <1>3, <1>4, <1>5 DEF RefInv

\* Steps that leave buffers and references alone.
LEMMA QuietKeeps ==
  ASSUME RefInv, UNCHANGED <<avbuf, ref, newbuf, buf>>, Types', NEW t \in Threads,
         \A u \in Threads \ {t} : pc'[u] = pc[u] /\ my_ref'[u] = my_ref[u],
         CallState(t)'
  PROVE  RefInv'
<1>1. Refcounts'
  BY DEF RefInv, Refcounts, RefsTo, CopiesOf
<1>2. FreedOnce'
  BY DEF RefInv, FreedOnce
<1>3. ASSUME NEW u \in Threads, u # t  PROVE CallState(u)'
  <2>1. \A r \in RefsOf(u) : ref'[r].owner = u
    BY DEF RefsOf
  <2> QED BY <1>3, <2>1, OtherKeeps
<1> QED BY <1>1, <1>2, <1>3 DEF RefInv

\* A thread makes a buffer and the first reference to it.
LEMMA BirthKeeps ==
  ASSUME RefInv, NEW t \in Threads, pc[t] = "idle", NEW r \in FreeRefs, NEW b \in FreeBufs,
         NEW d \in Data, NEW e \in Data \union {Null}, NEW ro \in BOOLEAN, NEW re \in BOOLEAN,
         avbuf' = [avbuf EXCEPT ![b] = NewBuf(d, e, ro, re)],
         ref' = [ref EXCEPT ![r] = NewRef(t, b, d)],
         mem' \subseteq Data, pool_list' \in Seq(Data),
         UNCHANGED <<pool_life, pool_ref, pool_refcount, locals>>,
         pc' = pc \/ (Goto(t, "get") /\ e # Null)
  PROVE  RefInv'
<1>1. /\ Types /\ Refcounts /\ FreedOnce /\ CallState(t)
      /\ b \in Bufs /\ r \in Refs /\ avbuf[b] = NoBuf /\ ref[r] = NoRef
      /\ UNCHANGED <<buf, newbuf, my_ref>>
  BY DEF RefInv, FreeBufs, FreeRefs, locals
<1>2. /\ avbuf'[b] = NewBuf(d, e, ro, re) /\ ref'[r] = NewRef(t, b, d)
      /\ \A c \in Bufs : c # b => avbuf'[c] = avbuf[c]
      /\ \A q \in Refs : q # r => ref'[q] = ref[q]
  BY <1>1 DEF Types
<1>3. /\ avbuf'[b].refcount = 1 /\ avbuf'[b].data = d /\ avbuf'[b].entry = e
      /\ ref'[r].owner = t /\ ref'[r].buffer = b
      /\ ref[r].owner = Null /\ ref[r].buffer = Null
      /\ avbuf[b].refcount = 0 /\ avbuf[b].data = Null /\ d # Null
  BY <1>1, <1>2, Constants DEF NewBuf, NewRef, NoRef, NoBuf
<1>4. /\ (pc' = pc /\ pc'[t] = "idle") \/ (pc'[t] = "get" /\ e # Null)
      /\ \A u \in Threads \ {t} : pc'[u] = pc[u]
      /\ pc' \in [Threads -> Labels]
  BY <1>1, GotoMoves DEF Types, Labels
<1>5. Types'
  <2>1. NewBuf(d, e, ro, re) \in BufferShapes
    BY DEF NewBuf, BufferShapes
  <2>2. NewRef(t, b, d) \in AVBufferRefs
    BY <1>1 DEF NewRef, AVBufferRefs
  <2>3. \A c \in Bufs : avbuf'[c] = NoBuf \/ avbuf'[c].data # Null
    BY <1>1, <1>2, <1>3 DEF Types
  <2> QED BY <1>1, <1>4, <2>1, <2>2, <2>3 DEF Types
<1>6. RefsTo(b) = {} /\ CopiesOf(b) = {}
  BY <1>1, <1>3, NoneRefers
<1>7. Refcounts'
  <2>1. RefsTo(b)' = {r} /\ CopiesOf(b)' = {}
    BY <1>1, <1>2, <1>3, <1>6, Constants DEF RefsTo, CopiesOf
  <2>2. Cardinality(RefsTo(b)') = 1 /\ Cardinality(CopiesOf(b)') = 0
    BY <2>1, FS_EmptySet, FS_Singleton
  <2>3. ASSUME NEW c \in Bufs, c # b
        PROVE  RefsTo(c)' = RefsTo(c) /\ CopiesOf(c)' = CopiesOf(c)
    BY <1>1, <1>2, <1>3, <2>3, Constants DEF RefsTo, CopiesOf
  <2> QED BY <1>1, <1>2, <1>3, <2>2, <2>3 DEF Refcounts
<1>8. FreedOnce'
  <2>1. \A u \in Threads : buf[u] # b
    BY <1>1, <1>3, Constants DEF FreedOnce
  <2>2. \A u \in Threads : buf[u] # Null => buf[u] \in Bufs
    BY <1>1 DEF Types
  <2>3. \A u \in Threads : buf'[u] # Null =>
          avbuf'[buf'[u]].data # Null /\ avbuf'[buf'[u]].refcount = 0
    BY <1>1, <1>2, <2>1, <2>2 DEF FreedOnce
  <2>4. \A c \in Bufs : avbuf'[c].data # Null /\ avbuf'[c].refcount = 0
          => \E u \in Threads : buf'[u] = c
    BY <1>1, <1>2, <1>3 DEF FreedOnce
  <2>5. \A u, v \in Threads : buf'[u] # Null /\ buf'[u] = buf'[v] => u = v
    BY <1>1 DEF FreedOnce
  <2> QED BY <2>3, <2>4, <2>5 DEF FreedOnce
<1>9. CallState(t)'
  <2>1. buf'[t] = Null /\ newbuf'[t] = Null
    BY <1>1 DEF CallState, FreeingLabels
  <2>2. pc'[t] \in {"idle", "get"} /\ (pc'[t] = "get" => e # Null)
    BY <1>4
  <2>3. r \in RefsOf(t)'
    BY <1>1, <1>3 DEF RefsOf
  <2> QED BY <1>3, <2>1, <2>2, <2>3 DEF CallState, FreeingLabels, RefLabels
<1>10. ASSUME NEW u \in Threads, u # t  PROVE CallState(u)'
  <2>1. buf[u] # Null => avbuf'[buf[u]].entry = avbuf[buf[u]].entry
    BY <1>1, <1>2, <1>3 DEF FreedOnce, Types
  <2>2. ASSUME NEW q \in RefsOf(u)
        PROVE  /\ ref'[q].owner = u /\ ref'[q].buffer = ref[q].buffer
               /\ avbuf'[ref[q].buffer] = avbuf[ref[q].buffer]
    <3>1. q \in Refs /\ ref[q].buffer \in Bufs /\ ref[q].owner = u /\ ref[q] # NoRef
      BY <1>1, OwnRef
    <3>2. q # r /\ ref[q].buffer # b
      BY <1>1, <1>6, <3>1 DEF RefsTo
    <3> QED BY <1>2, <3>1, <3>2
  <2> QED BY <1>1, <1>4, <1>10, <2>1, <2>2, OtherKeeps
<1> QED BY <1>5, <1>7, <1>8, <1>9, <1>10 DEF RefInv

\* A new reference to a buffer that a thread already refers to.
LEMMA RefBufferKeeps ==
  ASSUME RefInv, NEW t \in Threads, NEW r \in Refs, RefBuffer(t, r)
  PROVE  RefInv'
<1>1. /\ Types /\ Refcounts /\ FreedOnce /\ CallState(t)
      /\ pc[t] = "idle" /\ r \in RefsOf(t)
      /\ avbuf' = [avbuf EXCEPT ![ref[r].buffer].refcount = @ + 1]
      /\ UNCHANGED <<mem, poolVars, pc, locals>>
  BY DEF RefInv, RefBuffer
<1>2. ref[r].buffer \in Bufs /\ ref[r] # NoRef /\ ref[r] \in AVBufferRefs /\ ref[r].owner = t
  BY <1>1, OwnRef DEF Types
<1>3. PICK new \in FreeRefs : ref' = [ref EXCEPT ![new] = ref[r]]
  BY DEF RefBuffer
<1>4. new \in Refs /\ ref[new] = NoRef /\ ref[new].owner = Null /\ ref[new].buffer = Null
  BY <1>3 DEF FreeRefs, NoRef
<1>0. PICK b \in Bufs : b = ref[r].buffer
  BY <1>2
<1>5. /\ ref'[new] = ref[r] /\ \A q \in Refs : q # new => ref'[q] = ref[q]
      /\ ref'[new].buffer = b /\ ref'[new].owner = t
  BY <1>0, <1>1, <1>2, <1>3, <1>4 DEF Types
<1>6. /\ avbuf'[b].refcount = avbuf[b].refcount + 1
      /\ \A c \in Bufs : /\ c # b => avbuf'[c] = avbuf[c]
                         /\ avbuf'[c].data = avbuf[c].data
                         /\ avbuf'[c].entry = avbuf[c].entry
  BY <1>0, <1>1, <1>2 DEF Types, BufferShapes
<1>7. avbuf[b].refcount >= 1 /\ avbuf[b].data # Null
  BY <1>0, <1>1, <1>2, Referred, Constants
<1>8. Types'
  <2>1. \A c \in Bufs : avbuf'[c] = NoBuf \/ avbuf'[c].data # Null
    BY <1>1, <1>2, <1>6, <1>7 DEF Types
  <2>2. avbuf' \in [Bufs -> BufferShapes]
    <3> DEFINE new_b == [avbuf[b] EXCEPT !.refcount = avbuf[b].refcount + 1]
    <3>1. avbuf[b] \in BufferShapes
      BY <1>0, <1>1 DEF Types
    <3>2. new_b \in BufferShapes
      BY <3>1 DEF BufferShapes
    <3>3. avbuf' = [avbuf EXCEPT ![b] = new_b]
      BY <1>0, <1>1
    <3> HIDE DEF new_b
    <3> QED BY <1>0, <1>1, <3>2, <3>3 DEF Types
  <2>3. ref' \in [Refs -> AVBufferRefs \union {NoRef}]
    BY <1>1, <1>2, <1>3 DEF Types
  <2> QED BY <1>1, <2>1, <2>2, <2>3 DEF Types, poolVars, locals
<1>9. Refcounts'
  <2>1. ASSUME NEW c \in Bufs  PROVE CopiesOf(c)' = CopiesOf(c)
    BY <1>1 DEF CopiesOf, locals
  <2>2. RefsTo(b)' = RefsTo(b) \union {new} /\ new \notin RefsTo(b)
    BY <1>0, <1>2, <1>4, <1>5, Constants DEF RefsTo
  <2>3. ASSUME NEW c \in Bufs, c # b  PROVE RefsTo(c)' = RefsTo(c)
    BY <1>0, <1>2, <1>4, <1>5, <2>3, Constants DEF RefsTo
  <2>4. Cardinality(RefsTo(b)') = Cardinality(RefsTo(b)) + 1
    BY <1>2, <2>2, FiniteSets, FS_AddElement
  <2>5. avbuf'[b].refcount = Cardinality(RefsTo(b)') + Cardinality(CopiesOf(b)')
    BY <1>1, <1>2, <1>6, <2>1, <2>4, Counting DEF Refcounts
  <2>6. ASSUME NEW c \in Bufs, c # b
        PROVE  avbuf'[c].refcount = Cardinality(RefsTo(c)') + Cardinality(CopiesOf(c)')
    BY <1>1, <1>6, <2>1, <2>3, <2>6 DEF Refcounts
  <2> QED BY <2>5, <2>6 DEF Refcounts
<1>10. FreedOnce'
  <2>1. \A u \in Threads : buf[u] # Null => buf[u] \in Bufs /\ buf[u] # b
    BY <1>1, <1>7 DEF FreedOnce, Types
  <2>2. buf' = buf
    BY <1>1 DEF locals
  <2>3. ASSUME NEW u \in Threads, buf'[u] # Null
        PROVE  avbuf'[buf'[u]].data # Null /\ avbuf'[buf'[u]].refcount = 0
    <3>1. buf'[u] = buf[u] /\ buf[u] \in Bufs /\ buf[u] # b
      BY <2>1, <2>2, <2>3
    <3>2. avbuf'[buf[u]] = avbuf[buf[u]]
      BY <1>6, <3>1
    <3>3. avbuf[buf[u]].data # Null /\ avbuf[buf[u]].refcount = 0
      BY <1>1, <2>3, <3>1 DEF FreedOnce
    <3> QED BY <3>1, <3>2, <3>3
  <2>4. \A c \in Bufs : avbuf'[c].data # Null /\ avbuf'[c].refcount = 0
          => \E u \in Threads : buf'[u] = c
    <3>1. avbuf'[b].refcount # 0
      BY <1>0, <1>1, <1>6, <1>7, BufFields
    <3> QED BY <1>1, <1>6, <2>2, <3>1 DEF FreedOnce
  <2>5. \A u, v \in Threads : buf'[u] # Null /\ buf'[u] = buf'[v] => u = v
    BY <1>1, <2>2 DEF FreedOnce
  <2> QED BY <2>3, <2>4, <2>5 DEF FreedOnce
<1>11. ASSUME NEW u \in Threads, u # t \/ pc[u] = "idle"  PROVE CallState(u)'
  <2>1. ASSUME NEW q \in RefsOf(u), pc[u] # "idle"
        PROVE  /\ ref'[q].owner = u /\ ref'[q].buffer = ref[q].buffer
               /\ avbuf'[ref[q].buffer].entry = avbuf[ref[q].buffer].entry
               /\ avbuf[ref[q].buffer].refcount = 1 => avbuf'[ref[q].buffer].refcount = 1
    <3>1. q \in Refs /\ ref[q].buffer \in Bufs /\ ref[q].owner = u /\ ref[q] # NoRef
      BY <1>1, OwnRef
    <3>2. ref'[q] = ref[q]
      BY <1>4, <1>5, <3>1
    <3>3. ref[q].buffer = b => avbuf[b].refcount # 1
      <4>1. q # r
        BY <1>2, <1>11, <2>1, <3>1
      <4> QED BY <1>0, <1>1, <1>2, <3>1, <4>1, SoleRef DEF RefsTo
    <3> QED BY <1>6, <3>1, <3>2, <3>3
  <2>2. buf[u] # Null => avbuf'[buf[u]].entry = avbuf[buf[u]].entry
    BY <1>1, <1>6 DEF Types
  <2> QED BY <1>1, <2>1, <2>2, OtherKeeps DEF locals
<1> QED BY <1>1, <1>8, <1>9, <1>10, <1>11 DEF RefInv

\* A reference moves inside its buffer, or to another thread.
LEMMA RefChanges ==
  ASSUME RefInv, NEW t \in Threads, NEW r \in Refs,
         MoveData(t, r) \/ \E u \in Threads : HandOver(t, u, r)
  PROVE  RefInv'
<1>1. /\ Types /\ Refcounts /\ FreedOnce /\ CallState(t)
      /\ pc[t] = "idle" /\ r \in RefsOf(t)
      /\ UNCHANGED <<mem, avbuf, poolVars, pc, locals>>
  BY DEF RefInv, MoveData, HandOver
<1>2. ref[r] \in AVBufferRefs /\ ref[r].owner = t /\ ref[r].owner # Null
  BY <1>1, OwnRef, Constants DEF Types
<1>3. /\ ref'[r] \in AVBufferRefs /\ ref'[r].buffer = ref[r].buffer
      /\ \A q \in Refs : q # r => ref'[q] = ref[q]
      /\ ref' \in [Refs -> AVBufferRefs \union {NoRef}]
  <2>1. CASE MoveData(t, r)
    BY <1>1, <1>2, <2>1 DEF MoveData, Types, AVBufferRefs
  <2>2. ASSUME NEW u \in Threads, HandOver(t, u, r)
        PROVE  /\ ref'[r] \in AVBufferRefs /\ ref'[r].buffer = ref[r].buffer
               /\ \A q \in Refs : q # r => ref'[q] = ref[q]
               /\ ref' \in [Refs -> AVBufferRefs \union {NoRef}]
    BY <1>1, <1>2, <2>2 DEF HandOver, Types, AVBufferRefs
  <2> QED BY <2>1, <2>2
<1>4. Types'
  BY <1>1, <1>3 DEF Types, poolVars, locals
<1>5. \A q \in Refs : ref'[q].buffer = ref[q].buffer
  BY <1>3
<1>6. Refcounts'
  <2>1. ASSUME NEW c \in Bufs
        PROVE  RefsTo(c)' = RefsTo(c) /\ CopiesOf(c)' = CopiesOf(c)
    BY <1>1, <1>5 DEF RefsTo, CopiesOf, locals
  <2> QED BY <1>1, <2>1 DEF Refcounts
<1>7. FreedOnce'
  BY <1>1 DEF FreedOnce, locals
<1>8. ASSUME NEW u \in Threads  PROVE CallState(u)'
  <2>1. ASSUME NEW q \in RefsOf(u), pc[u] # "idle"
        PROVE  ref'[q].owner = u /\ ref'[q].buffer = ref[q].buffer
    <3>1. q \in Refs /\ ref[q].owner = u /\ q # r
      BY <1>1, <1>2, <2>1, OwnRef
    <3> QED BY <1>3, <3>1
  <2> QED BY <1>1, <2>1, OtherKeeps DEF locals
<1> QED BY <1>4, <1>6, <1>7, <1>8 DEF RefInv

\* A thread that begins to copy its reference's buffer holds the copy.
LEMMA CopyBufferKeeps ==
  ASSUME RefInv, NEW t \in Threads, CopyBuffer(t)
  PROVE  RefInv'
<1>1. /\ Types /\ Refcounts /\ FreedOnce /\ CallState(t)
      /\ pc[t] \in {"copy", "recopy"} /\ Goto(t, "replace")
      /\ UNCHANGED <<ref, poolVars, buf, my_ref>>
  BY DEF RefInv, CopyBuffer
<1>2. PICK b \in FreeBufs, d \in FreeData :
         /\ mem' = mem \union {d}
         /\ avbuf' = [avbuf EXCEPT ![b] = NewBuf(d, Null, FALSE, pc[t] = "recopy")]
         /\ newbuf' = [newbuf EXCEPT ![t] = b]
  BY DEF CopyBuffer
<1> DEFINE re == pc[t] = "recopy"
<1>3. b \in Bufs /\ d \in Data /\ avbuf[b].data = Null /\ avbuf[b].refcount = 0
      /\ avbuf[b].entry = Null /\ b # Null
  BY <1>2, Constants DEF FreeBufs, FreeData, NoBuf
<1>4. re \in BOOLEAN
  OBVIOUS
<1> HIDE DEF re
<1>5. avbuf' = [avbuf EXCEPT ![b] = NewBuf(d, Null, FALSE, re)]
  BY <1>2 DEF re
<1>6. NewBuf(d, Null, FALSE, re) \in BufferShapes
  BY <1>3, <1>4 DEF NewBuf, BufferShapes
<1>7. /\ avbuf'[b].refcount = 1 /\ avbuf'[b].data = d /\ avbuf'[b].entry = Null /\ d # Null
      /\ \A c \in Bufs : c # b => avbuf'[c] = avbuf[c]
  BY <1>1, <1>3, <1>5, Constants DEF Types, NewBuf
<1>8. /\ newbuf'[t] = b /\ \A u \in Threads \ {t} : newbuf'[u] = newbuf[u]
      /\ newbuf[t] = Null
      /\ pc'[t] = "replace" /\ \A u \in Threads \ {t} : pc'[u] = pc[u]
      /\ pc' \in [Threads -> Labels]
  BY <1>1, <1>2, GotoMoves DEF Types, Labels, CallState
<1>9. Types'
  <2>1. \A c \in Bufs : avbuf'[c] = NoBuf \/ avbuf'[c].data # Null
    BY <1>1, <1>7 DEF Types
  <2>2. avbuf' \in [Bufs -> BufferShapes]
    BY <1>1, <1>5, <1>6 DEF Types
  <2>3. newbuf' \in [Threads -> Bufs \union {Null}] /\ mem' \subseteq Data
    BY <1>1, <1>2, <1>3 DEF Types
  <2> QED BY <1>1, <1>8, <2>1, <2>2, <2>3 DEF Types, poolVars
<1>10. RefsTo(b) = {} /\ CopiesOf(b) = {}
  BY <1>1, <1>3, NoneRefers
<1>11. Refcounts'
  <2>1. RefsTo(b)' = {} /\ CopiesOf(b)' = {t}
    BY <1>1, <1>8, <1>10 DEF RefsTo, CopiesOf
  <2>2. Cardinality(RefsTo(b)') = 0 /\ Cardinality(CopiesOf(b)') = 1
    BY <2>1, FS_EmptySet, FS_Singleton
  <2>3. ASSUME NEW c \in Bufs, c # b
        PROVE  RefsTo(c)' = RefsTo(c) /\ CopiesOf(c)' = CopiesOf(c)
    BY <1>1, <1>8, <2>3, Constants DEF RefsTo, CopiesOf
  <2> QED BY <1>1, <1>7, <2>2, <2>3 DEF Refcounts
<1>12. FreedOnce'
  <2>1. \A u \in Threads : buf[u] # b /\ (buf[u] # Null => buf[u] \in Bufs)
    BY <1>1, <1>3 DEF FreedOnce, Types
  <2>2. \A u \in Threads : buf'[u] # Null =>
          avbuf'[buf'[u]].data # Null /\ avbuf'[buf'[u]].refcount = 0
    BY <1>1, <1>7, <2>1 DEF FreedOnce
  <2>3. \A c \in Bufs : avbuf'[c].data # Null /\ avbuf'[c].refcount = 0
          => \E u \in Threads : buf'[u] = c
    BY <1>1, <1>7 DEF FreedOnce
  <2>4. \A u, v \in Threads : buf'[u] # Null /\ buf'[u] = buf'[v] => u = v
    BY <1>1 DEF FreedOnce
  <2> QED BY <2>2, <2>3, <2>4 DEF FreedOnce
<1>13. CallState(t)'
  <2>1. buf'[t] = Null /\ newbuf'[t] # Null /\ my_ref'[t] \in RefsOf(t)'
    BY <1>1, <1>3, <1>8 DEF CallState, FreeingLabels, RefLabels, RefsOf
  <2> QED BY <1>8, <2>1 DEF CallState, FreeingLabels, RefLabels
<1>14. ASSUME NEW u \in Threads, u # t  PROVE CallState(u)'
  <2>1. buf[u] # Null => avbuf'[buf[u]].entry = avbuf[buf[u]].entry
    BY <1>1, <1>3, <1>7 DEF FreedOnce, Types
  <2>2. ASSUME NEW q \in RefsOf(u)
        PROVE  /\ ref'[q].owner = u /\ ref'[q].buffer = ref[q].buffer
               /\ avbuf'[ref[q].buffer] = avbuf[ref[q].buffer]
    <3>1. q \in Refs /\ ref[q].buffer \in Bufs /\ ref[q].owner = u
      BY <1>1, OwnRef
    <3>2. ref[q].buffer # b
      BY <1>10, <3>1 DEF RefsTo
    <3> QED BY <1>1, <1>7, <3>1, <3>2
  <2> QED BY <1>1, <1>8, <1>14, <2>1, <2>2, OtherKeeps
<1> QED BY <1>9, <1>11, <1>12, <1>13, <1>14 DEF RefInv

\* One reference less to a buffer: the thread that takes its count to zero
\* frees it.
LEMMA DropKeeps ==
  ASSUME RefInv, NEW t \in Threads, NEW old \in Bufs, buf[t] = Null, DropBuffer(t, old),
         avbuf[old].refcount >= 1,
         ref' \in [Refs -> AVBufferRefs \union {NoRef}],
         newbuf' \in [Threads -> Bufs \union {Null}],
         my_ref' \in [Threads -> Refs \union {Null}],
         UNCHANGED <<mem, poolVars>>,
         newbuf'[t] = Null,
         \A u \in Threads \ {t} : newbuf'[u] = newbuf[u] /\ my_ref'[u] = my_ref[u],
         \A b \in Bufs :
            Cardinality(RefsTo(b)') + Cardinality(CopiesOf(b)')
              = (Cardinality(RefsTo(b)) + Cardinality(CopiesOf(b)))
                  - (IF b = old THEN 1 ELSE 0),
         \A q \in Refs : ref[q].owner # t => ref'[q] = ref[q],
         \A q \in Refs : ref[q].owner # t /\ avbuf[old].refcount = 1 => ref[q].buffer # old
  PROVE  RefInv'
<1>1. Types /\ Refcounts /\ FreedOnce /\ CallState(t)
  BY DEF RefInv
<1>2. /\ avbuf'[old].refcount = avbuf[old].refcount - 1
      /\ avbuf'[old].entry = avbuf[old].entry /\ avbuf'[old].data = avbuf[old].data
      /\ \A c \in Bufs : c # old => avbuf'[c] = avbuf[c]
  BY <1>1 DEF Types, BufferShapes, DropBuffer
<1>3. avbuf[old].data # Null /\ avbuf[old].refcount \in Int
  BY <1>1, BufFields
<1>4. avbuf' \in [Bufs -> BufferShapes]
  <2> DEFINE new_b == [avbuf[old] EXCEPT !.refcount = avbuf[old].refcount - 1]
  <2>1. avbuf[old] \in BufferShapes
    BY <1>1 DEF Types
  <2>2. new_b \in BufferShapes
    BY <2>1 DEF BufferShapes
  <2>3. avbuf' = [avbuf EXCEPT ![old] = new_b]
    BY DEF DropBuffer
  <2> HIDE DEF new_b
  <2> QED BY <1>1, <2>2, <2>3 DEF Types
<1>5. /\ \A u \in Threads \ {t} : pc'[u] = pc[u] /\ buf'[u] = buf[u]
      /\ pc' \in [Threads -> Labels] /\ buf' \in [Threads -> Bufs \union {Null}]
      /\ \/ avbuf[old].refcount = 1 /\ pc'[t] = "free" /\ buf'[t] = old
         \/ avbuf[old].refcount # 1 /\ pc'[t] = "idle" /\ buf'[t] = Null
  <2>1. CASE avbuf[old].refcount = 1
    BY <1>1, <2>1, GotoMoves DEF DropBuffer, Types, Labels
  <2>2. CASE avbuf[old].refcount # 1
    BY <1>1, <2>2, GotoMoves DEF DropBuffer, Types, Labels
  <2> QED BY <2>1, <2>2
<1>6. Types'
  <2>1. \A c \in Bufs : avbuf'[c] = NoBuf \/ avbuf'[c].data # Null
    BY <1>1, <1>2, <1>3 DEF Types
  <2> QED BY <1>1, <1>4, <1>5, <2>1 DEF Types, poolVars
<1>7. Refcounts'
  <2>1. ASSUME NEW c \in Bufs
        PROVE  avbuf'[c].refcount = avbuf[c].refcount - (IF c = old THEN 1 ELSE 0)
    BY <1>1, <1>2, BufFields
  <2> QED BY <1>1, <2>1 DEF Refcounts
<1>8. \A u \in Threads : buf[u] # old /\ (buf[u] # Null => buf[u] \in Bufs)
  BY <1>1, Constants DEF FreedOnce, Types
<1>9. FreedOnce'
  <2>1. ASSUME NEW u \in Threads, buf'[u] # Null
        PROVE  avbuf'[buf'[u]].data # Null /\ avbuf'[buf'[u]].refcount = 0
    <3>1. CASE u = t
      BY <1>2, <1>3, <1>5, <2>1, <3>1
    <3>2. CASE u # t
      <4>1. buf'[u] = buf[u] /\ avbuf'[buf[u]] = avbuf[buf[u]]
        BY <1>2, <1>5, <1>8, <2>1, <3>2
      <4>2. avbuf[buf[u]].data # Null /\ avbuf[buf[u]].refcount = 0
        BY <1>1, <2>1, <4>1 DEF FreedOnce
      <4> QED BY <4>1, <4>2
    <3> QED BY <3>1, <3>2
  <2>2. \A u, v \in Threads : buf'[u] # Null /\ buf'[u] = buf'[v] => u = v
    BY <1>1, <1>5, <1>8 DEF FreedOnce
  <2>3. ASSUME NEW c \in Bufs, avbuf'[c].data # Null, avbuf'[c].refcount = 0
        PROVE  \E u \in Threads : buf'[u] = c
    <3>1. CASE c = old
      BY <1>2, <1>3, <1>5, <2>3, <3>1
    <3>2. CASE c # old
      <4>1. PICK u \in Threads : buf[u] = c
        BY <1>1, <1>2, <2>3, <3>2 DEF FreedOnce
      <4>2. u # t
        BY <4>1, Constants
      <4> QED BY <1>5, <4>1, <4>2
    <3> QED BY <3>1, <3>2
  <2> QED BY <2>1, <2>2, <2>3 DEF FreedOnce
<1>10. CallState(t)'
  BY <1>5, Constants DEF CallState, FreeingLabels, RefLabels
<1>11. ASSUME NEW u \in Threads, u # t  PROVE CallState(u)'
  <2>1. buf[u] # Null => avbuf'[buf[u]].entry = avbuf[buf[u]].entry
    BY <1>2, <1>8
  <2>2. ASSUME NEW q \in RefsOf(u)
        PROVE  /\ ref'[q].owner = u /\ ref'[q].buffer = ref[q].buffer
               /\ avbuf'[ref[q].buffer].entry = avbuf[ref[q].buffer].entry
               /\ avbuf[ref[q].buffer].refcount = 1 => avbuf'[ref[q].buffer].refcount = 1
    <3>1. q \in Refs /\ ref[q].buffer \in Bufs /\ ref[q].owner = u
      BY <1>1, OwnRef
    <3>2. ref'[q] = ref[q]
      BY <1>11, <3>1
    <3>3. ref[q].buffer = old => avbuf[old].refcount # 1
      BY <1>11, <3>1
    <3> QED BY <1>2, <3>1, <3>2, <3>3
  <2> QED BY <1>5, <1>11, <2>1, <2>2, OtherKeeps
<1> QED BY <1>6, <1>7, <1>9, <1>10, <1>11 DEF RefInv

\* av_buffer_unref drops its reference.
LEMMA UnrefKeeps ==
  ASSUME RefInv, NEW t \in Threads, NEW r \in Refs, Unref(t, r)
  PROVE  RefInv'
<1>1. /\ Types /\ Refcounts /\ FreedOnce /\ CallState(t)
      /\ pc[t] = "idle" /\ r \in RefsOf(t)
      /\ ref' = [ref EXCEPT ![r] = NoRef]
      /\ DropBuffer(t, ref[r].buffer)
      /\ UNCHANGED <<mem, poolVars, newbuf, my_ref>>
  BY DEF RefInv, Unref
<1>2. ref[r].buffer \in Bufs /\ ref[r].owner = t
  BY <1>1, OwnRef
<1>3. PICK old \in Bufs : old = ref[r].buffer
  BY <1>2
<1>4. ref'[r].buffer = Null /\ \A q \in Refs : q # r => ref'[q] = ref[q]
  BY <1>1 DEF Types, NoRef
<1>5. avbuf[old].refcount >= 1 /\ r \in RefsTo(old)
  BY <1>1, <1>3, Referred
<1>6. ASSUME NEW b \in Bufs
      PROVE  Cardinality(RefsTo(b)') + Cardinality(CopiesOf(b)')
              = (Cardinality(RefsTo(b)) + Cardinality(CopiesOf(b)))
                  - (IF b = old THEN 1 ELSE 0)
  <2>1. CopiesOf(b)' = CopiesOf(b)
    BY <1>1 DEF CopiesOf
  <2>2. CASE b = old
    <3>1. RefsTo(b)' = RefsTo(b) \ {r}
      BY <1>3, <1>4, <2>2, Constants DEF RefsTo
    <3>2. Cardinality(RefsTo(b)') = Cardinality(RefsTo(b)) - 1
      BY <1>5, <2>2, <3>1, FiniteSets, FS_RemoveElement
    <3> QED BY <2>1, <2>2, <3>2, Counting
  <2>3. CASE b # old
    <3>1. RefsTo(b)' = RefsTo(b)
      BY <1>3, <1>4, <2>3, Constants DEF RefsTo
    <3> QED BY <2>1, <2>3, <3>1, Counting
  <2> QED BY <2>2, <2>3
<1>7. \A q \in Refs : ref[q].owner # t => ref'[q] = ref[q]
  BY <1>2, <1>4
<1>8. ASSUME NEW q \in Refs, ref[q].owner # t, avbuf[old].refcount = 1
      PROVE  ref[q].buffer # old
  BY <1>1, <1>2, <1>3, <1>8, SoleRef DEF RefsTo
<1>9. buf[t] = Null /\ newbuf[t] = Null
  BY <1>1 DEF CallState, FreeingLabels
<1>10. ref' \in [Refs -> AVBufferRefs \union {NoRef}]
  BY <1>1 DEF Types
<1> QED BY <1>1, <1>3, <1>5, <1>6, <1>7, <1>8, <1>9, <1>10, DropKeeps DEF Types

\* make_writable or realloc replaces the buffer of its reference by the copy.
LEMMA ReplaceBufferKeeps ==
  ASSUME RefInv, NEW t \in Threads, ReplaceBuffer(t)
  PROVE  RefInv'
<1>1. /\ Types /\ Refcounts /\ FreedOnce /\ CallState(t)
      /\ pc[t] = "replace"
      /\ ref' = [ref EXCEPT ![my_ref[t]] = NewRef(t, newbuf[t], avbuf[newbuf[t]].data)]
      /\ DropBuffer(t, ref[my_ref[t]].buffer)
      /\ newbuf' = [newbuf EXCEPT ![t] = Null] /\ my_ref' = [my_ref EXCEPT ![t] = Null]
      /\ UNCHANGED <<mem, poolVars>>
  BY DEF RefInv, ReplaceBuffer
<1>2. my_ref[t] \in RefsOf(t) /\ newbuf[t] # Null /\ newbuf[t] \in Bufs
  BY <1>1 DEF CallState, RefLabels, Types
<1>3. PICK r \in RefsOf(t), new \in Bufs : r = my_ref[t] /\ new = newbuf[t]
  BY <1>2
<1>4. r \in Refs /\ ref[r].buffer \in Bufs /\ ref[r].owner = t
  BY <1>1, OwnRef
<1>5. PICK old \in Bufs : old = ref[r].buffer
  BY <1>4
<1>6. ref' = [ref EXCEPT ![r] = NewRef(t, new, avbuf[new].data)]
  BY <1>1, <1>3
<1>7. /\ newbuf'[t] = Null /\ \A u \in Threads \ {t} : newbuf'[u] = newbuf[u]
      /\ \A u \in Threads \ {t} : my_ref'[u] = my_ref[u]
      /\ newbuf' \in [Threads -> Bufs \union {Null}]
      /\ my_ref' \in [Threads -> Refs \union {Null}]
  BY <1>1 DEF Types
<1>8. t \in CopiesOf(new) /\ new # Null
  BY <1>3, Constants DEF CopiesOf
<1>9. avbuf[new].refcount # 0 /\ avbuf[new].data \in Data
  <2>1. avbuf[new].refcount # 0
    BY <1>1, <1>8, NoneRefers
  <2> QED BY <1>1, <2>1, BufFields
<1>10. /\ ref'[r].buffer = new /\ \A q \in Refs : q # r => ref'[q] = ref[q]
       /\ ref' \in [Refs -> AVBufferRefs \union {NoRef}]
  <2>1. NewRef(t, new, avbuf[new].data) \in AVBufferRefs
    BY <1>9 DEF NewRef, AVBufferRefs
  <2>2. NewRef(t, new, avbuf[new].data).buffer = new
    BY DEF NewRef
  <2>3. PICK x \in AVBufferRefs : x = NewRef(t, new, avbuf[new].data)
    BY <2>1
  <2>4. ref' = [ref EXCEPT ![r] = x] /\ x.buffer = new
    BY <1>6, <2>2, <2>3
  <2>5. ref' \in [Refs -> AVBufferRefs \union {NoRef}]
    BY <1>1, <1>4, <2>4 DEF Types
  <2>6. ref'[r] = x /\ \A q \in Refs : q # r => ref'[q] = ref[q]
    BY <1>1, <1>4, <2>4 DEF Types
  <2> QED BY <2>4, <2>5, <2>6
<1>11. avbuf[old].refcount >= 1 /\ r \in RefsTo(old)
  BY <1>1, <1>4, <1>5, Referred
<1>12. ASSUME NEW b \in Bufs
       PROVE  Cardinality(RefsTo(b)') + Cardinality(CopiesOf(b)')
              = (Cardinality(RefsTo(b)) + Cardinality(CopiesOf(b)))
                  - (IF b = old THEN 1 ELSE 0)
  <2>1. IF b = new THEN /\ CopiesOf(b)' = CopiesOf(b) \ {t}
                        /\ Cardinality(CopiesOf(b)') = Cardinality(CopiesOf(b)) - 1
                   ELSE CopiesOf(b)' = CopiesOf(b)
    <3>1. CASE b = new
      <4>1. CopiesOf(b)' = CopiesOf(b) \ {t}
        BY <1>7, <1>8, <3>1 DEF CopiesOf
      <4> QED BY <1>8, <3>1, <4>1, FiniteSets, FS_RemoveElement
    <3>2. CASE b # new
      BY <1>3, <1>7, <3>2, Constants DEF CopiesOf
    <3> QED BY <3>1, <3>2
  <2>2. IF b = new THEN RefsTo(b)' = RefsTo(b) \union {r} ELSE RefsTo(b)' = RefsTo(b) \ {r}
    BY <1>4, <1>10 DEF RefsTo
  <2>3. r \in RefsTo(b) <=> b = old
    BY <1>4, <1>5 DEF RefsTo
  <2>4. CASE b = new /\ b = old
    <3>1. RefsTo(b)' = RefsTo(b)
      BY <2>2, <2>3, <2>4
    <3> QED BY <2>1, <2>4, <3>1, Counting
  <2>5. CASE b = new /\ b # old
    <3>1. RefsTo(b)' = RefsTo(b) \union {r} /\ r \notin RefsTo(b)
      BY <2>2, <2>3, <2>5
    <3>2. Cardinality(RefsTo(b)') = Cardinality(RefsTo(b)) + 1
      BY <3>1, FiniteSets, FS_AddElement
    <3> QED BY <2>1, <2>5, <3>2, Counting
  <2>6. CASE b # new /\ b = old
    <3>1. RefsTo(b)' = RefsTo(b) \ {r} /\ r \in RefsTo(b)
      BY <2>2, <2>3, <2>6
    <3>2. Cardinality(RefsTo(b)') = Cardinality(RefsTo(b)) - 1
      BY <3>1, FiniteSets, FS_RemoveElement
    <3> QED BY <2>1, <2>6, <3>2, Counting
  <2>7. CASE b # new /\ b # old
    <3>1. RefsTo(b)' = RefsTo(b)
      BY <2>2, <2>3, <2>7
    <3> QED BY <2>1, <2>7, <3>1, Counting
  <2> QED BY <2>4, <2>5, <2>6, <2>7
<1>13. \A q \in Refs : ref[q].owner # t => ref'[q] = ref[q]
  BY <1>4, <1>10
<1>14. ASSUME NEW q \in Refs, ref[q].owner # t, avbuf[old].refcount = 1
       PROVE  ref[q].buffer # old
  BY <1>1, <1>4, <1>5, <1>14, SoleRef DEF RefsTo
<1>15. buf[t] = Null
  BY <1>1 DEF CallState, FreeingLabels
<1>16. DropBuffer(t, old)
  BY <1>1, <1>3, <1>5
<1> QED BY <1>1, <1>7, <1>10, <1>11, <1>12, <1>13, <1>14, <1>15, <1>16, DropKeeps

\* A freed AVBuffer structure is nobody's.
LEMMA DeathKeeps ==
  ASSUME RefInv, NEW t \in Threads, pc[t] \in {"free", "free_struct"},
         avbuf' = [avbuf EXCEPT ![buf[t]] = NoBuf], buf' = [buf EXCEPT ![t] = Null],
         Goto(t, "idle"), mem' \subseteq Data, UNCHANGED <<ref, poolVars, newbuf, my_ref>>
  PROVE  RefInv'
<1>1. Types /\ Refcounts /\ FreedOnce /\ CallState(t)
  BY DEF RefInv
<1>2. buf[t] # Null /\ buf[t] \in Bufs
  BY <1>1 DEF CallState, FreeingLabels, Types
<1>3. PICK b \in Bufs : b = buf[t]
  BY <1>2
<1>4. avbuf[b].refcount = 0 /\ avbuf[b].data # Null /\ RefsTo(b) = {} /\ CopiesOf(b) = {}
  BY <1>1, <1>2, <1>3, NoneRefers DEF FreedOnce
<1>5. /\ avbuf'[b] = NoBuf /\ \A c \in Bufs : c # b => avbuf'[c] = avbuf[c]
      /\ avbuf'[b].refcount = 0 /\ avbuf'[b].data = Null
  BY <1>1, <1>3 DEF Types, NoBuf
<1>6. /\ pc'[t] = "idle" /\ \A u \in Threads \ {t} : pc'[u] = pc[u] /\ buf'[u] = buf[u]
      /\ buf'[t] = Null
      /\ pc' \in [Threads -> Labels] /\ buf' \in [Threads -> Bufs \union {Null}]
  BY <1>1, GotoMoves DEF Types, Labels
<1>7. Types'
  <2>1. NoBuf \in BufferShapes
    BY DEF NoBuf, BufferShapes
  <2>2. avbuf' \in [Bufs -> BufferShapes]
    BY <1>1, <1>3, <2>1 DEF Types
  <2>3. \A c \in Bufs : avbuf'[c] = NoBuf \/ avbuf'[c].data # Null
    BY <1>1, <1>5 DEF Types
  <2> QED BY <1>1, <1>6, <2>2, <2>3 DEF Types, poolVars
<1>8. Refcounts'
  <2>1. \A c \in Bufs : RefsTo(c)' = RefsTo(c) /\ CopiesOf(c)' = CopiesOf(c)
    BY DEF RefsTo, CopiesOf
  <2>2. \A c \in Bufs : avbuf'[c].refcount = avbuf[c].refcount
    BY <1>4, <1>5
  <2> QED BY <1>1, <2>1, <2>2 DEF Refcounts
<1>9. \A u \in Threads : u # t => buf[u] # b /\ (buf[u] # Null => buf[u] \in Bufs)
  BY <1>1, <1>2, <1>3 DEF FreedOnce, Types
<1>10. FreedOnce'
  <2>1. ASSUME NEW u \in Threads, buf'[u] # Null
        PROVE  avbuf'[buf'[u]].data # Null /\ avbuf'[buf'[u]].refcount = 0
    <3>1. u # t /\ buf'[u] = buf[u] /\ avbuf'[buf[u]] = avbuf[buf[u]]
      BY <1>5, <1>6, <1>9, <2>1
    <3>2. avbuf[buf[u]].data # Null /\ avbuf[buf[u]].refcount = 0
      BY <1>1, <2>1, <3>1 DEF FreedOnce
    <3> QED BY <3>1, <3>2
  <2>2. \A u, v \in Threads : buf'[u] # Null /\ buf'[u] = buf'[v] => u = v
    BY <1>1, <1>6 DEF FreedOnce
  <2>3. ASSUME NEW c \in Bufs, avbuf'[c].data # Null, avbuf'[c].refcount = 0
        PROVE  \E u \in Threads : buf'[u] = c
    <3>1. c # b /\ avbuf[c].data # Null /\ avbuf[c].refcount = 0
      BY <1>5, <2>3
    <3>2. PICK u \in Threads : buf[u] = c
      BY <1>1, <3>1 DEF FreedOnce
    <3>3. u # t
      BY <1>3, <3>1, <3>2
    <3> QED BY <1>6, <3>2, <3>3
  <2> QED BY <2>1, <2>2, <2>3 DEF FreedOnce
<1>11. CallState(t)'
  <2>1. newbuf'[t] = Null
    BY <1>1 DEF CallState
  <2> QED BY <1>6, <2>1 DEF CallState, FreeingLabels, RefLabels
<1>12. ASSUME NEW u \in Threads, u # t  PROVE CallState(u)'
  <2>1. buf[u] # Null => avbuf'[buf[u]].entry = avbuf[buf[u]].entry
    BY <1>5, <1>9, <1>12
  <2>2. ASSUME NEW q \in RefsOf(u)
        PROVE  /\ ref'[q].owner = u /\ ref'[q].buffer = ref[q].buffer
               /\ avbuf'[ref[q].buffer] = avbuf[ref[q].buffer]
    <3>1. q \in Refs /\ ref[q].buffer \in Bufs /\ ref[q].owner = u
      BY <1>1, OwnRef
    <3>2. ref[q].buffer # b
      BY <1>4, <3>1 DEF RefsTo
    <3> QED BY <1>5, <3>1, <3>2
  <2> QED BY <1>6, <1>12, <2>1, <2>2, OtherKeeps
<1> QED BY <1>7, <1>8, <1>10, <1>11, <1>12 DEF RefInv

\* A buffer is freed, or goes on to the pool's release.
LEMMA FreeBufferKeeps ==
  ASSUME RefInv, NEW t \in Threads, FreeBuffer(t)
  PROVE  RefInv'
<1>1. Types /\ CallState(t) /\ pc[t] = "free" /\ buf[t] # Null
  BY DEF RefInv, FreeBuffer, CallState, FreeingLabels
<1>2. CASE avbuf[buf[t]].entry # Null
  <2>1. Goto(t, "release") /\ UNCHANGED <<mem, avbuf, buf, ref, poolVars, newbuf, my_ref>>
    BY <1>2 DEF FreeBuffer
  <2>2. /\ pc'[t] = "release" /\ \A u \in Threads \ {t} : pc'[u] = pc[u]
        /\ pc' \in [Threads -> Labels]
    BY <1>1, <2>1, GotoMoves DEF Labels
  <2>3. Types'
    BY <1>1, <2>1, <2>2 DEF Types, poolVars
  <2>4. CallState(t)'
    BY <1>1, <1>2, <2>1, <2>2 DEF CallState, FreeingLabels, RefLabels
  <2> QED BY <2>1, <2>2, <2>3, <2>4, QuietKeeps
<1>3. CASE avbuf[buf[t]].entry = Null
  <2>1. /\ mem' = mem \ {avbuf[buf[t]].data}
        /\ avbuf' = [avbuf EXCEPT ![buf[t]] = NoBuf] /\ buf' = [buf EXCEPT ![t] = Null]
        /\ Goto(t, "idle") /\ UNCHANGED <<ref, poolVars, newbuf, my_ref>>
    BY <1>3 DEF FreeBuffer
  <2>2. mem' \subseteq Data
    BY <1>1, <2>1 DEF Types
  <2> QED BY <1>1, <2>1, <2>2, DeathKeeps
<1> QED BY <1>2, <1>3

\* A released buffer's structure is freed.
LEMMA FreeStructKeeps ==
  ASSUME RefInv, NEW t \in Threads, FreeStruct(t)
  PROVE  RefInv'
<1>1. /\ pc[t] = "free_struct"
      /\ avbuf' = [avbuf EXCEPT ![buf[t]] = NoBuf] /\ buf' = [buf EXCEPT ![t] = Null]
      /\ Goto(t, "idle") /\ UNCHANGED <<mem, ref, poolVars, newbuf, my_ref>>
  BY DEF FreeStruct
<1>2. mem' \subseteq Data
  BY <1>1 DEF RefInv, Types
<1> QED BY <1>1, <1>2, DeathKeeps

\* av_realloc: the data moves, for a buffer with one reference.
LEMMA ReallocInPlaceKeeps ==
  ASSUME RefInv, NEW t \in Threads, NEW r \in Refs, ReallocInPlace(t, r)
  PROVE  /\ RefInv'
         /\ avbuf[ref[r].buffer].refcount = 1
         /\ UNCHANGED <<poolVars, pc, locals>>
         /\ avbuf[ref[r].buffer].reallocatable
         /\ \A q \in Refs : ref'[q].owner = ref[q].owner /\ ref'[q].buffer = ref[q].buffer
         /\ \A c \in Bufs : /\ c # ref[r].buffer => avbuf'[c] = avbuf[c]
                            /\ avbuf'[c].refcount = avbuf[c].refcount
                            /\ avbuf'[c].entry = avbuf[c].entry
                            /\ avbuf'[c].reallocatable = avbuf[c].reallocatable
<1>1. /\ Types /\ Refcounts /\ FreedOnce /\ CallState(t)
      /\ pc[t] = "idle" /\ r \in RefsOf(t)
      /\ ~CannotRealloc(r) /\ UNCHANGED <<poolVars, pc, locals>>
  BY DEF RefInv, ReallocInPlace
<1>2. ref[r].buffer \in Bufs /\ ref[r].owner = t /\ ref[r] # NoRef
  BY <1>1, OwnRef
<1>3. PICK b \in Bufs : b = ref[r].buffer
  BY <1>2
<1>4. avbuf[b].refcount = 1 /\ avbuf[b].reallocatable
  BY <1>1, <1>3 DEF CannotRealloc, IsWritable
<1>5. PICK d \in FreeData : /\ mem' = (mem \ {avbuf[b].data}) \union {d}
                            /\ avbuf' = [avbuf EXCEPT ![b].data = d]
                            /\ ref' = [ref EXCEPT ![r].data = d]
  BY <1>3 DEF ReallocInPlace
<1>6. d \in Data /\ d # Null
  BY <1>5, Constants DEF FreeData
<1>7. /\ avbuf' \in [Bufs -> BufferShapes]
      /\ avbuf'[b].data = d
      /\ \A c \in Bufs : /\ c # b => avbuf'[c] = avbuf[c]
                         /\ avbuf'[c].refcount = avbuf[c].refcount
                         /\ avbuf'[c].entry = avbuf[c].entry
                         /\ avbuf'[c].reallocatable = avbuf[c].reallocatable
  BY <1>1, <1>5, <1>6 DEF Types, BufferShapes
<1>8. /\ ref' \in [Refs -> AVBufferRefs \union {NoRef}]
      /\ \A q \in Refs : ref'[q].owner = ref[q].owner /\ ref'[q].buffer = ref[q].buffer
  <2>1. ref[r] \in AVBufferRefs
    BY <1>1, <1>2 DEF Types
  <2>2. PICK x \in AVBufferRefs : x = [ref[r] EXCEPT !.data = d]
    BY <1>6, <2>1 DEF AVBufferRefs
  <2>3. ref' = [ref EXCEPT ![r] = x] /\ x.owner = ref[r].owner /\ x.buffer = ref[r].buffer
    BY <1>5, <2>1, <2>2 DEF AVBufferRefs
  <2> QED BY <1>1, <2>3 DEF Types
<1>9. avbuf[b].data # Null
  BY <1>1, <1>4, BufFields
<1>10. Types'
  <2>1. \A c \in Bufs : avbuf'[c] = NoBuf \/ avbuf'[c].data # Null
    BY <1>1, <1>6, <1>7 DEF Types
  <2>2. mem' \subseteq Data
    BY <1>1, <1>5, <1>6 DEF Types
  <2> QED BY <1>1, <1>7, <1>8, <2>1, <2>2 DEF Types, poolVars, locals
<1>11. Refcounts'
  <2>1. \A c \in Bufs : RefsTo(c)' = RefsTo(c) /\ CopiesOf(c)' = CopiesOf(c)
    BY <1>1, <1>8 DEF RefsTo, CopiesOf, locals
  <2> QED BY <1>1, <1>7, <2>1 DEF Refcounts
<1>12. FreedOnce'
  <2>1. \A c \in Bufs : avbuf'[c].data # Null <=> avbuf[c].data # Null
    BY <1>6, <1>7, <1>9
  <2>2. \A u \in Threads : buf[u] # Null => buf[u] \in Bufs
    BY <1>1 DEF Types
  <2>3. buf' = buf
    BY <1>1 DEF locals
  <2> QED BY <1>1, <1>7, <2>1, <2>2, <2>3 DEF FreedOnce
<1>13. ASSUME NEW u \in Threads  PROVE CallState(u)'
  <2>1. buf[u] # Null => avbuf'[buf[u]].entry = avbuf[buf[u]].entry
    BY <1>1, <1>7 DEF Types
  <2>2. ASSUME NEW q \in RefsOf(u)
        PROVE  /\ ref'[q].owner = u /\ ref'[q].buffer = ref[q].buffer
               /\ avbuf'[ref[q].buffer].entry = avbuf[ref[q].buffer].entry
               /\ avbuf'[ref[q].buffer].refcount = avbuf[ref[q].buffer].refcount
    <3>1. q \in Refs /\ ref[q].buffer \in Bufs /\ ref[q].owner = u
      BY <1>1, OwnRef
    <3> QED BY <1>7, <1>8, <3>1
  <2> QED BY <1>1, <2>1, <2>2, OtherKeeps DEF locals
<1>14. RefInv'
  BY <1>10, <1>11, <1>12, <1>13 DEF RefInv
<1> QED BY <1>1, <1>3, <1>4, <1>7, <1>8, <1>14

\* The other steps of calls that are under way, and calls that only begin.
LEMMA CallsKeep ==
  ASSUME RefInv, NEW t \in Threads,
         \/ CopyFails(t) \/ Written(t) \/ PoolGetReturns(t) \/ PoolRelease(t)
         \/ DropPool(t) \/ PoolFree(t) \/ PoolUninit(t)
         \/ \E r \in Refs : MakeWritable(t, r) \/ ReallocByCopy(t, r)
  PROVE  RefInv' /\ UNCHANGED <<avbuf, ref, newbuf, buf>>
<1>1. Types /\ CallState(t)
  BY DEF RefInv
<1>2. UNCHANGED <<avbuf, ref, newbuf, buf>>
  BY DEF CopyFails, Written, PoolGetReturns, PoolRelease, DropPool, PoolFree, PoolUninit,
         MakeWritable, ReallocByCopy, locals
<1>3. PICK l \in Labels : Goto(t, l)
  <2>1. CASE CopyFails(t) \/ Written(t) \/ PoolGetReturns(t)
    BY <2>1 DEF CopyFails, Written, PoolGetReturns, Labels
  <2>2. CASE PoolRelease(t) \/ DropPool(t) \/ PoolFree(t) \/ PoolUninit(t)
    BY <2>2 DEF PoolRelease, DropPool, PoolFree, PoolUninit, Labels
  <2>3. ASSUME NEW r \in Refs, MakeWritable(t, r) \/ ReallocByCopy(t, r)
        PROVE  \E x \in Labels : Goto(t, x)
    BY <2>3 DEF MakeWritable, ReallocByCopy, Labels
  <2> QED BY <2>1, <2>2, <2>3
<1>4. /\ pc'[t] = l /\ \A u \in Threads \ {t} : pc'[u] = pc[u]
      /\ pc' \in [Threads -> Labels]
  BY <1>1, <1>3, GotoMoves
<1>5. /\ my_ref' \in [Threads -> Refs \union {Null}]
      /\ \A u \in Threads \ {t} : my_ref'[u] = my_ref[u]
  <2>1. CASE CopyFails(t) \/ Written(t)
    BY <1>1, <2>1 DEF CopyFails, Written, Types
  <2>2. CASE my_ref' = my_ref
    BY <1>1, <2>2 DEF Types
  <2>3. ASSUME NEW r \in Refs, MakeWritable(t, r) \/ ReallocByCopy(t, r)
        PROVE  my_ref' = [my_ref EXCEPT ![t] = r]
    BY <2>3 DEF MakeWritable, ReallocByCopy
  <2>4. CASE \E r \in Refs : MakeWritable(t, r) \/ ReallocByCopy(t, r)
    BY <1>1, <2>3, <2>4 DEF Types
  <2> QED BY <2>1, <2>2, <2>4 DEF PoolGetReturns, PoolRelease, DropPool, PoolFree,
                                  PoolUninit, locals
<1>6. /\ mem' \subseteq Data
      /\ pool_life' \in {"none", "live", "freed"} /\ pool_ref' \in BOOLEAN
      /\ pool_refcount' \in Int
      /\ pool_list' \in Seq(Data)
  <2>1. CASE PoolRelease(t)
    <3>1. pc[t] = "release" /\ buf[t] # Null /\ buf[t] \in Bufs
      BY <1>1, <2>1 DEF PoolRelease, CallState, FreeingLabels, Types
    <3>2. avbuf[buf[t]].entry \in Data
      BY <1>1, <3>1, BufFields DEF CallState
    <3>3. pool_list' = <<avbuf[buf[t]].entry>> \o pool_list
      BY <2>1 DEF PoolRelease
    <3> QED BY <1>1, <2>1, <3>2, <3>3 DEF PoolRelease, Types
  <2>2. CASE PoolGetReturns(t) \/ DropPool(t)
    BY <1>1, <2>2 DEF PoolGetReturns, DropPool, Types
  <2>3. CASE PoolUninit(t)
    <3>1. UNCHANGED <<mem, pool_life, pool_list>> /\ pool_refcount' = pool_refcount - 1
      BY <2>3 DEF PoolUninit
    <3>2. pool_ref' = FALSE
      BY <2>3 DEF PoolUninit
    <3>3. pool_ref' \in BOOLEAN
      BY <3>2
    <3> QED BY <1>1, <3>1, <3>3 DEF Types
  <2>4. CASE PoolFree(t)
    <3>1. pool_list' = <<>> /\ mem' \subseteq mem /\ pool_life' = "freed"
          /\ UNCHANGED <<pool_ref, pool_refcount>>
      BY <2>4 DEF PoolFree
    <3>2. pool_list' \in Seq(Data)
      BY <3>1
    <3> QED BY <1>1, <3>1, <3>2 DEF Types
  <2>5. CASE UNCHANGED <<mem, poolVars>>
    BY <1>1, <2>5 DEF Types, poolVars
  <2> QED BY <2>1, <2>2, <2>3, <2>4, <2>5 DEF CopyFails, Written, MakeWritable, ReallocByCopy
<1>7. Types'
  BY <1>1, <1>2, <1>4, <1>5, <1>6 DEF Types
<1>8. CallState(t)'
  <2>1. newbuf'[t] = newbuf[t] /\ buf'[t] = buf[t] /\ avbuf' = avbuf /\ ref' = ref
        /\ RefsOf(t)' = RefsOf(t)
    BY <1>2 DEF RefsOf
  <2>2. CASE CopyFails(t) \/ Written(t) \/ PoolGetReturns(t)
    <3>1. pc[t] \in {"copy", "recopy", "write", "get"} /\ pc'[t] = "idle"
      BY <1>1, <2>2, GotoMoves DEF CopyFails, Written, PoolGetReturns, Labels
    <3> QED BY <1>1, <2>1, <3>1 DEF CallState, FreeingLabels, RefLabels
  <2>3. CASE PoolRelease(t)
    <3>1. pc[t] = "release" /\ pc'[t] = "drop_pool"
      BY <1>1, <2>3, GotoMoves DEF PoolRelease, Labels
    <3> QED BY <1>1, <2>1, <3>1 DEF CallState, FreeingLabels, RefLabels
  <2>4. CASE DropPool(t)
    <3>1. pc[t] = "drop_pool" /\ pc'[t] \in {"free_pool", "free_struct"}
      BY <1>1, <2>4, GotoMoves DEF DropPool, Labels
    <3> QED BY <1>1, <2>1, <3>1 DEF CallState, FreeingLabels, RefLabels
  <2>5. CASE PoolFree(t)
    <3>1. pc[t] = "free_pool" /\ pc'[t] = IF buf[t] = Null THEN "idle" ELSE "free_struct"
      BY <1>1, <2>5, GotoMoves DEF PoolFree, Labels
    <3> QED BY <1>1, <2>1, <3>1 DEF CallState, FreeingLabels, RefLabels
  <2>6. CASE PoolUninit(t)
    <3>1. pc[t] = "idle" /\ pc'[t] \in {"idle", "free_pool"}
      BY <1>1, <2>6, GotoMoves DEF PoolUninit, Labels
    <3> QED BY <1>1, <2>1, <3>1 DEF CallState, FreeingLabels, RefLabels
  <2>7. ASSUME NEW r \in Refs, MakeWritable(t, r) \/ ReallocByCopy(t, r)
        PROVE  CallState(t)'
    <3>1. pc[t] = "idle" /\ r \in RefsOf(t) /\ my_ref' = [my_ref EXCEPT ![t] = r]
      BY <2>7 DEF MakeWritable, ReallocByCopy
    <3>2. my_ref'[t] = r
      BY <1>1, <3>1 DEF Types
    <3>3. /\ pc'[t] \in {"write", "copy", "recopy"}
          /\ pc'[t] = "write" => avbuf[ref[r].buffer].refcount = 1
      <4>1. CASE MakeWritable(t, r) /\ IsWritable(r)
        <5>1. avbuf[ref[r].buffer].refcount = 1
          BY <4>1 DEF IsWritable
        <5>2. pc'[t] = "write"
          BY <1>1, <4>1, GotoMoves DEF MakeWritable, Labels
        <5> QED BY <5>1, <5>2
      <4>2. CASE MakeWritable(t, r) /\ ~IsWritable(r)
        BY <1>1, <4>2, GotoMoves DEF MakeWritable, Labels
      <4>3. CASE ReallocByCopy(t, r)
        BY <1>1, <4>3, GotoMoves DEF ReallocByCopy, Labels
      <4> QED BY <2>7, <4>1, <4>2, <4>3
    <3> QED BY <1>1, <2>1, <3>1, <3>2, <3>3 DEF CallState, FreeingLabels, RefLabels
  <2> QED BY <2>2, <2>3, <2>4, <2>5, <2>6, <2>7
<1>9. RefInv'
  BY <1>2, <1>4, <1>5, <1>7, <1>8, QuietKeeps
<1> QED BY <1>2, <1>9

\* A buffer is created with one reference.
LEMMA CreateKeeps ==
  ASSUME RefInv, NEW t \in Threads, NEW ro \in BOOLEAN, NEW re \in BOOLEAN,
         Create(t, ro, re)
  PROVE  RefInv'
<1>1. PICK r \in FreeRefs, b \in FreeBufs, d \in FreeData :
         /\ mem' = mem \union {d}
         /\ avbuf' = [avbuf EXCEPT ![b] = NewBuf(d, Null, ro, re)]
         /\ ref' = [ref EXCEPT ![r] = NewRef(t, b, d)]
  BY DEF Create
<1>2. /\ pc[t] = "idle" /\ d \in Data /\ mem' \subseteq Data /\ pool_list' \in Seq(Data)
      /\ UNCHANGED <<pool_life, pool_ref, pool_refcount, locals, pc>>
  BY <1>1 DEF Create, FreeData, RefInv, Types, poolVars
<1> QED BY <1>1, <1>2, BirthKeeps

\* The pool hands out its first entry in a new buffer.
LEMMA PoolReuseKeeps ==
  ASSUME RefInv, NEW t \in Threads, PoolReuse(t)
  PROVE  RefInv'
<1>1. PICK r \in FreeRefs, b \in FreeBufs :
         /\ avbuf' = [avbuf EXCEPT ![b] =
               NewBuf(Head(pool_list), Head(pool_list), FALSE, FALSE)]
         /\ ref' = [ref EXCEPT ![r] = NewRef(t, b, Head(pool_list))]
  BY DEF PoolReuse
<1>2. pool_list \in Seq(Data) /\ pool_list # <<>>
  BY DEF PoolReuse, RefInv, Types
<1>3. Head(pool_list) \in Data /\ Tail(pool_list) \in Seq(Data)
  BY <1>2
<1>4. PICK d \in Data : d = Head(pool_list)
  BY <1>3
<1>5. /\ pc[t] = "idle" /\ mem' \subseteq Data /\ pool_list' \in Seq(Data)
      /\ UNCHANGED <<pool_life, pool_ref, pool_refcount, locals>> /\ Goto(t, "get")
  BY <1>3 DEF PoolReuse, RefInv, Types
<1>6. d # Null /\ avbuf' = [avbuf EXCEPT ![b] = NewBuf(d, d, FALSE, FALSE)]
      /\ ref' = [ref EXCEPT ![r] = NewRef(t, b, d)]
  BY <1>1, <1>4, Constants
<1> QED BY <1>5, <1>6, BirthKeeps

\* The pool hands out newly allocated data.
LEMMA PoolAllocKeeps ==
  ASSUME RefInv, NEW t \in Threads, NEW re \in BOOLEAN, PoolAlloc(t, re)
  PROVE  RefInv'
<1>1. PICK r \in FreeRefs, b \in FreeBufs, d \in FreeData :
         /\ mem' = mem \union {d}
         /\ avbuf' = [avbuf EXCEPT ![b] = NewBuf(d, d, FALSE, re)]
         /\ ref' = [ref EXCEPT ![r] = NewRef(t, b, d)]
  BY DEF PoolAlloc
<1>2. /\ pc[t] = "idle" /\ d \in Data /\ mem' \subseteq Data /\ pool_list' \in Seq(Data)
      /\ UNCHANGED <<pool_life, pool_ref, pool_refcount, locals>> /\ Goto(t, "get")
      /\ d # Null
  BY <1>1, Constants DEF PoolAlloc, FreeData, RefInv, Types, poolVars
<1> QED BY <1>1, <1>2, BirthKeeps

\* The caller makes its pool.
LEMMA PoolInitKeeps ==
  ASSUME RefInv, PoolInit
  PROVE  RefInv'
<1>1. UNCHANGED <<mem, avbuf, ref, pool_list, pc, buf, newbuf, my_ref>>
  BY DEF PoolInit, locals
<1>2. Types'
  BY <1>1 DEF RefInv, Types, PoolInit
<1>3. Refcounts' /\ FreedOnce'
  BY <1>1 DEF RefInv, Refcounts, RefsTo, CopiesOf, FreedOnce
<1>4. \A t \in Threads : CallState(t)'
  BY <1>1 DEF RefInv, CallState, RefsOf
<1> QED BY <1>2, <1>3, <1>4 DEF RefInv

\* Every step keeps the counts of the references.
LEMMA NextRefInv ==
  ASSUME RefInv, [Next]_vars
  PROVE  RefInv'
<1>1. ASSUME NEW t \in Threads, Call(t)  PROVE RefInv'
  <2>1. ASSUME NEW r \in Refs, \/ RefBuffer(t, r) \/ MoveData(t, r)
                               \/ \E u \in Threads : HandOver(t, u, r)
                               \/ Unref(t, r) \/ ReallocInPlace(t, r)
        PROVE  RefInv'
    BY <2>1, RefBufferKeeps, RefChanges, UnrefKeeps, ReallocInPlaceKeeps
  <2>2. ASSUME NEW r \in Refs, MakeWritable(t, r) \/ ReallocByCopy(t, r)  PROVE RefInv'
    BY <2>2, CallsKeep
  <2>3. CASE PoolUninit(t)
    BY <2>3, CallsKeep
  <2> QED BY <1>1, <2>1, <2>2, <2>3, CreateKeeps, PoolReuseKeeps, PoolAllocKeeps DEF Call
<1>2. ASSUME NEW t \in Threads, Step(t)  PROVE RefInv'
  BY <1>2, FreeBufferKeeps, CopyBufferKeeps, ReplaceBufferKeeps, FreeStructKeeps, CallsKeep
  DEF Step
<1>3. CASE UNCHANGED vars
  <2>1. UNCHANGED <<mem, avbuf, ref, pool_life, pool_ref, pool_refcount, pool_list, pc,
                    buf, newbuf, my_ref>>
    BY <1>3 DEF vars, poolVars, locals
  <2>2. Types'
    BY <2>1 DEF RefInv, Types
  <2>3. Refcounts' /\ FreedOnce'
    BY <2>1 DEF RefInv, Refcounts, RefsTo, CopiesOf, FreedOnce
  <2>4. \A t \in Threads : CallState(t)'
    BY <2>1 DEF RefInv, CallState, RefsOf
  <2> QED BY <2>2, <2>3, <2>4 DEF RefInv
<1> QED BY <1>1, <1>2, <1>3, PoolInitKeeps DEF Next
-----------------------------------------------------------------------------
(* The pool's count and life.                                              *)

\* Steps that the pool's count does not see.
LEMMA PoolUnseen ==
  ASSUME CountInv, UNCHANGED <<pool_life, pool_ref, pool_refcount>>,
         pool_list' = pool_list \/ pool_life = "live",
         Getting' = Getting, Counted' = Counted,
         \A t \in Threads : pc'[t] = "free_pool" <=> pc[t] = "free_pool"
  PROVE  PoolCount' /\ PoolLife'
<1>1. PoolCount'
  BY DEF CountInv, PoolCount, One
<1>2. PoolLife'
  BY DEF CountInv, PoolLife
<1> QED BY <1>1, <1>2

\* A thread goes from one place to another without changing who is counted.
LEMMA CountedKept ==
  ASSUME \A b \in Bufs : avbuf'[b].entry = avbuf[b].entry,
         NEW t \in Threads,
         \A u \in Threads \ {t} : pc'[u] = pc[u] /\ buf'[u] = buf[u],
         \A b \in Bufs : avbuf[b].entry # Null =>
            ((buf'[t] = b /\ pc'[t] \in {"free_pool", "free_struct"})
              <=> (buf[t] = b /\ pc[t] \in {"free_pool", "free_struct"}))
  PROVE  Counted' = Counted
<1>1. ASSUME NEW b \in Bufs, avbuf[b].entry # Null
      PROVE  (\A u \in Threads : buf'[u] = b => pc'[u] \notin {"free_pool", "free_struct"})
              <=> (\A u \in Threads : buf[u] = b => pc[u] \notin {"free_pool", "free_struct"})
  BY <1>1
<1> QED BY <1>1 DEF Counted

\* The buffer of a thread inside pool_get is its own: there are as many.
LEMMA GettersHaveBuffers ==
  ASSUME RefInv
  PROVE  Cardinality(Getting) <= Cardinality(Counted)
<1> DEFINE Mine(t, b) == \E r \in RefsOf(t) : ref[r].buffer = b /\ avbuf[b].refcount = 1
           f == [t \in Getting |-> CHOOSE b \in Counted : Mine(t, b)]
<1>1. Types /\ Refcounts /\ FreedOnce
  BY DEF RefInv
<1>2. ASSUME NEW t \in Getting  PROVE \E b \in Counted : Mine(t, b)
  <2>1. CallState(t) /\ t \in Threads /\ pc[t] = "get"
    BY DEF RefInv, Getting
  <2>2. PICK r \in RefsOf(t) : /\ avbuf[ref[r].buffer].refcount = 1
                               /\ avbuf[ref[r].buffer].entry # Null
    BY <2>1 DEF CallState
  <2>3. PICK b \in Bufs : b = ref[r].buffer
    BY <1>1, <2>1, OwnRef
  <2>4. \A u \in Threads : buf[u] # b
    BY <1>1, <2>2, <2>3, Constants DEF FreedOnce
  <2> QED BY <2>2, <2>3, <2>4 DEF Counted
<1>3. ASSUME NEW t \in Getting, NEW u \in Getting, NEW b \in Counted, Mine(t, b), Mine(u, b)
      PROVE  t = u
  <2>1. PICK r \in RefsOf(t) : ref[r].buffer = b /\ avbuf[b].refcount = 1
    BY <1>3
  <2>2. PICK q \in RefsOf(u) : ref[q].buffer = b
    BY <1>3
  <2>3. b \in Bufs /\ r \in Refs /\ q \in Refs /\ ref[r].owner = t /\ ref[q].owner = u
    BY <1>1, <2>1, <2>2 DEF Counted, RefsOf
  <2> QED BY <1>1, <2>1, <2>2, <2>3, SoleRef DEF RefsTo
<1> HIDE DEF Mine
<1>4. f \in [Getting -> Counted] /\ \A t \in Getting : Mine(t, f[t])
  BY <1>2
<1> HIDE DEF f
<1>5. \A t, u \in Getting : f[t] = f[u] => t = u
  BY <1>3, <1>4
<1>6. ~(Cardinality(Counted) < Cardinality(Getting))
  BY <1>4, <1>5, FiniteSets, FS_PigeonHole
<1> QED BY <1>6, Counting

\* No pool, no count.
LEMMA InitPool == Init => PoolCount /\ PoolLife
<1> SUFFICES ASSUME Init  PROVE PoolCount /\ PoolLife
  OBVIOUS
<1>1. Getting = {} /\ Counted = {}
  BY DEF Init, Getting, Counted, NoBuf
<1> QED BY <1>1, FS_EmptySet DEF Init, PoolCount, PoolLife, One

\* A thread that is not in pool_get, nor freeing the pool, goes elsewhere.
LEMMA UnseenMove ==
  ASSUME CountInv, NEW t \in Threads, pc' \in [Threads -> Labels],
         UNCHANGED <<pool_life, pool_ref, pool_refcount>>,
         pool_list' = pool_list \/ pool_life = "live",
         \A b \in Bufs : avbuf'[b].entry = avbuf[b].entry,
         \A u \in Threads \ {t} : pc'[u] = pc[u] /\ buf'[u] = buf[u],
         pc[t] \notin {"get", "free_pool", "free_struct"},
         pc'[t] \notin {"get", "free_pool", "free_struct"}
  PROVE  PoolCount' /\ PoolLife'
<1>1. Getting' = Getting /\ \A u \in Threads : pc'[u] = "free_pool" <=> pc[u] = "free_pool"
  BY DEF Getting
<1>2. Counted' = Counted
  BY CountedKept
<1> QED BY <1>1, <1>2, PoolUnseen

\* Calls that begin and end in one step, outside the pool.
LEMMA CallsUnseen ==
  ASSUME CountInv, NEW t \in Threads,
         \/ \E ro, re \in BOOLEAN : Create(t, ro, re)
         \/ \E r \in Refs : \/ RefBuffer(t, r) \/ MoveData(t, r) \/ ReallocInPlace(t, r)
                            \/ \E u \in Threads : HandOver(t, u, r)
  PROVE  PoolCount' /\ PoolLife'
<1>1. Types /\ RefInv
  BY DEF CountInv, RefInv
<1>2. pc[t] = "idle" /\ UNCHANGED <<poolVars, pc, locals>>
  BY DEF Create, RefBuffer, MoveData, ReallocInPlace, HandOver
<1>3. ASSUME NEW c \in Bufs  PROVE avbuf'[c].entry = avbuf[c].entry
  <2>1. ASSUME NEW ro \in BOOLEAN, NEW re \in BOOLEAN, Create(t, ro, re)
        PROVE  avbuf'[c].entry = avbuf[c].entry
    <3>1. PICK b \in FreeBufs, d \in FreeData :
             avbuf' = [avbuf EXCEPT ![b] = NewBuf(d, Null, ro, re)]
      BY <2>1 DEF Create
    <3>2. avbuf[b].entry = Null /\ b \in Bufs
      BY <3>1 DEF FreeBufs, NoBuf
    <3>3. NewBuf(d, Null, ro, re).entry = Null
      BY DEF NewBuf
    <3> QED BY <1>1, <3>1, <3>2, <3>3 DEF Types
  <2>2. ASSUME NEW r \in Refs, RefBuffer(t, r)  PROVE avbuf'[c].entry = avbuf[c].entry
    BY <1>1, <2>2 DEF RefBuffer, Types, BufferShapes
  <2>3. ASSUME NEW r \in Refs, ReallocInPlace(t, r)  PROVE avbuf'[c].entry = avbuf[c].entry
    BY <1>1, <2>3, ReallocInPlaceKeeps
  <2>4. CASE avbuf' = avbuf
    BY <2>4
  <2> QED BY <2>1, <2>2, <2>3, <2>4 DEF MoveData, HandOver
<1> QED BY <1>1, <1>2, <1>3, UnseenMove DEF poolVars, locals, Types

\* Steps of a call on a reference of its own.
LEMMA StepsUnseen ==
  ASSUME CountInv, NEW t \in Threads,
         \/ CopyFails(t) \/ Written(t) \/ CopyBuffer(t)
         \/ \E r \in Refs : MakeWritable(t, r) \/ ReallocByCopy(t, r)
  PROVE  PoolCount' /\ PoolLife'
<1>1. Types /\ RefInv
  BY DEF CountInv, RefInv
<1>2. pc[t] \notin {"get", "free_pool", "free_struct"} /\ UNCHANGED <<poolVars, buf>>
  BY DEF CopyFails, Written, CopyBuffer, MakeWritable, ReallocByCopy
<1>3. PICK l \in Labels \ {"get", "free_pool", "free_struct"} : Goto(t, l)
  <2>1. CASE CopyFails(t) \/ Written(t) \/ CopyBuffer(t)
    BY <2>1 DEF CopyFails, Written, CopyBuffer, Labels
  <2>2. ASSUME NEW r \in Refs, MakeWritable(t, r) \/ ReallocByCopy(t, r)
        PROVE  \E x \in Labels \ {"get", "free_pool", "free_struct"} : Goto(t, x)
    BY <2>2 DEF MakeWritable, ReallocByCopy, Labels
  <2> QED BY <2>1, <2>2
<1>4. ASSUME NEW c \in Bufs  PROVE avbuf'[c].entry = avbuf[c].entry
  <2>1. CASE CopyBuffer(t)
    <3>1. PICK b \in FreeBufs, d \in FreeData :
             avbuf' = [avbuf EXCEPT ![b] = NewBuf(d, Null, FALSE, pc[t] = "recopy")]
      BY <2>1 DEF CopyBuffer
    <3>2. avbuf[b].entry = Null /\ b \in Bufs
      BY <3>1 DEF FreeBufs, NoBuf
    <3>3. NewBuf(d, Null, FALSE, pc[t] = "recopy").entry = Null
      BY DEF NewBuf
    <3> QED BY <1>1, <3>1, <3>2, <3>3 DEF Types
  <2>2. CASE avbuf' = avbuf
    BY <2>2
  <2> QED BY <2>1, <2>2 DEF CopyFails, Written, MakeWritable, ReallocByCopy
<1>5. /\ pc'[t] = l /\ \A u \in Threads \ {t} : pc'[u] = pc[u]
      /\ pc' \in [Threads -> Labels]
  BY <1>1, <1>3, GotoMoves
<1> QED BY <1>2, <1>3, <1>4, <1>5, UnseenMove DEF poolVars

\* A reference is dropped.
LEMMA DropsUnseen ==
  ASSUME CountInv, NEW t \in Threads, NEW b \in Bufs, DropBuffer(t, b),
         pc[t] \in {"idle", "replace"}, UNCHANGED poolVars
  PROVE  PoolCount' /\ PoolLife'
<1>1. Types
  BY DEF CountInv, RefInv
<1>2. \A c \in Bufs : avbuf'[c].entry = avbuf[c].entry
  BY <1>1 DEF DropBuffer, Types, BufferShapes
<1>3. PICK l \in {"free", "idle"} : Goto(t, l)
  BY DEF DropBuffer
<1>4. /\ pc'[t] = l /\ \A u \in Threads \ {t} : pc'[u] = pc[u]
      /\ pc' \in [Threads -> Labels]
  BY <1>1, <1>3, GotoMoves DEF Labels
<1>5. \A u \in Threads \ {t} : buf'[u] = buf[u]
  BY <1>1 DEF DropBuffer, Types
<1> QED BY <1>2, <1>3, <1>4, <1>5, UnseenMove DEF poolVars

\* The references dropped by Unref and ReplaceBuffer are not the pool's.
LEMMA UnrefUnseen ==
  ASSUME CountInv, NEW t \in Threads, \/ ReplaceBuffer(t)
                                      \/ \E r \in Refs : Unref(t, r)
  PROVE  PoolCount' /\ PoolLife'
<1>1. Types /\ CallState(t)
  BY DEF CountInv, RefInv
<1>2. CASE ReplaceBuffer(t)
  <2>1. pc[t] = "replace" /\ DropBuffer(t, ref[my_ref[t]].buffer) /\ UNCHANGED poolVars
    BY <1>2 DEF ReplaceBuffer, poolVars
  <2>2. ref[my_ref[t]].buffer \in Bufs
    BY <1>1, <2>1, OwnRef DEF CallState, RefLabels
  <2> QED BY <2>1, <2>2, DropsUnseen
<1>3. ASSUME NEW r \in Refs, Unref(t, r)  PROVE PoolCount' /\ PoolLife'
  <2>1. pc[t] = "idle" /\ DropBuffer(t, ref[r].buffer) /\ UNCHANGED poolVars
        /\ r \in RefsOf(t)
    BY <1>3 DEF Unref, poolVars
  <2>2. ref[r].buffer \in Bufs
    BY <1>1, <2>1, OwnRef
  <2> QED BY <2>1, <2>2, DropsUnseen
<1> QED BY <1>2, <1>3

\* A buffer's data, and its structure, are freed.
LEMMA FreesUnseen ==
  ASSUME CountInv, NEW t \in Threads, FreeBuffer(t) \/ FreeStruct(t)
  PROVE  PoolCount' /\ PoolLife'
<1>1. Types /\ CallState(t) /\ FreedOnce
  BY DEF CountInv, RefInv
<1>2. PICK b \in Bufs : b = buf[t] /\ b # Null
  BY <1>1 DEF FreeBuffer, FreeStruct, CallState, FreeingLabels, Types
<1>3. CASE FreeBuffer(t)
  <2>1. pc[t] = "free" /\ UNCHANGED poolVars
    BY <1>3 DEF FreeBuffer, poolVars
  <2>2. PICK l \in {"idle", "release"} : Goto(t, l)
    BY <1>3 DEF FreeBuffer
  <2>3. /\ pc'[t] = l /\ \A u \in Threads \ {t} : pc'[u] = pc[u]
        /\ pc' \in [Threads -> Labels]
    BY <1>1, <2>2, GotoMoves DEF Labels
  <2>4. /\ \A c \in Bufs : avbuf'[c].entry = avbuf[c].entry
        /\ \A u \in Threads \ {t} : buf'[u] = buf[u]
    <3>1. CASE avbuf[b].entry # Null
      BY <1>2, <1>3, <3>1 DEF FreeBuffer
    <3>2. CASE avbuf[b].entry = Null
      BY <1>1, <1>2, <1>3, <3>2 DEF FreeBuffer, Types, NoBuf
    <3> QED BY <3>1, <3>2
  <2> QED BY <2>1, <2>2, <2>3, <2>4, UnseenMove DEF poolVars
<1>4. CASE FreeStruct(t)
  <2>1. /\ pc[t] = "free_struct" /\ UNCHANGED poolVars /\ Goto(t, "idle")
        /\ avbuf' = [avbuf EXCEPT ![b] = NoBuf] /\ buf' = [buf EXCEPT ![t] = Null]
    BY <1>2, <1>4 DEF FreeStruct, poolVars
  <2>2. /\ pc'[t] = "idle" /\ \A u \in Threads \ {t} : pc'[u] = pc[u] /\ buf'[u] = buf[u]
        /\ buf'[t] = Null
    BY <1>1, <2>1, GotoMoves DEF Types, Labels
  <2>3. Getting' = Getting /\ \A u \in Threads : pc'[u] = "free_pool" <=> pc[u] = "free_pool"
    BY <2>1, <2>2 DEF Getting
  <2>4. avbuf'[b].entry = Null /\ \A c \in Bufs : c # b => avbuf'[c] = avbuf[c]
    BY <1>1, <2>1 DEF Types, NoBuf
  <2>5. b \notin Counted /\ b \notin Counted'
    BY <1>2, <2>1, <2>4 DEF Counted
  <2>6. ASSUME NEW c \in Bufs, c # b  PROVE c \in Counted' <=> c \in Counted
    <3>1. \A u \in Threads : (buf'[u] = c => pc'[u] \notin {"free_pool", "free_struct"})
                               <=> (buf[u] = c => pc[u] \notin {"free_pool", "free_struct"})
      BY <1>2, <2>2, <2>6, Constants
    <3> QED BY <2>4, <2>6, <3>1 DEF Counted
  <2>7. Counted \subseteq Bufs /\ Counted' \subseteq Bufs
    BY DEF Counted
  <2>8. Counted' = Counted
    BY <2>5, <2>6, <2>7
  <2> QED BY <2>1, <2>3, <2>8, PoolUnseen DEF poolVars
<1> QED BY <1>3, <1>4

\* The entry goes back to a pool that is alive.
LEMMA ReleaseUnseen ==
  ASSUME CountInv, NEW t \in Threads, PoolRelease(t)
  PROVE  PoolCount' /\ PoolLife' /\ pool_life = "live"
<1>1. Types /\ CallState(t) /\ FreedOnce
  BY DEF CountInv, RefInv
<1>2. pc[t] = "release" /\ Goto(t, "drop_pool")
      /\ UNCHANGED <<avbuf, pool_life, pool_ref, pool_refcount, locals>>
  BY DEF PoolRelease
<1>3. PICK b \in Bufs : b = buf[t] /\ b # Null
  BY <1>1, <1>2 DEF CallState, FreeingLabels, Types
<1>4. b \in Counted
  BY <1>1, <1>2, <1>3 DEF CallState, Counted, FreedOnce
<1>5. pool_life = "live"
  BY <1>4 DEF CountInv, PoolLife
<1>6. /\ pc'[t] = "drop_pool" /\ \A u \in Threads \ {t} : pc'[u] = pc[u]
      /\ pc' \in [Threads -> Labels]
  BY <1>1, <1>2, GotoMoves DEF Labels
<1> QED BY <1>2, <1>5, <1>6, UnseenMove DEF locals
-----------------------------------------------------------------------------
(* The steps that the pool's count does see.                               *)

\* The caller's pointer is the first reference to the pool.
LEMMA PoolInitCounts ==
  ASSUME CountInv, PoolInit
  PROVE  PoolCount' /\ PoolLife'
<1>1. /\ pool_life = "none" /\ pool_life' = "live" /\ pool_ref' = TRUE /\ pool_refcount' = 1
      /\ UNCHANGED <<mem, avbuf, ref, pool_list, pc, buf, newbuf, my_ref>>
  BY DEF PoolInit, locals
<1>2. Getting' = Getting /\ Counted' = Counted
  BY <1>1 DEF Getting, Counted
<1>3. ~pool_ref /\ Counted = {} /\ Getting = {}
  BY <1>1 DEF CountInv, PoolLife
<1>4. PoolCount'
  BY <1>1, <1>2, <1>3, FS_EmptySet DEF PoolCount, One
<1>5. \A t \in Threads : pc'[t] # "free_pool"
  BY <1>1 DEF CountInv, PoolLife
<1>6. PoolLife'
  BY <1>1, <1>2, <1>3, <1>5 DEF PoolLife
<1> QED BY <1>4, <1>6

\* A buffer leaves the pool, to be counted later.
LEMMA GetCounts ==
  ASSUME CountInv, NEW t \in Threads, pc[t] = "idle", pool_ref, Goto(t, "get"),
         NEW b \in FreeBufs, NEW d \in Data, NEW re \in BOOLEAN,
         avbuf' = [avbuf EXCEPT ![b] = NewBuf(d, d, FALSE, re)],
         UNCHANGED <<pool_life, pool_ref, pool_refcount, locals>>
  PROVE  PoolCount' /\ PoolLife'
<1>1. Types /\ FreedOnce /\ b \in Bufs /\ avbuf[b].data = Null /\ avbuf[b].entry = Null
      /\ PoolLife /\ PoolCount
  BY DEF CountInv, RefInv, FreeBufs, NoBuf
<1>2. avbuf'[b].entry = d /\ d # Null /\ \A c \in Bufs : c # b => avbuf'[c] = avbuf[c]
  BY <1>1, Constants DEF Types, NewBuf
<1>3. pc'[t] = "get" /\ \A u \in Threads \ {t} : pc'[u] = pc[u]
  BY <1>1, GotoMoves DEF Labels
<1>4. Getting' = Getting \union {t} /\ t \notin Getting
  BY <1>3 DEF Getting
<1>5. buf' = buf /\ \A u \in Threads : buf[u] # b
  BY <1>1, Constants DEF FreedOnce, locals
<1>6. Counted' = Counted \union {b} /\ b \notin Counted
  <2>1. b \in Counted' /\ b \notin Counted
    BY <1>1, <1>2, <1>5 DEF Counted
  <2>2. ASSUME NEW c \in Bufs, c # b  PROVE c \in Counted' <=> c \in Counted
    <3>1. \A u \in Threads : pc'[u] \in {"free_pool", "free_struct"}
                               <=> pc[u] \in {"free_pool", "free_struct"}
      BY <1>3
    <3> QED BY <1>2, <1>5, <2>2, <3>1 DEF Counted
  <2>3. Counted \subseteq Bufs /\ Counted' \subseteq Bufs
    BY DEF Counted
  <2> QED BY <2>1, <2>2, <2>3
<1>7. Cardinality(Getting') = Cardinality(Getting) + 1
      /\ Cardinality(Counted') = Cardinality(Counted) + 1
  BY <1>4, <1>6, FiniteSets, FS_AddElement
<1>8. pool_refcount \in Int
  BY <1>1 DEF Types
<1>9. PoolCount'
  BY <1>1, <1>7, <1>8, Counting DEF PoolCount, One
<1>10. PoolLife'
  <2>1. pool_life' = "live" /\ pool_ref'
    BY <1>1 DEF PoolLife
  <2>2. \A u \in Threads : pc'[u] # "free_pool"
    BY <1>1, <1>3 DEF PoolLife
  <2> QED BY <2>1, <2>2 DEF PoolLife
<1> QED BY <1>9, <1>10

\* PoolReuse and PoolAlloc get a buffer.
LEMMA PoolGetCounts ==
  ASSUME CountInv, NEW t \in Threads,
         PoolReuse(t) \/ \E re \in BOOLEAN : PoolAlloc(t, re)
  PROVE  PoolCount' /\ PoolLife'
<1>1. CASE PoolReuse(t)
  <2>1. pool_list \in Seq(Data) /\ pool_list # <<>>
    BY <1>1 DEF PoolReuse, CountInv, RefInv, Types
  <2>2. PICK d \in Data : d = Head(pool_list)
    BY <2>1
  <2>3. PICK b \in FreeBufs : avbuf' = [avbuf EXCEPT ![b] = NewBuf(d, d, FALSE, FALSE)]
    BY <1>1, <2>2 DEF PoolReuse
  <2>4. /\ pc[t] = "idle" /\ pool_ref /\ Goto(t, "get")
        /\ UNCHANGED <<pool_life, pool_ref, pool_refcount, locals>>
    BY <1>1 DEF PoolReuse
  <2> QED BY <2>3, <2>4, GetCounts
<1>2. ASSUME NEW re \in BOOLEAN, PoolAlloc(t, re)  PROVE PoolCount' /\ PoolLife'
  <2>1. PICK b \in FreeBufs, d \in FreeData :
          avbuf' = [avbuf EXCEPT ![b] = NewBuf(d, d, FALSE, re)]
    BY <1>2 DEF PoolAlloc
  <2>2. /\ pc[t] = "idle" /\ pool_ref /\ Goto(t, "get") /\ d \in Data
        /\ UNCHANGED <<pool_life, pool_ref, pool_refcount, locals>>
    BY <1>2 DEF PoolAlloc, poolVars, FreeData
  <2> QED BY <2>1, <2>2, GetCounts
<1> QED BY <1>1, <1>2

\* pool_get counts the buffer it returns.
LEMMA GetReturnsCounts ==
  ASSUME CountInv, NEW t \in Threads, PoolGetReturns(t)
  PROVE  PoolCount' /\ PoolLife'
<1>1. /\ Types /\ PoolLife /\ PoolCount /\ pc[t] = "get" /\ Goto(t, "idle")
      /\ pool_refcount' = pool_refcount + 1
      /\ UNCHANGED <<mem, avbuf, ref, pool_life, pool_ref, pool_list, buf>>
  BY DEF CountInv, RefInv, PoolGetReturns, locals
<1>2. pc'[t] = "idle" /\ \A u \in Threads \ {t} : pc'[u] = pc[u]
  BY <1>1, GotoMoves DEF Labels
<1>3. Getting' = Getting \ {t} /\ t \in Getting
  BY <1>1, <1>2 DEF Getting
<1>4. Counted' = Counted
  BY <1>1, <1>2, CountedKept
<1>5. Cardinality(Getting') = Cardinality(Getting) - 1
  BY <1>3, FiniteSets, FS_RemoveElement
<1>6. PoolCount'
  BY <1>1, <1>4, <1>5, Counting DEF PoolCount, One, Types
<1>7. PoolLife'
  BY <1>1, <1>2, <1>3, <1>4 DEF PoolLife
<1> QED BY <1>6, <1>7

\* A released buffer, or the caller, gives up its reference to the pool: the
\* one that takes the count to zero frees it, and nobody is left to use it.
LEMMA DropPoolCounts ==
  ASSUME CountInv, NEW t \in Threads, DropPool(t)
  PROVE  PoolCount' /\ PoolLife'
<1>1. /\ Types /\ CallState(t) /\ FreedOnce /\ PoolLife /\ PoolCount /\ RefInv
      /\ pc[t] = "drop_pool" /\ pool_refcount' = pool_refcount - 1
      /\ Goto(t, IF pool_refcount = 1 THEN "free_pool" ELSE "free_struct")
      /\ UNCHANGED <<mem, avbuf, ref, pool_life, pool_ref, pool_list, locals>>
  BY DEF CountInv, RefInv, DropPool
<1>2. RefInv'
  BY <1>1, CallsKeep
<1>3. PICK b \in Bufs : b = buf[t] /\ b # Null
  BY <1>1 DEF CallState, FreeingLabels, Types
<1>4. /\ pc'[t] = IF pool_refcount = 1 THEN "free_pool" ELSE "free_struct"
      /\ \A u \in Threads \ {t} : pc'[u] = pc[u]
      /\ buf' = buf /\ avbuf' = avbuf
  BY <1>1, GotoMoves DEF Labels, locals
<1>5. Getting' = Getting
  BY <1>1, <1>4 DEF Getting
<1>6. b \in Counted
  BY <1>1, <1>3 DEF CallState, Counted, FreedOnce
<1>7. Counted' = Counted \ {b}
  <2>1. b \notin Counted'
    BY <1>3, <1>4 DEF Counted
  <2>2. ASSUME NEW c \in Bufs, c # b  PROVE c \in Counted' <=> c \in Counted
    <3>1. \A u \in Threads : (buf[u] = c => pc'[u] \notin {"free_pool", "free_struct"})
                               <=> (buf[u] = c => pc[u] \notin {"free_pool", "free_struct"})
      BY <1>3, <1>4, <2>2
    <3> QED BY <1>4, <2>2, <3>1 DEF Counted
  <2>3. Counted \subseteq Bufs /\ Counted' \subseteq Bufs
    BY DEF Counted
  <2> QED BY <2>1, <2>2, <2>3
<1>8. Cardinality(Counted') = Cardinality(Counted) - 1
  BY <1>6, <1>7, FiniteSets, FS_RemoveElement
<1>9. PoolCount'
  BY <1>1, <1>5, <1>8, Counting DEF PoolCount, One, Types
<1>10. pool_life = "live" /\ \A u \in Threads : pc[u] # "free_pool"
  BY <1>1, <1>6 DEF PoolLife
<1>11. CASE pool_refcount = 1
  <2>1. Cardinality(Getting') = One(pool_ref') + Cardinality(Counted')
    BY <1>1, <1>9, <1>11, Counting, <1>5 DEF PoolCount, One
  <2>2. (RefInv => Cardinality(Getting) <= Cardinality(Counted))'
    BY GettersHaveBuffers, PTL
  <2>3. ~pool_ref /\ Getting = {} /\ Cardinality(Counted') = 0
    <3>1. Cardinality(Getting') <= Cardinality(Counted')
      BY <1>2, <2>2
    <3>2. Cardinality(Counted') \in Nat
      BY <1>7, FiniteSets, FS_CardinalityType, FS_RemoveElement, <1>6, <1>8
    <3>3. ~pool_ref
      BY <1>1, <2>1, <3>1, <3>2 DEF One
    <3>4. Getting = {}
      BY <1>1, <3>3 DEF PoolLife
    <3>5. Cardinality(Getting') = 0
      BY <1>5, <3>4, FS_EmptySet
    <3> QED BY <2>1, <1>1, <3>2, <3>3, <3>4, <3>5 DEF One
  <2>4. Counted' = {}
    BY <2>3, <1>7, FiniteSets, FS_RemoveElement, FS_EmptySet
  <2> QED BY <1>1, <1>4, <1>5, <1>10, <2>3, <2>4, <1>9 DEF PoolLife
<1>12. CASE pool_refcount # 1
  <2>1. \A u \in Threads : pc'[u] # "free_pool"
    BY <1>4, <1>10, <1>12
  <2> QED BY <1>1, <1>5, <1>7, <1>9, <1>10, <2>1 DEF PoolLife
<1> QED BY <1>11, <1>12

\* The caller gives up its pointer; when no buffer is out, it frees the pool.
LEMMA UninitCounts ==
  ASSUME CountInv, NEW t \in Threads, PoolUninit(t)
  PROVE  PoolCount' /\ PoolLife'
<1>1. /\ Types /\ CallState(t) /\ PoolLife /\ PoolCount /\ RefInv
      /\ pc[t] = "idle" /\ pool_ref /\ pool_refcount' = pool_refcount - 1
      /\ \A u \in Threads : pc[u] # "get"
      /\ Goto(t, IF pool_refcount = 1 THEN "free_pool" ELSE "idle")
      /\ UNCHANGED <<mem, avbuf, ref, pool_life, pool_list, locals>>
  BY DEF CountInv, RefInv, PoolUninit
<1>2. ~pool_ref'
  BY DEF PoolUninit
<1>3. /\ pc'[t] = IF pool_refcount = 1 THEN "free_pool" ELSE "idle"
      /\ \A u \in Threads \ {t} : pc'[u] = pc[u]
      /\ buf' = buf /\ avbuf' = avbuf /\ buf[t] = Null
  BY <1>1, GotoMoves DEF Labels, locals, CallState, FreeingLabels
<1>4. Getting = {} /\ Getting' = {}
  BY <1>1, <1>3 DEF Getting
<1>5. Counted' = Counted
  BY <1>3, Constants, CountedKept
<1>6. PoolCount'
  BY <1>1, <1>2, <1>4, <1>5, Counting, FS_EmptySet DEF PoolCount, One, Types
<1>7. pool_life = "live" /\ \A u \in Threads : pc[u] # "free_pool"
  BY <1>1 DEF PoolLife
<1>8. pool_refcount = 1 => Counted = {}
  <2>1. pool_refcount = 1 => Cardinality(Counted) = 0
    BY <1>1, <1>4, Counting, FS_EmptySet DEF PoolCount, One
  <2> QED BY <2>1, FiniteSets, FS_EmptySet
<1>9. PoolLife'
  BY <1>1, <1>2, <1>3, <1>4, <1>5, <1>7, <1>8 DEF PoolLife
<1> QED BY <1>6, <1>9

\* The pool is freed.
LEMMA PoolFreeCounts ==
  ASSUME CountInv, NEW t \in Threads, PoolFree(t)
  PROVE  PoolCount' /\ PoolLife' /\ Counted = {} /\ pool_life = "live"
<1>1. /\ Types /\ CallState(t) /\ PoolLife /\ PoolCount
      /\ pc[t] = "free_pool" /\ pool_list' = <<>> /\ pool_life' = "freed"
      /\ Goto(t, IF buf[t] = Null THEN "idle" ELSE "free_struct")
      /\ UNCHANGED <<avbuf, ref, pool_ref, pool_refcount, locals>>
  BY DEF CountInv, RefInv, PoolFree
<1>2. ~pool_ref /\ Counted = {} /\ Getting = {} /\ pool_life = "live"
  BY <1>1 DEF PoolLife
<1>3. /\ pc'[t] = IF buf[t] = Null THEN "idle" ELSE "free_struct"
      /\ \A u \in Threads \ {t} : pc'[u] = pc[u]
      /\ buf' = buf /\ avbuf' = avbuf
  BY <1>1, GotoMoves DEF Labels, locals
<1>4. Getting' = Getting
  BY <1>1, <1>3 DEF Getting
<1>5. Counted' = Counted
  BY <1>1, <1>3, Constants, CountedKept
<1>6. PoolCount'
  BY <1>1, <1>4, <1>5 DEF PoolCount
<1>7. \A u \in Threads : pc'[u] # "free_pool"
  BY <1>1, <1>3 DEF PoolLife
<1>8. PoolLife'
  BY <1>1, <1>2, <1>4, <1>5, <1>7 DEF PoolLife
<1> QED BY <1>2, <1>6, <1>8

\* Every step keeps CountInv.
LEMMA NextCountInv ==
  ASSUME CountInv, [Next]_vars
  PROVE  CountInv'
<1>1. RefInv'
  BY NextRefInv DEF CountInv
<1>2. ASSUME NEW t \in Threads, Call(t)  PROVE PoolCount' /\ PoolLife'
  BY <1>2, CallsUnseen, UnrefUnseen, StepsUnseen, PoolGetCounts, UninitCounts DEF Call
<1>3. ASSUME NEW t \in Threads, Step(t)  PROVE PoolCount' /\ PoolLife'
  BY <1>3, FreesUnseen, StepsUnseen, UnrefUnseen, GetReturnsCounts, ReleaseUnseen,
     DropPoolCounts, PoolFreeCounts DEF Step
<1>4. CASE UNCHANGED vars
  <2>1. UNCHANGED <<pool_life, pool_ref, pool_refcount, pool_list, pc, buf, avbuf>>
    BY <1>4 DEF vars, poolVars, locals
  <2>2. Getting' = Getting /\ Counted' = Counted
    BY <2>1 DEF Getting, Counted
  <2>3. PoolCount'
    BY <2>1, <2>2 DEF CountInv, PoolCount, One
  <2>4. PoolLife'
    BY <2>1, <2>2 DEF CountInv, PoolLife
  <2> QED BY <1>1, <2>3, <2>4 DEF CountInv
<1> QED BY <1>1, <1>2, <1>3, <1>4, PoolInitCounts DEF Next, CountInv

\* CountInv is inductive, for any finite sets of threads, references and
\* buffers and any behaviour of the pool's alloc callback.
THEOREM CountsInductive == Spec => []CountInv
<1>1. Init => CountInv
  BY InitRefInv, InitPool DEF CountInv
<1>2. CountInv /\ [Next]_vars => CountInv'
  BY NextCountInv
<1> QED BY <1>1, <1>2, PTL DEF Spec

\* RefcountExact for all constants: the count of a buffer is the number of
\* references to it, and a buffer that has none is freed by one thread
\* (buffer.c:107-123).
THEOREM RefcountsAreExact == Spec => []RefcountExact
<1>1. ASSUME CountInv  PROVE RefcountExact
  <2>1. Types /\ Refcounts /\ FreedOnce
    BY <1>1 DEF CountInv, RefInv
  <2>2. ASSUME NEW b \in Bufs
        PROVE  avbuf[b] # NoBuf /\ avbuf[b].refcount = 0 <=> Cardinality(Freeing(b)) = 1
    <3>1. IsFiniteSet(Freeing(b))
      <4>1. Freeing(b) \in SUBSET Threads
        BY DEF Freeing
      <4> QED BY <4>1, Constants, FS_Subset
    <3>2. \A t, u \in Freeing(b) : t = u
      BY <2>1, <2>2, Constants DEF FreedOnce, Freeing
    <3>3. avbuf[b] # NoBuf /\ avbuf[b].refcount = 0 <=> Freeing(b) # {}
      BY <2>1, <2>2, BufFields, Constants DEF FreedOnce, Freeing
    <3>4. Freeing(b) = {} \/ \E t : Freeing(b) = {t}
      BY <3>2
    <3>5. Freeing(b) # {} => Cardinality(Freeing(b)) = 1
      BY <3>4, FS_Singleton
    <3>6. Freeing(b) = {} => Cardinality(Freeing(b)) = 0
      BY FS_EmptySet
    <3> QED BY <3>3, <3>5, <3>6
  <2> QED BY <2>1, <2>2 DEF RefcountExact, Refcounts, RefsTo, CopiesOf
<1> QED BY <1>1, CountsInductive, PTL

\* PoolCountExact for all constants: the pool's count is the caller's pointer
\* and the buffers that are out, but for those that a pool_get under way has
\* not counted yet (buffer_internal.h:80-88).
THEOREM PoolCountsAreExact == Spec => []PoolCountExact
<1>1. ASSUME CountInv  PROVE PoolCountExact
  <2>1. Counted = {b \in Bufs : /\ avbuf[b].entry # Null
                                /\ \A t \in Freeing(b) :
                                      pc[t] \notin {"free_pool", "free_struct"}}
    BY DEF Counted, Freeing
  <2> QED BY <1>1, <2>1 DEF CountInv, PoolCount, PoolCountExact, Getting, One
<1> QED BY <1>1, CountsInductive, PTL

\* PoolAliveWhileNeeded for all constants: the pool is not freed while its
\* caller, a call under way or a buffer that will come back may use it, and
\* one thread frees it (buffer.c:256, 271, 302).
THEOREM PoolOutlivesItsBuffers == Spec => []PoolAliveWhileNeeded
<1>1. ASSUME CountInv  PROVE PoolAliveWhileNeeded
  <2>1. Types /\ FreedOnce /\ PoolLife /\ \A t \in Threads : CallState(t)
    BY <1>1 DEF CountInv, RefInv
  <2>2. ASSUME NEW t \in Threads, pc[t] \in {"get", "release", "drop_pool", "free_pool"}
        PROVE  pool_life = "live"
    <3>1. CASE pc[t] \in {"get", "free_pool"}
      BY <2>1, <2>2, <3>1 DEF PoolLife, Getting
    <3>2. CASE pc[t] \in {"release", "drop_pool"}
      <4>1. CallState(t)
        BY <2>1
      <4>2. PICK b \in Bufs : b = buf[t] /\ b # Null
        BY <2>1, <3>2, <4>1 DEF CallState, FreeingLabels, Types
      <4>3. b \in Counted
        BY <2>1, <3>2, <4>1, <4>2 DEF CallState, Counted, FreedOnce
      <4> QED BY <2>1, <4>3 DEF PoolLife
    <3> QED BY <2>2, <3>1, <3>2
  <2>3. ASSUME NEW b \in Holding, avbuf[b].entry # Null  PROVE pool_life = "live"
    <3>1. b \in Counted
      BY <2>3 DEF Holding, Counted, Freeing
    <3> QED BY <2>1, <3>1 DEF PoolLife
  <2>4. Cardinality({t \in Threads : pc[t] = "free_pool"}) <= 1
    <3> DEFINE L == {t \in Threads : pc[t] = "free_pool"}
    <3>1. \A t, u \in L : t = u
      BY <2>1 DEF PoolLife
    <3>2. L = {} \/ \E t : L = {t}
      BY <3>1
    <3>3. L = {} => Cardinality(L) = 0
      BY FS_EmptySet
    <3>4. ASSUME NEW t, L = {t}  PROVE Cardinality(L) = 1
      BY <3>4, FS_Singleton
    <3> QED BY <3>2, <3>3, <3>4
  <2> QED BY <2>1, <2>2, <2>3, <2>4 DEF PoolAliveWhileNeeded, PoolLife
<1> QED BY <1>1, CountsInductive, PTL

\* TypeOK for all constants; no count passes the number of its references.
THEOREM TypeCorrect == Spec => []TypeOK
<1>1. ASSUME CountInv  PROVE TypeOK
  <2>1. Types /\ Refcounts /\ PoolCount /\ RefInv
    BY <1>1 DEF CountInv, RefInv
  <2>2. /\ Cardinality(Refs) \in Nat /\ Cardinality(Threads) \in Nat
        /\ Cardinality(Bufs) \in Nat
    BY Constants, FS_CardinalityType
  <2>3. ASSUME NEW b \in Bufs  PROVE avbuf[b] \in AVBuffers
    <3>1. avbuf[b].refcount \in 0 .. Cardinality(Refs) + Cardinality(Threads)
      BY <2>1, <2>2, Counting DEF Refcounts
    <3>2. avbuf[b] \in BufferShapes
      BY <2>1 DEF Types
    <3> QED BY <3>1, <3>2 DEF BufferShapes, AVBuffers
  <2>4. pool_refcount \in 0 .. Cardinality(Bufs) + 1
    <3>1. Cardinality(Getting) <= Cardinality(Counted)
      BY <2>1, GettersHaveBuffers
    <3> QED BY <2>1, <2>2, <3>1, Counting DEF PoolCount, One, Types
  <2>5. avbuf \in [Bufs -> AVBuffers]
    BY <2>1, <2>3 DEF Types
  <2> QED BY <2>1, <2>4, <2>5 DEF Types, TypeOK
<1> QED BY <1>1, CountsInductive, PTL
-----------------------------------------------------------------------------
(* Who owns the data, when the pool's buffers cannot be reallocated.        *)

\* What a step does to one thread decides what it does to Holds.
LEMMA HoldsKept ==
  ASSUME NEW t \in Threads,
         \A u \in Threads \ {t} : pc'[u] = pc[u] /\ buf'[u] = buf[u],
         NEW b \in Bufs,
         avbuf'[b].data = Null <=> avbuf[b].data = Null,
         (buf'[t] = b /\ pc'[t] \notin {"free", "release"})
            <=> (buf[t] = b /\ pc[t] \notin {"free", "release"})
  PROVE  Holds(b)' <=> Holds(b)
<1>1. \A u \in Threads : (buf'[u] = b => pc'[u] \in {"free", "release"})
                           <=> (buf[u] = b => pc[u] \in {"free", "release"})
  OBVIOUS
<1> QED BY <1>1 DEF Holds

\* A buffer that is counted, or referred to, is not being freed.
LEMMA LiveHolds ==
  ASSUME RefInv, NEW b \in Bufs, avbuf[b].refcount >= 1
  PROVE  Holds(b) /\ \A t \in Threads : buf[t] # b
<1>1. Types /\ FreedOnce
  BY DEF RefInv
<1>2. avbuf[b].data # Null
  BY <1>1, BufFields
<1>3. ASSUME NEW t \in Threads, buf[t] = b  PROVE FALSE
  BY <1>1, <1>3, Constants DEF FreedOnce
<1> QED BY <1>2, <1>3 DEF Holds

\* A buffer that is referred to owns its data.
LEMMA ReferredHolds ==
  ASSUME RefInv, NEW r \in Refs, ref[r] # NoRef
  PROVE  /\ ref[r].buffer \in Bufs /\ Holds(ref[r].buffer)
         /\ avbuf[ref[r].buffer].refcount >= 1
<1>1. Types /\ Refcounts
  BY DEF RefInv
<1>2. ref[r].buffer \in Bufs
  BY <1>1 DEF Types, AVBufferRefs
<1>3. avbuf[ref[r].buffer].refcount >= 1
  BY <1>1, <1>2, Referred
<1> QED BY <1>2, <1>3, LiveHolds

\* Nothing changes hands.
LEMMA OwnersSame ==
  ASSUME Ownership, UNCHANGED <<mem, pool_list>>,
         \A b \in Bufs : Holds(b)' <=> Holds(b),
         \A b \in Bufs : Holds(b) => avbuf'[b].data = avbuf[b].data
  PROVE  Ownership'
<1>1. \A b, c \in Bufs :
         Holds(b)' /\ Holds(c)' /\ avbuf'[b].data = avbuf'[c].data => b = c
  BY DEF Ownership
<1>2. \A b \in Bufs, k \in DOMAIN pool_list' : Holds(b)' => avbuf'[b].data # pool_list'[k]
  BY DEF Ownership
<1>3. \A b \in Bufs : Holds(b)' => avbuf'[b].data \in mem'
  BY DEF Ownership
<1>4. \A d \in mem' : \/ \E b \in Bufs : Holds(b)' /\ avbuf'[b].data = d
                      \/ \E k \in DOMAIN pool_list' : pool_list'[k] = d
  BY DEF Ownership
<1>5. /\ \A j, k \in DOMAIN pool_list' : pool_list'[j] = pool_list'[k] => j = k
      /\ \A k \in DOMAIN pool_list' : pool_list'[k] \in mem'
  BY DEF Ownership
<1> QED BY <1>1, <1>2, <1>3, <1>4, <1>5 DEF Ownership

\* A buffer gets data just allocated, in place of the data it had if any.
LEMMA OwnerGetsNew ==
  ASSUME Ownership, NEW b \in Bufs, NEW d, d \notin mem, UNCHANGED pool_list,
         mem' = {e \in mem : ~(Holds(b) /\ e = avbuf[b].data)} \union {d},
         Holds(b)', avbuf'[b].data = d,
         \A c \in Bufs \ {b} : (Holds(c)' <=> Holds(c)) /\ avbuf'[c].data = avbuf[c].data
  PROVE  Ownership'
<1>1. ASSUME NEW c \in Bufs, c # b, Holds(c)'
      PROVE  avbuf'[c].data \in mem' /\ avbuf'[c].data # d /\ Holds(c)
             /\ avbuf'[c].data = avbuf[c].data
  <2>1. Holds(c) /\ avbuf'[c].data = avbuf[c].data
    BY <1>1
  <2>2. avbuf[c].data \in mem
    BY <2>1 DEF Ownership
  <2>3. ~(Holds(b) /\ avbuf[c].data = avbuf[b].data)
    BY <1>1, <2>1 DEF Ownership
  <2> QED BY <2>1, <2>2, <2>3
<1>2. ASSUME NEW k \in DOMAIN pool_list
      PROVE  pool_list[k] \in mem' /\ pool_list[k] # d
  BY DEF Ownership
<1>3. \A a, c \in Bufs :
         Holds(a)' /\ Holds(c)' /\ avbuf'[a].data = avbuf'[c].data => a = c
  <2> TAKE a, c \in Bufs
  <2> HAVE Holds(a)' /\ Holds(c)' /\ avbuf'[a].data = avbuf'[c].data
  <2>1. CASE a = b \/ c = b
    BY <1>1, <2>1
  <2>2. CASE a # b /\ c # b
    <3>1. Holds(a) /\ Holds(c) /\ avbuf[a].data = avbuf[c].data
      BY <1>1, <2>2
    <3> QED BY <3>1 DEF Ownership
  <2> QED BY <2>1, <2>2
<1>4. \A c \in Bufs, k \in DOMAIN pool_list' : Holds(c)' => avbuf'[c].data # pool_list'[k]
  BY <1>1, <1>2 DEF Ownership
<1>5. \A c \in Bufs : Holds(c)' => avbuf'[c].data \in mem'
  BY <1>1
<1>6. ASSUME NEW e \in mem'
      PROVE  \/ \E c \in Bufs : Holds(c)' /\ avbuf'[c].data = e
             \/ \E k \in DOMAIN pool_list' : pool_list'[k] = e
  <2>1. CASE e = d
    BY <2>1
  <2>2. CASE e # d
    <3>1. e \in mem /\ ~(Holds(b) /\ e = avbuf[b].data)
      BY <2>2
    <3>2. \/ \E c \in Bufs : Holds(c) /\ avbuf[c].data = e
          \/ \E k \in DOMAIN pool_list : pool_list[k] = e
      BY <3>1 DEF Ownership
    <3> QED BY <3>1, <3>2
  <2> QED BY <2>1, <2>2
<1>7. /\ \A j, k \in DOMAIN pool_list' : pool_list'[j] = pool_list'[k] => j = k
      /\ \A k \in DOMAIN pool_list' : pool_list'[k] \in mem'
  BY <1>2 DEF Ownership
<1> QED BY <1>3, <1>4, <1>5, <1>6, <1>7 DEF Ownership

\* A buffer's data is freed.
LEMMA OwnerFrees ==
  ASSUME Ownership, NEW b \in Bufs, Holds(b), ~Holds(b)', UNCHANGED pool_list,
         mem' = mem \ {avbuf[b].data},
         \A c \in Bufs \ {b} : (Holds(c)' <=> Holds(c)) /\ avbuf'[c].data = avbuf[c].data
  PROVE  Ownership'
<1>1. ASSUME NEW c \in Bufs, Holds(c)'
      PROVE  c # b /\ Holds(c) /\ avbuf'[c].data = avbuf[c].data /\ avbuf'[c].data \in mem'
  BY <1>1 DEF Ownership
<1>2. \A a, c \in Bufs :
         Holds(a)' /\ Holds(c)' /\ avbuf'[a].data = avbuf'[c].data => a = c
  BY <1>1 DEF Ownership
<1>3. \A c \in Bufs, k \in DOMAIN pool_list' : Holds(c)' => avbuf'[c].data # pool_list'[k]
  BY <1>1 DEF Ownership
<1>4. ASSUME NEW e \in mem'
      PROVE  \/ \E c \in Bufs : Holds(c)' /\ avbuf'[c].data = e
             \/ \E k \in DOMAIN pool_list' : pool_list'[k] = e
  <2>1. e \in mem /\ e # avbuf[b].data
    OBVIOUS
  <2>2. \/ \E c \in Bufs : Holds(c) /\ avbuf[c].data = e
        \/ \E k \in DOMAIN pool_list : pool_list[k] = e
    BY <2>1 DEF Ownership
  <2> QED BY <2>1, <2>2
<1>5. /\ \A j, k \in DOMAIN pool_list' : pool_list'[j] = pool_list'[k] => j = k
      /\ \A k \in DOMAIN pool_list' : pool_list'[k] \in mem'
  BY DEF Ownership
<1> QED BY <1>1, <1>2, <1>3, <1>4, <1>5 DEF Ownership

\* A buffer's data becomes the first of the pool's list.
LEMMA OwnerReturns ==
  ASSUME Ownership, NEW b \in Bufs, Holds(b), ~Holds(b)', UNCHANGED mem,
         avbuf[b].data \in Data, pool_list \in Seq(Data),
         pool_list' = <<avbuf[b].data>> \o pool_list,
         \A c \in Bufs \ {b} : (Holds(c)' <=> Holds(c)) /\ avbuf'[c].data = avbuf[c].data
  PROVE  Ownership'
<1>0. PICK d \in Data : d = avbuf[b].data
  OBVIOUS
<1>1. /\ DOMAIN pool_list' = 1 .. Len(pool_list) + 1 /\ pool_list'[1] = d
      /\ \A k \in 2 .. Len(pool_list) + 1 :
            k - 1 \in DOMAIN pool_list /\ pool_list'[k] = pool_list[k - 1]
      /\ DOMAIN pool_list = 1 .. Len(pool_list) /\ Len(pool_list) \in Nat
  BY <1>0
<1>2. ASSUME NEW c \in Bufs, Holds(c)'
      PROVE  /\ c # b /\ Holds(c) /\ avbuf'[c].data = avbuf[c].data
             /\ avbuf'[c].data \in mem /\ avbuf'[c].data # d
  BY <1>0, <1>2 DEF Ownership
<1>3. \A k \in DOMAIN pool_list : pool_list[k] # d /\ pool_list[k] \in mem
  BY <1>0 DEF Ownership
<1>4. \A j, k \in DOMAIN pool_list' : pool_list'[j] = pool_list'[k] => j = k
  <2> TAKE j, k \in DOMAIN pool_list'
  <2> HAVE pool_list'[j] = pool_list'[k]
  <2>1. CASE j = 1 \/ k = 1
    BY <1>1, <1>3, <2>1
  <2>2. CASE j # 1 /\ k # 1
    <3>1. j - 1 \in DOMAIN pool_list /\ k - 1 \in DOMAIN pool_list
          /\ pool_list[j - 1] = pool_list[k - 1] /\ j \in Int /\ k \in Int
      BY <1>1, <2>2
    <3>2. j - 1 = k - 1
      BY <3>1 DEF Ownership
    <3> QED BY <3>1, <3>2
  <2> QED BY <2>1, <2>2
<1>5. ASSUME NEW k \in DOMAIN pool_list'
      PROVE  pool_list'[k] \in mem' /\ \A c \in Bufs : Holds(c)' => avbuf'[c].data # pool_list'[k]
  <2>1. CASE k = 1
    BY <1>0, <1>1, <1>2, <2>1 DEF Ownership
  <2>2. CASE k # 1
    <3>1. k - 1 \in DOMAIN pool_list /\ pool_list'[k] = pool_list[k - 1]
      BY <1>1, <2>2
    <3> QED BY <1>2, <1>3, <3>1 DEF Ownership
  <2> QED BY <2>1, <2>2
<1>6. ASSUME NEW e \in mem'
      PROVE  \/ \E c \in Bufs : Holds(c)' /\ avbuf'[c].data = e
             \/ \E k \in DOMAIN pool_list' : pool_list'[k] = e
  <2>1. CASE e = d
    BY <1>1, <2>1
  <2>2. ASSUME NEW c \in Bufs, Holds(c), avbuf[c].data = e, e # d
        PROVE  \E a \in Bufs : Holds(a)' /\ avbuf'[a].data = e
    BY <1>0, <2>2
  <2>3. ASSUME NEW k \in DOMAIN pool_list, pool_list[k] = e
        PROVE  \E j \in DOMAIN pool_list' : pool_list'[j] = e
    <3>1. k + 1 \in DOMAIN pool_list' /\ pool_list'[k + 1] = e
      BY <1>1, <2>3
    <3> QED BY <3>1
  <2> QED BY <2>1, <2>2, <2>3 DEF Ownership
<1>7. \A a, c \in Bufs :
         Holds(a)' /\ Holds(c)' /\ avbuf'[a].data = avbuf'[c].data => a = c
  BY <1>2 DEF Ownership
<1> QED BY <1>2, <1>4, <1>5, <1>6, <1>7 DEF Ownership

\* The first of the pool's list becomes a buffer's data.
LEMMA OwnerReuses ==
  ASSUME Ownership, NEW b \in Bufs, ~Holds(b), Holds(b)', UNCHANGED mem,
         pool_list \in Seq(Data), pool_list # <<>>,
         avbuf'[b].data = Head(pool_list), pool_list' = Tail(pool_list),
         \A c \in Bufs \ {b} : (Holds(c)' <=> Holds(c)) /\ avbuf'[c].data = avbuf[c].data
  PROVE  Ownership'
<1>1. /\ DOMAIN pool_list = 1 .. Len(pool_list) /\ Len(pool_list) \in Nat
      /\ 1 \in DOMAIN pool_list /\ avbuf'[b].data = pool_list[1]
      /\ DOMAIN pool_list' = 1 .. Len(pool_list) - 1
      /\ \A k \in DOMAIN pool_list' :
            k + 1 \in DOMAIN pool_list /\ pool_list'[k] = pool_list[k + 1]
  OBVIOUS
<1>2. ASSUME NEW c \in Bufs, c # b, Holds(c)'
      PROVE  /\ Holds(c) /\ avbuf'[c].data = avbuf[c].data
             /\ avbuf'[c].data \in mem /\ avbuf'[c].data # pool_list[1]
  BY <1>1, <1>2 DEF Ownership
<1>3. \A j, k \in DOMAIN pool_list' : pool_list'[j] = pool_list'[k] => j = k
  <2> TAKE j, k \in DOMAIN pool_list'
  <2> HAVE pool_list'[j] = pool_list'[k]
  <2>1. j + 1 \in DOMAIN pool_list /\ k + 1 \in DOMAIN pool_list
        /\ pool_list[j + 1] = pool_list[k + 1] /\ j \in Int /\ k \in Int
    BY <1>1
  <2>2. j + 1 = k + 1
    BY <2>1 DEF Ownership
  <2> QED BY <2>1, <2>2
<1>4. ASSUME NEW k \in DOMAIN pool_list'
      PROVE  pool_list'[k] \in mem' /\ \A c \in Bufs : Holds(c)' => avbuf'[c].data # pool_list'[k]
  <2>1. k + 1 \in DOMAIN pool_list /\ pool_list'[k] = pool_list[k + 1] /\ k + 1 # 1
    BY <1>1
  <2>2. pool_list[k + 1] # pool_list[1] /\ pool_list[k + 1] \in mem
    BY <1>1, <2>1 DEF Ownership
  <2> QED BY <1>1, <1>2, <2>1, <2>2 DEF Ownership
<1>5. pool_list[1] \in mem
  BY <1>1 DEF Ownership
<1>6. ASSUME NEW e \in mem'
      PROVE  \/ \E c \in Bufs : Holds(c)' /\ avbuf'[c].data = e
             \/ \E k \in DOMAIN pool_list' : pool_list'[k] = e
  <2>1. ASSUME NEW c \in Bufs, Holds(c), avbuf[c].data = e
        PROVE  \E a \in Bufs : Holds(a)' /\ avbuf'[a].data = e
    BY <2>1
  <2>2. CASE e = pool_list[1]
    BY <1>1, <2>2
  <2>3. ASSUME NEW k \in DOMAIN pool_list, pool_list[k] = e, k # 1
        PROVE  \E j \in DOMAIN pool_list' : pool_list'[j] = e
    <3>1. k - 1 \in DOMAIN pool_list' /\ pool_list'[k - 1] = e
      BY <1>1, <2>3
    <3> QED BY <3>1
  <2> QED BY <2>1, <2>2, <2>3 DEF Ownership
<1>7. \A a, c \in Bufs :
         Holds(a)' /\ Holds(c)' /\ avbuf'[a].data = avbuf'[c].data => a = c
  BY <1>1, <1>2 DEF Ownership
<1> QED BY <1>1, <1>2, <1>3, <1>4, <1>5, <1>6, <1>7 DEF Ownership

\* The pool's list is freed.
LEMMA ListFreed ==
  ASSUME Ownership, pool_list' = <<>>,
         mem' = mem \ {pool_list[k] : k \in DOMAIN pool_list},
         \A b \in Bufs : (Holds(b)' <=> Holds(b)) /\ avbuf'[b].data = avbuf[b].data
  PROVE  Ownership'
<1>1. DOMAIN pool_list' = {}
  OBVIOUS
<1>2. ASSUME NEW c \in Bufs, Holds(c)'
      PROVE  Holds(c) /\ avbuf'[c].data = avbuf[c].data /\ avbuf'[c].data \in mem'
  BY <1>2 DEF Ownership
<1>3. ASSUME NEW e \in mem'
      PROVE  \E c \in Bufs : Holds(c)' /\ avbuf'[c].data = e
  BY <1>3 DEF Ownership
<1>4. \A a, c \in Bufs :
         Holds(a)' /\ Holds(c)' /\ avbuf'[a].data = avbuf'[c].data => a = c
  BY <1>2 DEF Ownership
<1> QED BY <1>1, <1>2, <1>3, <1>4 DEF Ownership

\* A step that leaves buffers and references alone.
LEMMA QuietOwners ==
  ASSUME CountInv, DataInv, UNCHANGED <<mem, avbuf, ref, pool_list, buf>>,
         NEW t \in Threads, \A u \in Threads \ {t} : pc'[u] = pc[u],
         buf[t] = Null \/ {pc[t], pc'[t]} \cap {"free", "release"} = {}
  PROVE  DataInv'
<1>1. ASSUME NEW b \in Bufs  PROVE Holds(b)' <=> Holds(b)
  <2>1. (buf'[t] = b /\ pc'[t] \notin {"free", "release"})
            <=> (buf[t] = b /\ pc[t] \notin {"free", "release"})
    BY Constants
  <2> QED BY <2>1, HoldsKept
<1>2. Ownership'
  BY <1>1, OwnersSame DEF DataInv
<1> QED BY <1>2 DEF DataInv, EntriesFixed, RefsAgree

\* Steps of a call that are not seen by the owners of data.
LEMMA CallsKeepData ==
  ASSUME CountInv, DataInv, NEW t \in Threads,
         \/ CopyFails(t) \/ Written(t) \/ PoolGetReturns(t)
         \/ DropPool(t) \/ PoolUninit(t)
         \/ \E r \in Refs : MakeWritable(t, r) \/ ReallocByCopy(t, r)
  PROVE  DataInv'
<1>1. RefInv /\ Types /\ CallState(t)
  BY DEF CountInv, RefInv
<1>2. UNCHANGED <<mem, avbuf, ref, pool_list, buf>>
  BY DEF CopyFails, Written, PoolGetReturns, DropPool, PoolUninit, MakeWritable,
         ReallocByCopy, poolVars, locals
<1>3. pc' \in [Threads -> Labels] /\ \A u \in Threads \ {t} : pc'[u] = pc[u]
  BY <1>1 DEF CopyFails, Written, PoolGetReturns, DropPool, PoolUninit, MakeWritable,
         ReallocByCopy, Goto, Types, Labels
<1>4. CASE DropPool(t)
  <2>1. pc[t] = "drop_pool" /\ pc'[t] \in {"free_pool", "free_struct"}
    BY <1>1, <1>4 DEF DropPool, Goto, Types
  <2> QED BY <1>2, <1>3, <2>1, QuietOwners
<1>5. CASE ~DropPool(t)
  <2>1. pc[t] \in {"idle", "copy", "recopy", "write", "get"}
    BY <1>5 DEF CopyFails, Written, PoolGetReturns, PoolUninit, MakeWritable, ReallocByCopy
  <2>2. buf[t] = Null
    BY <1>1, <2>1 DEF CallState, FreeingLabels
  <2> QED BY <1>2, <1>3, <2>2, QuietOwners
<1> QED BY <1>4, <1>5

\* A buffer is made on data just allocated, by a thread that frees none.
LEMMA BirthOfData ==
  ASSUME CountInv, DataInv, NEW t \in Threads, buf[t] = Null,
         UNCHANGED <<pool_list, buf>>, \A u \in Threads \ {t} : pc'[u] = pc[u],
         NEW b \in FreeBufs, NEW d \in FreeData, mem' = mem \union {d},
         NEW e \in {Null, d}, NEW ro \in BOOLEAN, NEW re \in BOOLEAN, e # Null => ~re,
         avbuf' = [avbuf EXCEPT ![b] = NewBuf(d, e, ro, re)],
         \A r \in Refs : ref'[r] = ref[r] \/ (ref'[r].buffer = b /\ ref'[r].data = d)
  PROVE  DataInv'
<1>1. /\ Types /\ RefInv /\ FreedOnce /\ b \in Bufs /\ avbuf[b].data = Null
      /\ d \in Data /\ d # Null /\ d \notin mem
  BY Constants DEF CountInv, RefInv, FreeBufs, FreeData, NoBuf
<1>2. /\ avbuf'[b].data = d /\ avbuf'[b].entry = e /\ avbuf'[b].reallocatable = re
      /\ \A c \in Bufs : c # b => avbuf'[c] = avbuf[c]
  BY <1>1 DEF Types, NewBuf
<1>3. ~Holds(b) /\ Holds(b)'
  <2>1. \A u \in Threads : buf'[u] # b
    BY <1>1, Constants DEF FreedOnce
  <2> QED BY <1>1, <1>2, <2>1 DEF Holds
<1>4. \A c \in Bufs \ {b} : (Holds(c)' <=> Holds(c)) /\ avbuf'[c].data = avbuf[c].data
  <2> TAKE c \in Bufs \ {b}
  <2>1. avbuf'[c].data = avbuf[c].data /\ buf'[t] # c /\ buf[t] # c
    BY <1>2, Constants
  <2> QED BY <2>1, HoldsKept
<1>5. mem' = {x \in mem : ~(Holds(b) /\ x = avbuf[b].data)} \union {d}
  BY <1>3
<1>6. Ownership'
  BY <1>1, <1>2, <1>3, <1>4, <1>5, OwnerGetsNew DEF DataInv
<1>7. EntriesFixed'
  BY <1>2 DEF DataInv, EntriesFixed
<1>8. RefsAgree'
  <2>1. ASSUME NEW r \in Refs, ref'[r] # NoRef
        PROVE  ref'[r].data = avbuf'[ref'[r].buffer].data
    <3>1. CASE ref'[r] = ref[r]
      <4>1. ref[r].buffer \in Bufs /\ Holds(ref[r].buffer)
        BY <1>1, <2>1, <3>1, ReferredHolds
      <4>2. ref[r].buffer # b
        BY <1>3, <4>1
      <4> QED BY <1>2, <2>1, <3>1, <4>1, <4>2 DEF DataInv, RefsAgree
    <3>2. CASE ref'[r].buffer = b /\ ref'[r].data = d
      BY <1>2, <3>2
    <3> QED BY <3>1, <3>2
  <2> QED BY <2>1 DEF RefsAgree
<1> QED BY <1>6, <1>7, <1>8 DEF DataInv

\* Create, CopyBuffer and PoolAlloc make buffers.
LEMMA BirthsKeepData ==
  ASSUME CountInv, DataInv, ~PoolAllocReallocatable, NEW t \in Threads,
         \/ \E ro, re \in BOOLEAN : Create(t, ro, re)
         \/ CopyBuffer(t)
         \/ \E re \in BOOLEAN : PoolAlloc(t, re)
  PROVE  DataInv'
<1>1. RefInv /\ Types /\ CallState(t)
  BY DEF CountInv, RefInv
<1>2. pc[t] \in {"idle", "copy", "recopy"}
  BY DEF Create, CopyBuffer, PoolAlloc
<1>3. buf[t] = Null
  BY <1>1, <1>2 DEF CallState, FreeingLabels
<1>4. UNCHANGED <<pool_list, buf>> /\ \A u \in Threads \ {t} : pc'[u] = pc[u]
  BY <1>1 DEF Create, CopyBuffer, PoolAlloc, poolVars, locals, Goto, Types
<1>5. ASSUME NEW ro \in BOOLEAN, NEW re \in BOOLEAN, Create(t, ro, re)  PROVE DataInv'
  <2>1. PICK r \in FreeRefs, b \in FreeBufs, d \in FreeData :
          /\ mem' = mem \union {d}
          /\ avbuf' = [avbuf EXCEPT ![b] = NewBuf(d, Null, ro, re)]
          /\ ref' = [ref EXCEPT ![r] = NewRef(t, b, d)]
    BY <1>5 DEF Create
  <2>2. \A q \in Refs : ref'[q] = ref[q] \/ (ref'[q].buffer = b /\ ref'[q].data = d)
    BY <1>1, <2>1 DEF Types, NewRef
  <2> QED BY <1>3, <1>4, <2>1, <2>2, BirthOfData
<1>6. CASE CopyBuffer(t)
  <2>1. PICK b \in FreeBufs, d \in FreeData :
          /\ mem' = mem \union {d}
          /\ avbuf' = [avbuf EXCEPT ![b] = NewBuf(d, Null, FALSE, pc[t] = "recopy")]
    BY <1>6 DEF CopyBuffer
  <2>2. PICK re \in BOOLEAN : re = (pc[t] = "recopy")
    OBVIOUS
  <2>3. avbuf' = [avbuf EXCEPT ![b] = NewBuf(d, Null, FALSE, re)]
    BY <2>1, <2>2
  <2>4. ref' = ref
    BY <1>6 DEF CopyBuffer
  <2> QED BY <1>3, <1>4, <2>1, <2>3, <2>4, BirthOfData
<1>7. ASSUME NEW re \in BOOLEAN, PoolAlloc(t, re)  PROVE DataInv'
  <2>1. PICK r \in FreeRefs, b \in FreeBufs, d \in FreeData :
          /\ mem' = mem \union {d}
          /\ avbuf' = [avbuf EXCEPT ![b] = NewBuf(d, d, FALSE, re)]
          /\ ref' = [ref EXCEPT ![r] = NewRef(t, b, d)]
    BY <1>7 DEF PoolAlloc
  <2>2. \A q \in Refs : ref'[q] = ref[q] \/ (ref'[q].buffer = b /\ ref'[q].data = d)
    BY <1>1, <2>1 DEF Types, NewRef
  <2>3. ~re
    BY <1>7 DEF PoolAlloc
  <2> QED BY <1>3, <1>4, <2>1, <2>2, <2>3, BirthOfData
<1> QED BY <1>5, <1>6, <1>7

\* The pool's first entry becomes a buffer.
LEMMA ReuseKeepsData ==
  ASSUME CountInv, DataInv, NEW t \in Threads, PoolReuse(t)
  PROVE  DataInv'
<1>1. /\ RefInv /\ Types /\ CallState(t) /\ FreedOnce
      /\ pc[t] = "idle" /\ pool_list # <<>> /\ pool_list \in Seq(Data)
      /\ pool_list' = Tail(pool_list) /\ UNCHANGED <<mem, buf>>
  BY DEF CountInv, RefInv, PoolReuse, locals, Types
<1>2. PICK d \in Data : d = Head(pool_list)
  BY <1>1
<1>3. PICK r \in FreeRefs, b \in FreeBufs :
         /\ avbuf' = [avbuf EXCEPT ![b] = NewBuf(d, d, FALSE, FALSE)]
         /\ ref' = [ref EXCEPT ![r] = NewRef(t, b, d)]
  BY <1>2 DEF PoolReuse
<1>4. b \in Bufs /\ avbuf[b].data = Null /\ d # Null /\ buf[t] = Null
      /\ \A u \in Threads \ {t} : pc'[u] = pc[u]
  BY <1>1, Constants DEF FreeBufs, NoBuf, CallState, FreeingLabels, PoolReuse, Goto, Types
<1>5. /\ avbuf'[b].data = d /\ avbuf'[b].entry = d /\ avbuf'[b].reallocatable = FALSE
      /\ \A c \in Bufs : c # b => avbuf'[c] = avbuf[c]
  BY <1>1, <1>3, <1>4 DEF Types, NewBuf
<1>6. ~Holds(b) /\ Holds(b)'
  <2>1. \A u \in Threads : buf'[u] # b
    BY <1>1, <1>4, Constants DEF FreedOnce
  <2> QED BY <1>4, <1>5, <2>1 DEF Holds
<1>7. \A c \in Bufs \ {b} : (Holds(c)' <=> Holds(c)) /\ avbuf'[c].data = avbuf[c].data
  <2> TAKE c \in Bufs \ {b}
  <2>1. avbuf'[c].data = avbuf[c].data /\ buf'[t] # c /\ buf[t] # c
    BY <1>1, <1>4, <1>5, Constants
  <2> QED BY <1>1, <1>4, <2>1, HoldsKept
<1>8. Ownership'
  BY <1>1, <1>2, <1>4, <1>5, <1>6, <1>7, OwnerReuses DEF DataInv
<1>9. EntriesFixed'
  BY <1>5 DEF DataInv, EntriesFixed
<1>10. RefsAgree'
  <2>1. ASSUME NEW q \in Refs, ref'[q] # NoRef
        PROVE  ref'[q].data = avbuf'[ref'[q].buffer].data
    <3>1. CASE q # r
      <4>1. ref'[q] = ref[q]
        BY <1>1, <1>3, <3>1 DEF Types
      <4>2. ref[q].buffer \in Bufs /\ Holds(ref[q].buffer)
        BY <1>1, <2>1, <4>1, ReferredHolds
      <4>3. ref[q].buffer # b
        BY <1>6, <4>2
      <4> QED BY <1>5, <2>1, <4>1, <4>2, <4>3 DEF DataInv, RefsAgree
    <3>2. CASE q = r
      BY <1>1, <1>3, <1>5, <3>2 DEF Types, NewRef, FreeRefs
    <3> QED BY <3>1, <3>2
  <2> QED BY <2>1 DEF RefsAgree
<1> QED BY <1>8, <1>9, <1>10 DEF DataInv

\* RefBuffer, MoveData and HandOver change references, not what they see.
LEMMA RefsKeepData ==
  ASSUME CountInv, DataInv, NEW t \in Threads, NEW r \in Refs,
         RefBuffer(t, r) \/ MoveData(t, r) \/ \E u \in Threads : HandOver(t, u, r)
  PROVE  DataInv'
<1>1. /\ RefInv /\ Types /\ r \in RefsOf(t)
      /\ UNCHANGED <<mem, pool_list, pc, buf>>
  BY DEF CountInv, RefInv, RefBuffer, MoveData, HandOver, poolVars, locals
<1>2. ref[r] # NoRef /\ ref[r].buffer \in Bufs /\ ref[r] \in AVBufferRefs
  BY <1>1, OwnRef DEF Types
<1>3. \A c \in Bufs : /\ avbuf'[c].data = avbuf[c].data
                      /\ avbuf'[c].entry = avbuf[c].entry
                      /\ avbuf'[c].reallocatable = avbuf[c].reallocatable
  <2>1. CASE RefBuffer(t, r)
    <3>1. PICK b \in Bufs : b = ref[r].buffer
      BY <1>2
    <3>2. avbuf' = [avbuf EXCEPT ![b].refcount = @ + 1]
      BY <2>1, <3>1 DEF RefBuffer
    <3> QED BY <1>1, <3>2 DEF Types, BufferShapes
  <2>2. CASE ~RefBuffer(t, r)
    BY <2>2 DEF MoveData, HandOver
  <2> QED BY <2>1, <2>2
<1>4. \A b \in Bufs : Holds(b)' <=> Holds(b)
  BY <1>1, <1>3 DEF Holds
<1>5. Ownership'
  BY <1>1, <1>3, <1>4, OwnersSame DEF DataInv
<1>6. EntriesFixed'
  BY <1>3 DEF DataInv, EntriesFixed
<1>7. ASSUME NEW q \in Refs, ref'[q] # NoRef
      PROVE  \E p \in Refs : /\ ref[p] # NoRef /\ ref'[q].buffer = ref[p].buffer
                             /\ ref'[q].data = ref[p].data
  <2>1. CASE RefBuffer(t, r)
    BY <1>1, <1>2, <1>7, <2>1 DEF RefBuffer, Types
  <2>2. CASE MoveData(t, r)
    <3>1. ref'[r].buffer = ref[r].buffer /\ ref'[r].data = ref[r].data
      BY <1>1, <1>2, <2>2 DEF MoveData, Types, AVBufferRefs
    <3> QED BY <1>1, <1>2, <1>7, <2>2, <3>1 DEF MoveData, Types
  <2>3. ASSUME NEW u \in Threads, HandOver(t, u, r)
        PROVE  \E p \in Refs : /\ ref[p] # NoRef /\ ref'[q].buffer = ref[p].buffer
                               /\ ref'[q].data = ref[p].data
    <3>1. ref'[r].buffer = ref[r].buffer /\ ref'[r].data = ref[r].data
      BY <1>1, <1>2, <2>3 DEF HandOver, Types, AVBufferRefs
    <3> QED BY <1>1, <1>2, <1>7, <2>3, <3>1 DEF HandOver, Types
  <2> QED BY <2>1, <2>2, <2>3
<1>8. RefsAgree'
  <2>1. ASSUME NEW q \in Refs, ref'[q] # NoRef
        PROVE  ref'[q].data = avbuf'[ref'[q].buffer].data
    <3>1. PICK p \in Refs : /\ ref[p] # NoRef /\ ref'[q].buffer = ref[p].buffer
                            /\ ref'[q].data = ref[p].data
      BY <1>7, <2>1
    <3>2. ref[p].buffer \in Bufs /\ ref[p].data = avbuf[ref[p].buffer].data
      BY <1>1, <3>1, ReferredHolds DEF DataInv, RefsAgree
    <3> QED BY <1>3, <3>1, <3>2
  <2> QED BY <2>1 DEF RefsAgree
<1> QED BY <1>5, <1>6, <1>8 DEF DataInv

\* A dropped buffer keeps its data until its free callback has run.
LEMMA DropsKeepData ==
  ASSUME CountInv, DataInv, NEW t \in Threads, NEW b \in Bufs, buf[t] = Null,
         DropBuffer(t, b), UNCHANGED <<mem, pool_list>>,
         \A q \in Refs : ref'[q] # NoRef =>
            /\ ref'[q].buffer \in Bufs
            /\ ref'[q].data = avbuf[ref'[q].buffer].data
  PROVE  DataInv'
<1>1. RefInv /\ Types
  BY DEF CountInv, RefInv
<1>2. \A c \in Bufs : /\ avbuf'[c].data = avbuf[c].data
                      /\ avbuf'[c].entry = avbuf[c].entry
                      /\ avbuf'[c].reallocatable = avbuf[c].reallocatable
  BY <1>1 DEF DropBuffer, Types, BufferShapes
<1>3. /\ \A u \in Threads \ {t} : pc'[u] = pc[u] /\ buf'[u] = buf[u]
      /\ buf'[t] = Null \/ pc'[t] = "free"
  BY <1>1 DEF DropBuffer, Goto, Types
<1>4. ASSUME NEW c \in Bufs  PROVE Holds(c)' <=> Holds(c)
  BY <1>2, <1>3, Constants, HoldsKept
<1>5. Ownership'
  BY <1>2, <1>4, OwnersSame DEF DataInv
<1>6. EntriesFixed'
  BY <1>2 DEF DataInv, EntriesFixed
<1>7. RefsAgree'
  BY <1>2 DEF RefsAgree
<1> QED BY <1>5, <1>6, <1>7 DEF DataInv

\* Unref and ReplaceBuffer drop a buffer.
LEMMA UnrefKeepsData ==
  ASSUME CountInv, DataInv, NEW t \in Threads,
         ReplaceBuffer(t) \/ \E r \in Refs : Unref(t, r)
  PROVE  DataInv'
<1>1. RefInv /\ Types /\ CallState(t)
  BY DEF CountInv, RefInv
<1>2. \A q \in Refs : ref[q] # NoRef =>
         ref[q].buffer \in Bufs /\ ref[q].data = avbuf[ref[q].buffer].data
  BY <1>1, ReferredHolds DEF DataInv, RefsAgree
<1>3. CASE ReplaceBuffer(t)
  <2>1. /\ pc[t] = "replace" /\ buf[t] = Null /\ newbuf[t] \in Bufs /\ my_ref[t] \in RefsOf(t)
        /\ DropBuffer(t, ref[my_ref[t]].buffer) /\ UNCHANGED <<mem, pool_list>>
    BY <1>1, <1>3 DEF ReplaceBuffer, CallState, FreeingLabels, RefLabels, poolVars, Types
  <2>2. PICK r \in Refs, c \in Bufs, b \in Bufs :
           r = my_ref[t] /\ c = newbuf[t] /\ b = ref[r].buffer
    BY <1>1, <2>1, OwnRef
  <2>3. ref' = [ref EXCEPT ![r] = NewRef(t, c, avbuf[c].data)]
    BY <1>3, <2>2 DEF ReplaceBuffer
  <2>4. \A q \in Refs : ref'[q] # NoRef =>
           ref'[q].buffer \in Bufs /\ ref'[q].data = avbuf[ref'[q].buffer].data
    BY <1>1, <1>2, <2>3 DEF Types, NewRef
  <2>5. DropBuffer(t, b)
    BY <2>1, <2>2
  <2> QED BY <2>1, <2>4, <2>5, DropsKeepData
<1>4. ASSUME NEW r \in Refs, Unref(t, r)  PROVE DataInv'
  <2>1. /\ pc[t] = "idle" /\ buf[t] = Null /\ r \in RefsOf(t)
        /\ DropBuffer(t, ref[r].buffer) /\ UNCHANGED <<mem, pool_list>>
        /\ ref' = [ref EXCEPT ![r] = NoRef]
    BY <1>1, <1>4 DEF Unref, CallState, FreeingLabels, poolVars
  <2>2. PICK b \in Bufs : b = ref[r].buffer
    BY <1>1, <2>1, OwnRef
  <2>3. \A q \in Refs : ref'[q] # NoRef =>
           ref'[q].buffer \in Bufs /\ ref'[q].data = avbuf[ref'[q].buffer].data
    BY <1>1, <1>2, <2>1 DEF Types
  <2>4. DropBuffer(t, b)
    BY <2>1, <2>2
  <2> QED BY <2>1, <2>3, <2>4, DropsKeepData
<1> QED BY <1>3, <1>4

\* A buffer without an entry frees its data; the structure of one with an
\* entry goes when the entry is back in the pool.
LEMMA FreesKeepData ==
  ASSUME CountInv, DataInv, NEW t \in Threads, FreeBuffer(t) \/ FreeStruct(t)
  PROVE  DataInv'
<1>1. /\ RefInv /\ Types /\ CallState(t) /\ FreedOnce /\ pc[t] \in {"free", "free_struct"}
      /\ UNCHANGED <<ref, pool_list>>
  BY DEF CountInv, RefInv, FreeBuffer, FreeStruct, poolVars
<1>2. PICK b \in Bufs : b = buf[t] /\ b # Null
  BY <1>1 DEF CallState, FreeingLabels, Types
<1>3. avbuf[b].data # Null /\ avbuf[b].refcount = 0
      /\ \A u \in Threads : buf[u] = b => u = t
  BY <1>1, <1>2 DEF FreedOnce
<1>4. \A u \in Threads \ {t} : pc'[u] = pc[u]
  BY <1>1 DEF FreeBuffer, FreeStruct, Goto, Types
<1>5. CASE FreeBuffer(t) /\ avbuf[b].entry # Null
  <2>1. UNCHANGED <<mem, avbuf, buf>> /\ pc[t] = "free" /\ pc'[t] = "release"
    BY <1>1, <1>2, <1>5 DEF FreeBuffer, Goto, Types
  <2>2. ASSUME NEW c \in Bufs  PROVE Holds(c)' <=> Holds(c)
    BY <1>4, <2>1, HoldsKept
  <2>3. Ownership'
    BY <1>1, <2>1, <2>2, OwnersSame DEF DataInv
  <2> QED BY <1>1, <2>1, <2>3 DEF DataInv, EntriesFixed, RefsAgree
<1>6. CASE ~(FreeBuffer(t) /\ avbuf[b].entry # Null)
  <2>1. /\ avbuf' = [avbuf EXCEPT ![b] = NoBuf] /\ buf' = [buf EXCEPT ![t] = Null]
    BY <1>2, <1>6 DEF FreeBuffer, FreeStruct
  <2>2. /\ avbuf'[b] = NoBuf /\ avbuf'[b].data = Null /\ avbuf'[b].entry = Null
        /\ \A c \in Bufs : c # b => avbuf'[c] = avbuf[c]
        /\ buf'[t] = Null /\ \A u \in Threads \ {t} : buf'[u] = buf[u]
    BY <1>1, <2>1 DEF Types, NoBuf
  <2>3. ~Holds(b)'
    BY <2>2 DEF Holds
  <2>4. \A c \in Bufs \ {b} : (Holds(c)' <=> Holds(c)) /\ avbuf'[c].data = avbuf[c].data
    <3> TAKE c \in Bufs \ {b}
    <3>1. avbuf'[c].data = avbuf[c].data /\ buf'[t] # c /\ buf[t] # c
      BY <1>2, <2>2, Constants
    <3> QED BY <1>4, <2>2, <3>1, HoldsKept
  <2>5. Ownership'
    <3>1. CASE pc[t] = "free"
      <4>1. Holds(b)
        BY <1>3, <3>1 DEF Holds
      <4>2. mem' = mem \ {avbuf[b].data}
        BY <1>2, <1>6, <3>1 DEF FreeBuffer, FreeStruct
      <4> QED BY <1>1, <2>3, <2>4, <4>1, <4>2, OwnerFrees DEF DataInv
    <3>2. CASE pc[t] = "free_struct"
      <4>1. ~Holds(b)
        BY <1>2, <3>2 DEF Holds
      <4>2. mem' = mem
        BY <3>2 DEF FreeBuffer, FreeStruct
      <4>3. \A c \in Bufs : Holds(c)' <=> Holds(c)
        BY <2>3, <2>4, <4>1
      <4>4. \A c \in Bufs : Holds(c) => avbuf'[c].data = avbuf[c].data
        BY <2>4, <4>1
      <4> QED BY <1>1, <4>2, <4>3, <4>4, OwnersSame DEF DataInv
    <3> QED BY <1>1, <3>1, <3>2
  <2>6. EntriesFixed'
    BY <2>2 DEF DataInv, EntriesFixed
  <2>7. RefsAgree'
    <3>1. ASSUME NEW q \in Refs, ref[q] # NoRef
          PROVE  ref[q].data = avbuf'[ref[q].buffer].data
      <4>1. ref[q].buffer \in Bufs /\ ref[q].buffer # b
        BY <1>1, <1>3, <3>1, ReferredHolds
      <4> QED BY <2>2, <3>1, <4>1 DEF DataInv, RefsAgree
    <3> QED BY <1>1, <3>1 DEF RefsAgree
  <2> QED BY <2>5, <2>6, <2>7 DEF DataInv
<1> QED BY <1>5, <1>6

\* The entry of a released buffer is the buffer's data.
LEMMA ReleaseKeepsData ==
  ASSUME CountInv, DataInv, NEW t \in Threads, PoolRelease(t)
  PROVE  DataInv'
<1>1. /\ RefInv /\ Types /\ CallState(t) /\ FreedOnce
      /\ pc[t] = "release" /\ pc'[t] = "drop_pool" /\ UNCHANGED <<mem, avbuf, ref, buf>>
      /\ pool_list' = <<avbuf[buf[t]].entry>> \o pool_list
      /\ \A u \in Threads \ {t} : pc'[u] = pc[u]
  BY DEF CountInv, RefInv, PoolRelease, locals, Goto, Types
<1>2. PICK b \in Bufs : b = buf[t] /\ b # Null
  BY <1>1 DEF CallState, FreeingLabels, Types
<1>3. avbuf[b].data # Null /\ \A u \in Threads : buf[u] = b => u = t
  BY <1>1, <1>2 DEF FreedOnce
<1>4. avbuf[b].entry = avbuf[b].data
  BY <1>1, <1>2 DEF DataInv, EntriesFixed, CallState
<1>5. Holds(b) /\ ~Holds(b)'
  BY <1>1, <1>2, <1>3 DEF Holds
<1>6. \A c \in Bufs \ {b} : (Holds(c)' <=> Holds(c)) /\ avbuf'[c].data = avbuf[c].data
  BY <1>1, <1>2, HoldsKept
<1>7. avbuf[b].data \in Data /\ pool_list \in Seq(Data)
      /\ pool_list' = <<avbuf[b].data>> \o pool_list
  BY <1>1, <1>2, <1>3, <1>4, BufFields DEF Types
<1>8. Ownership'
  BY <1>1, <1>5, <1>6, <1>7, OwnerReturns DEF DataInv
<1> QED BY <1>1, <1>8 DEF DataInv, EntriesFixed, RefsAgree

\* The pool takes its list with it.
LEMMA PoolFreeKeepsData ==
  ASSUME CountInv, DataInv, NEW t \in Threads, PoolFree(t)
  PROVE  DataInv'
<1>1. /\ Types /\ pc[t] = "free_pool" /\ pc'[t] \in {"idle", "free_struct"}
      /\ UNCHANGED <<avbuf, ref, buf>>
      /\ pool_list' = <<>> /\ mem' = mem \ {pool_list[k] : k \in DOMAIN pool_list}
      /\ \A u \in Threads \ {t} : pc'[u] = pc[u]
  BY DEF CountInv, RefInv, PoolFree, locals, Goto, Types
<1>2. \A b \in Bufs : (Holds(b)' <=> Holds(b)) /\ avbuf'[b].data = avbuf[b].data
  BY <1>1, HoldsKept
<1>3. Ownership'
  BY <1>1, <1>2, ListFreed DEF DataInv
<1> QED BY <1>1, <1>3 DEF DataInv, EntriesFixed, RefsAgree

\* av_realloc moves the data of a buffer with one reference, which no pool has.
LEMMA ReallocKeepsData ==
  ASSUME CountInv, DataInv, NEW t \in Threads, NEW r \in Refs, ReallocInPlace(t, r)
  PROVE  DataInv'
<1>1. /\ RefInv /\ Types /\ Refcounts /\ r \in RefsOf(t)
      /\ UNCHANGED <<pool_list, pc, buf>>
  BY DEF CountInv, RefInv, ReallocInPlace, poolVars, locals
<1>2. PICK b \in Bufs : b = ref[r].buffer
  BY <1>1, OwnRef
<1>3. /\ avbuf[b].refcount = 1 /\ avbuf[b].reallocatable
      /\ \A q \in Refs : ref'[q].buffer = ref[q].buffer
      /\ \A c \in Bufs : c # b => avbuf'[c] = avbuf[c]
      /\ avbuf'[b].entry = avbuf[b].entry
  BY <1>1, <1>2, ReallocInPlaceKeeps
<1>4. PICK d \in FreeData :
         /\ mem' = (mem \ {avbuf[b].data}) \union {d}
         /\ avbuf' = [avbuf EXCEPT ![b].data = d]
         /\ ref' = [ref EXCEPT ![r].data = d]
  BY <1>2 DEF ReallocInPlace
<1>5. d \in Data /\ d # Null /\ d \notin mem /\ ref[r] # NoRef /\ ref[r] \in AVBufferRefs
  BY <1>1, <1>4, Constants, OwnRef DEF FreeData, Types
<1>6. avbuf'[b].data = d
  BY <1>1, <1>4 DEF Types, BufferShapes
<1>7. /\ ref'[r].data = d
      /\ \A q \in Refs : q # r => ref'[q] = ref[q]
  BY <1>1, <1>4, <1>5 DEF Types, AVBufferRefs
<1>8. Holds(b) /\ \A u \in Threads : buf[u] # b
  BY <1>1, <1>3, LiveHolds
<1>9. Holds(b)'
  BY <1>1, <1>5, <1>6, <1>8 DEF Holds
<1>10. \A c \in Bufs \ {b} : (Holds(c)' <=> Holds(c)) /\ avbuf'[c].data = avbuf[c].data
  BY <1>1, <1>3 DEF Holds
<1>11. mem' = {x \in mem : ~(Holds(b) /\ x = avbuf[b].data)} \union {d}
  BY <1>4, <1>8
<1>12. Ownership'
  BY <1>1, <1>5, <1>6, <1>9, <1>10, <1>11, OwnerGetsNew DEF DataInv
<1>13. EntriesFixed'
  <2>1. avbuf[b].entry = Null
    BY <1>3 DEF DataInv, EntriesFixed
  <2> QED BY <1>3, <2>1 DEF DataInv, EntriesFixed
<1>14. RefsAgree'
  <2>1. ASSUME NEW q \in Refs, ref'[q] # NoRef
        PROVE  ref'[q].data = avbuf'[ref'[q].buffer].data
    <3>1. CASE q = r
      BY <1>2, <1>3, <1>6, <1>7, <3>1
    <3>2. CASE q # r
      <4>1. ref'[q] = ref[q] /\ ref[q].buffer \in Bufs
        BY <1>1, <1>7, <2>1, <3>2, ReferredHolds
      <4>2. ref[q].buffer # b
        BY <1>1, <1>2, <1>3, <3>2, <4>1, SoleRef DEF RefsTo
      <4> QED BY <1>3, <2>1, <4>1, <4>2 DEF DataInv, RefsAgree
    <3> QED BY <3>1, <3>2
  <2> QED BY <2>1 DEF RefsAgree
<1> QED BY <1>12, <1>13, <1>14 DEF DataInv

\* No data, no owner.
LEMMA InitDataInv == Init => DataInv
<1> SUFFICES ASSUME Init  PROVE DataInv
  OBVIOUS
<1>1. \A b \in Bufs : avbuf[b].data = Null /\ avbuf[b].entry = Null
  BY DEF Init, NoBuf
<1>2. \A b \in Bufs : ~Holds(b)
  BY <1>1 DEF Holds
<1>3. DOMAIN pool_list = {} /\ mem = {}
  BY DEF Init
<1>4. Ownership
  BY <1>2, <1>3 DEF Ownership
<1> QED BY <1>1, <1>4 DEF Init, DataInv, EntriesFixed, RefsAgree

\* Every step keeps DataInv, given CountInv.
LEMMA NextDataInv ==
  ASSUME CountInv, DataInv, ~PoolAllocReallocatable, [Next]_vars
  PROVE  DataInv'
<1>1. ASSUME NEW t \in Threads, Call(t)  PROVE DataInv'
  BY <1>1, BirthsKeepData, RefsKeepData, UnrefKeepsData, CallsKeepData, ReallocKeepsData,
     ReuseKeepsData DEF Call
<1>2. ASSUME NEW t \in Threads, Step(t)  PROVE DataInv'
  BY <1>2, BirthsKeepData, FreesKeepData, UnrefKeepsData, CallsKeepData, ReleaseKeepsData,
     PoolFreeKeepsData DEF Step
<1>3. CASE PoolInit \/ UNCHANGED vars
  <2>1. UNCHANGED <<mem, avbuf, ref, pool_list, pc, buf>>
    BY <1>3 DEF PoolInit, vars, poolVars, locals
  <2>2. \A b \in Bufs : Holds(b)' <=> Holds(b)
    BY <2>1 DEF Holds
  <2>3. Ownership'
    BY <2>1, <2>2, OwnersSame DEF DataInv
  <2> QED BY <2>1, <2>3 DEF DataInv, EntriesFixed, RefsAgree
<1> QED BY <1>1, <1>2, <1>3 DEF Next

\* IInv is inductive when the pool's alloc callback returns buffers that
\* av_buffer_realloc cannot move, as av_buffer_alloc and av_buffer_create do.
THEOREM DataInductive ==
  ASSUME ~PoolAllocReallocatable
  PROVE  Spec => []IInv
<1>1. Init => IInv
  BY InitRefInv, InitPool, InitDataInv DEF IInv, CountInv
<1>2. IInv /\ [Next]_vars => IInv'
  BY NextCountInv, NextDataInv DEF IInv
<1> QED BY <1>1, <1>2, PTL DEF Spec

\* OneOwner for all constants: what is allocated belongs to one buffer or is
\* on the pool's list once, and what these own is allocated, so nothing is
\* freed twice, shared or leaked (buffer.c:107-123, 258-303, 334-357).
THEOREM OwnersAreUnique ==
  ASSUME ~PoolAllocReallocatable
  PROVE  Spec => []OneOwner
<1>1. ASSUME IInv  PROVE OneOwner
  <2>1. Ownership /\ Types
    BY <1>1 DEF IInv, DataInv, CountInv, RefInv
  <2>2. \A b \in Bufs : b \in Holding <=> Holds(b)
    BY <2>1, BufFields DEF Holding, Freeing, Holds
  <2>3. Holding \subseteq Bufs
    BY DEF Holding
  <2>4. ASSUME NEW d \in Data
        PROVE  Cardinality({b \in Holding : avbuf[b].data = d})
                 + Cardinality({k \in DOMAIN pool_list : pool_list[k] = d})
                 = (IF d \in mem THEN 1 ELSE 0)
    <3> DEFINE H == {b \in Holding : avbuf[b].data = d}
               L == {k \in DOMAIN pool_list : pool_list[k] = d}
    <3>1. /\ \A b, c \in H : b = c
          /\ \A j, k \in L : j = k
          /\ H = {} \/ L = {}
      BY <2>1, <2>2, <2>3 DEF Ownership
    <3>2. d \in mem <=> H # {} \/ L # {}
      BY <2>1, <2>2, <2>3 DEF Ownership
    <3> HIDE DEF H, L
    <3>3. (H = {} \/ \E x : H = {x}) /\ (L = {} \/ \E x : L = {x})
      BY <3>1
    <3>4. (H = {} => Cardinality(H) = 0) /\ (L = {} => Cardinality(L) = 0)
      BY FS_EmptySet
    <3>5. (H # {} => Cardinality(H) = 1) /\ (L # {} => Cardinality(L) = 1)
      BY <3>3, FS_Singleton
    <3>6. Cardinality(H) + Cardinality(L) = (IF d \in mem THEN 1 ELSE 0)
      BY <3>1, <3>2, <3>4, <3>5
    <3> QED BY <3>6 DEF H, L
  <2> QED BY <2>4 DEF OneOwner
<1> QED BY <1>1, DataInductive, PTL

\* RefsSeeLiveData for all constants: av_realloc moves no data that another
\* reference or the pool sees (buffer.c:193-213).
THEOREM RefsAreLive ==
  ASSUME ~PoolAllocReallocatable
  PROVE  Spec => []RefsSeeLiveData
<1>1. ASSUME IInv  PROVE RefsSeeLiveData
  <2>1. Ownership /\ RefsAgree /\ RefInv
    BY <1>1 DEF IInv, DataInv, CountInv
  <2>2. ASSUME NEW r \in Refs, ref[r] # NoRef
        PROVE  ref[r].data = avbuf[ref[r].buffer].data /\ ref[r].data \in mem
    BY <2>1, <2>2, ReferredHolds DEF RefsAgree, Ownership
  <2> QED BY <2>2 DEF RefsSeeLiveData
<1> QED BY <1>1, DataInductive, PTL

\* ExclusiveWriter for all constants: a thread that was told that its buffer
\* is writable is alone with the data (buffer.c:133-139, buffer.h:156-163).
THEOREM WritersAreAlone ==
  ASSUME ~PoolAllocReallocatable
  PROVE  Spec => []ExclusiveWriter
<1>1. ASSUME IInv  PROVE ExclusiveWriter
  <2>1. Ownership /\ RefsAgree /\ RefInv /\ Types /\ Refcounts
    BY <1>1 DEF IInv, DataInv, CountInv, RefInv
  <2>2. ASSUME NEW t \in Threads, pc[t] = "write"
        PROVE  /\ my_ref[t] \in RefsOf(t)
               /\ \A r \in Refs \ {my_ref[t]} :
                     /\ ref[r].buffer # ref[my_ref[t]].buffer
                     /\ ref[r] # NoRef => ref[r].data # ref[my_ref[t]].data
    <3>1. my_ref[t] \in RefsOf(t) /\ avbuf[ref[my_ref[t]].buffer].refcount = 1
      BY <2>1, <2>2 DEF RefInv, CallState, RefLabels
    <3>2. PICK q \in Refs : q = my_ref[t] /\ ref[q] # NoRef
      BY <2>1, <3>1, OwnRef
    <3>3. PICK b \in Bufs : b = ref[q].buffer /\ Holds(b) /\ ref[q].data = avbuf[b].data
      BY <2>1, <3>2, ReferredHolds DEF RefsAgree
    <3>4. ASSUME NEW r \in Refs \ {q}
          PROVE  /\ ref[r].buffer # b
                 /\ ref[r] # NoRef => ref[r].data # ref[q].data
      <4>1. ref[r].buffer # b
        BY <2>1, <3>1, <3>2, <3>3, SoleRef DEF RefsTo
      <4>2. ASSUME ref[r] # NoRef  PROVE ref[r].data # ref[q].data
        <5>1. /\ ref[r].buffer \in Bufs /\ Holds(ref[r].buffer)
              /\ ref[r].data = avbuf[ref[r].buffer].data
          BY <2>1, <4>2, ReferredHolds DEF RefsAgree
        <5> QED BY <2>1, <3>3, <4>1, <5>1 DEF Ownership
      <4> QED BY <4>1, <4>2
    <3> QED BY <3>1, <3>2, <3>3, <3>4
  <2> QED BY <2>2 DEF ExclusiveWriter
<1> QED BY <1>1, DataInductive, PTL

\* EntriesAreAllocated for all constants: an entry that went back to the pool
\* still has its data (buffer.h: "it is returned to the pool instead of being
\* freed"); a reallocatable buffer breaks it, as the run on it shows.
THEOREM EntriesStayAllocated ==
  ASSUME ~PoolAllocReallocatable
  PROVE  Spec => []EntriesAreAllocated
<1>1. IInv => EntriesAreAllocated
  BY DEF IInv, DataInv, Ownership, EntriesAreAllocated
<1> QED BY <1>1, DataInductive, PTL
=============================================================================
