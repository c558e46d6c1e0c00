----------------------------- MODULE BufferPool -----------------------------
(***************************************************************************)
(* libavutil/buffer.c: reference-counted buffers and the pool they return  *)
(* to.  Threads create, reference, release, write, reallocate and exchange *)
(* references; one AVBufferPool lives and is uninited meanwhile.           *)
(*                                                                         *)
(* One action is one atomic operation on a reference count, or one section *)
(* under the pool's mutex, with the statements around it that touch only   *)
(* what the thread owns.  Structures and data are identities: allocating   *)
(* takes one that is not in use, so that a use after free is a use of      *)
(* something that is not allocated, or that is by now somebody else's.     *)
(***************************************************************************)
EXTENDS Integers, Sequences, FiniteSets

CONSTANTS Threads,
          Refs,        \* AVBufferRef structures
          Bufs,        \* AVBuffer structures
          Data,        \* data chunks, in a pool also their BufferPoolEntry
          Null,
          PoolAllocReallocatable   \* may the pool's alloc callback return a
                                   \* buffer made by av_buffer_realloc(NULL)?

ASSUME BufferPoolAssumption ==
    /\ IsFiniteSet(Refs) /\ IsFiniteSet(Bufs) /\ IsFiniteSet(Threads)
    /\ Null \notin Refs \union Bufs \union Data \union Threads
    /\ PoolAllocReallocatable \in BOOLEAN

VARIABLES
    mem,            \* the data chunks that are allocated
    avbuf,          \* the AVBuffer structures
    ref,            \* the AVBufferRef structures, and which thread has them
    pool_life,      \* "none", "live" or "freed"
    pool_ref,       \* does the caller still hold its AVBufferPool pointer?
    pool_refcount,
    pool_list,      \* pool->pool: data pointers of the entries, first to last
    pc,             \* where each thread is
    buf,            \* its local AVBuffer *b
    newbuf,         \* its local newbuf, as the AVBuffer it refers to
    my_ref          \* the AVBufferRef its call works on

poolVars == <<pool_life, pool_ref, pool_refcount, pool_list>>
locals   == <<buf, newbuf, my_ref>>
vars == <<mem, avbuf, ref, poolVars, pc, locals>>

NoBuf == [refcount |-> 0, data |-> Null, entry |-> Null,
          readonly |-> FALSE, reallocatable |-> FALSE]
NoRef == [owner |-> Null, buffer |-> Null, data |-> Null, moved |-> FALSE]

\* An AVBuffer with one reference.  Its free callback is pool_release_buffer
\* when it has an entry, else it frees the data.
NewBuf(d, entry, ro, re) ==
    [refcount |-> 1, data |-> d, entry |-> entry,
     readonly |-> ro, reallocatable |-> re]

NewRef(t, b, d) == [owner |-> t, buffer |-> b, data |-> d, moved |-> FALSE]

FreeBufs == {b \in Bufs : avbuf[b] = NoBuf}
FreeRefs == {r \in Refs : ref[r] = NoRef}
FreeData == Data \ mem

RefsOf(t) == {r \in Refs : ref[r].owner = t}

Goto(t, label) == pc' = [pc EXCEPT ![t] = label]

Init ==
    /\ mem = {}
    /\ avbuf = [b \in Bufs |-> NoBuf]
    /\ ref = [r \in Refs |-> NoRef]
    /\ pool_life = "none" /\ pool_ref = FALSE
    /\ pool_refcount = 0 /\ pool_list = <<>>
    /\ pc = [t \in Threads |-> "idle"]
    /\ buf = [t \in Threads |-> Null]
    /\ newbuf = [t \in Threads |-> Null]
    /\ my_ref = [t \in Threads |-> Null]
-----------------------------------------------------------------------------
\* av_buffer_alloc or av_buffer_create, and av_buffer_realloc on NULL, which
\* makes a reallocatable buffer.  When an allocation fails the earlier ones
\* are undone and nothing is left.
Create(t, ro, re) ==
    /\ pc[t] = "idle"
    /\ \E r \in FreeRefs, b \in FreeBufs, d \in FreeData :
          /\ mem' = mem \union {d}
          /\ avbuf' = [avbuf EXCEPT ![b] = NewBuf(d, Null, ro, re)]
          /\ ref' = [ref EXCEPT ![r] = NewRef(t, b, d)]
    /\ UNCHANGED <<poolVars, pc, locals>>

\* Variant for mutation: the new reference is not counted.
RefBufferUncounted(t, r) ==
    /\ pc[t] = "idle" /\ r \in RefsOf(t)
    /\ \E new \in FreeRefs : ref' = [ref EXCEPT ![new] = ref[r]]
    /\ UNCHANGED <<mem, avbuf, poolVars, pc, locals>>

\* av_buffer_ref
RefBuffer(t, r) ==
    /\ pc[t] = "idle" /\ r \in RefsOf(t)
    /\ \E new \in FreeRefs : ref' = [ref EXCEPT ![new] = ref[r]]
    /\ avbuf' = [avbuf EXCEPT ![ref[r].buffer].refcount = @ + 1]
    /\ UNCHANGED <<mem, poolVars, pc, locals>>

\* A reference may point to a part of its buffer.
MoveData(t, r) ==
    /\ pc[t] = "idle" /\ r \in RefsOf(t)
    /\ ref' = [ref EXCEPT ![r].moved = TRUE]
    /\ UNCHANGED <<mem, avbuf, poolVars, pc, locals>>

\* A thread gives one of its references to another.
HandOver(t, u, r) ==
    /\ pc[t] = "idle" /\ r \in RefsOf(t)
    /\ ref' = [ref EXCEPT ![r].owner = u]
    /\ UNCHANGED <<mem, avbuf, poolVars, pc, locals>>

\* The atomic decrement of buffer_replace on b, and its test: only the thread
\* that took the count from 1 frees the buffer.
DropBuffer(t, b) ==
    /\ avbuf' = [avbuf EXCEPT ![b].refcount = @ - 1]
    /\ IF avbuf[b].refcount = 1
         THEN Goto(t, "free") /\ buf' = [buf EXCEPT ![t] = b]
         ELSE Goto(t, "idle") /\ UNCHANGED buf

\* av_buffer_unref: buffer_replace(buf, NULL)
Unref(t, r) ==
    /\ pc[t] = "idle" /\ r \in RefsOf(t)
    /\ ref' = [ref EXCEPT ![r] = NoRef]
    /\ DropBuffer(t, ref[r].buffer)
    /\ UNCHANGED <<mem, poolVars, newbuf, my_ref>>

\* b->free(b->opaque, b->data): the default frees the data, and the AVBuffer
\* goes with it; a pool's buffer goes through pool_release_buffer first.
FreeBuffer(t) ==
    /\ pc[t] = "free"
    /\ IF avbuf[buf[t]].entry # Null
         THEN Goto(t, "release") /\ UNCHANGED <<mem, avbuf, buf>>
         ELSE /\ mem' = mem \ {avbuf[buf[t]].data}
              /\ avbuf' = [avbuf EXCEPT ![buf[t]] = NoBuf]
              /\ buf' = [buf EXCEPT ![t] = Null]
              /\ Goto(t, "idle")
    /\ UNCHANGED <<ref, poolVars, newbuf, my_ref>>

\* Variant for mutation: the reference count is not looked at.
IsWritableByFlag(r) == ~avbuf[ref[r].buffer].readonly

\* av_buffer_is_writable
IsWritable(r) ==
    /\ ~avbuf[ref[r].buffer].readonly
    /\ avbuf[ref[r].buffer].refcount = 1

\* av_buffer_make_writable, after which the caller writes to the data.
MakeWritable(t, r) ==
    /\ pc[t] = "idle" /\ r \in RefsOf(t)
    /\ my_ref' = [my_ref EXCEPT ![t] = r]
    /\ Goto(t, IF IsWritable(r) THEN "write" ELSE "copy")
    /\ UNCHANGED <<mem, avbuf, ref, poolVars, buf, newbuf>>

\* av_buffer_alloc of the copy (a reallocatable one from av_buffer_realloc),
\* and memcpy from the old buffer.
CopyBuffer(t) ==
    /\ pc[t] \in {"copy", "recopy"}
    /\ \E b \in FreeBufs, d \in FreeData :
          /\ mem' = mem \union {d}
          /\ avbuf' = [avbuf EXCEPT ![b] =
                          NewBuf(d, Null, FALSE, pc[t] = "recopy")]
          /\ newbuf' = [newbuf EXCEPT ![t] = b]
    /\ Goto(t, "replace")
    /\ UNCHANGED <<ref, poolVars, buf, my_ref>>

\* No memory for the copy: the reference is left untouched.
CopyFails(t) ==
    /\ pc[t] \in {"copy", "recopy"}
    /\ my_ref' = [my_ref EXCEPT ![t] = Null]
    /\ Goto(t, "idle")
    /\ UNCHANGED <<mem, avbuf, ref, poolVars, buf, newbuf>>

\* Variant for mutation: the AVBuffer to release is read from the reference
\* once that refers to the new one.
ReplaceBufferLate(t) ==
    /\ pc[t] = "replace"
    /\ ref' = [ref EXCEPT ![my_ref[t]] =
                  NewRef(t, newbuf[t], avbuf[newbuf[t]].data)]
    /\ DropBuffer(t, newbuf[t])
    /\ newbuf' = [newbuf EXCEPT ![t] = Null]
    /\ my_ref' = [my_ref EXCEPT ![t] = Null]
    /\ UNCHANGED <<mem, poolVars>>

\* buffer_replace(pbuf, &newbuf): the old AVBuffer is read from the reference
\* before the reference is overwritten.
ReplaceBuffer(t) ==
    /\ pc[t] = "replace"
    /\ ref' = [ref EXCEPT ![my_ref[t]] =
                  NewRef(t, newbuf[t], avbuf[newbuf[t]].data)]
    /\ DropBuffer(t, ref[my_ref[t]].buffer)
    /\ newbuf' = [newbuf EXCEPT ![t] = Null]
    /\ my_ref' = [my_ref EXCEPT ![t] = Null]
    /\ UNCHANGED <<mem, poolVars>>

\* The caller of make_writable has written.
Written(t) ==
    /\ pc[t] = "write"
    /\ my_ref' = [my_ref EXCEPT ![t] = Null]
    /\ Goto(t, "idle")
    /\ UNCHANGED <<mem, avbuf, ref, poolVars, buf, newbuf>>

\* Variant for mutation: other references to the buffer are not considered.
CannotReallocAlone(r) ==
    \/ ~avbuf[ref[r].buffer].reallocatable
    \/ ref[r].moved \/ ref[r].data # avbuf[ref[r].buffer].data

\* The test of av_buffer_realloc for a buffer it cannot reallocate.
CannotRealloc(r) ==
    \/ ~avbuf[ref[r].buffer].reallocatable
    \/ ~IsWritable(r)
    \/ ref[r].moved \/ ref[r].data # avbuf[ref[r].buffer].data

\* av_buffer_realloc to another size: a copy ...
ReallocByCopy(t, r) ==
    /\ pc[t] = "idle" /\ r \in RefsOf(t)
    /\ CannotRealloc(r)
    /\ my_ref' = [my_ref EXCEPT ![t] = r]
    /\ Goto(t, "recopy")
    /\ UNCHANGED <<mem, avbuf, ref, poolVars, buf, newbuf>>

\* ... or av_realloc of the data, which may move it.
ReallocInPlace(t, r) ==
    /\ pc[t] = "idle" /\ r \in RefsOf(t)
    /\ ~CannotRealloc(r)
    /\ \E d \in FreeData :
          LET b == ref[r].buffer
          IN  /\ mem' = (mem \ {avbuf[b].data}) \union {d}
              /\ avbuf' = [avbuf EXCEPT ![b].data = d]
              /\ ref' = [ref EXCEPT ![r].data = d]
    /\ UNCHANGED <<poolVars, pc, locals>>
-----------------------------------------------------------------------------
\* av_buffer_pool_init and av_buffer_pool_init2
PoolInit ==
    /\ pool_life = "none"
    /\ pool_life' = "live"
    /\ pool_ref' = TRUE
    /\ pool_refcount' = 1
    /\ UNCHANGED <<mem, avbuf, ref, pool_list, pc, locals>>

\* Variant for mutation: the entry handed out stays on the list.
PoolReuseKeepsEntry(t) ==
    /\ pc[t] = "idle" /\ pool_ref /\ pool_list # <<>>
    /\ \E r \in FreeRefs, b \in FreeBufs :
          /\ avbuf' = [avbuf EXCEPT ![b] =
                NewBuf(Head(pool_list), Head(pool_list), FALSE, FALSE)]
          /\ ref' = [ref EXCEPT ![r] = NewRef(t, b, Head(pool_list))]
    /\ Goto(t, "get")
    /\ UNCHANGED <<mem, poolVars, locals>>

\* av_buffer_pool_get under the mutex, an entry being available.
PoolReuse(t) ==
    /\ pc[t] = "idle" /\ pool_ref /\ pool_list # <<>>
    /\ \E r \in FreeRefs, b \in FreeBufs :
          /\ avbuf' = [avbuf EXCEPT ![b] =
                NewBuf(Head(pool_list), Head(pool_list), FALSE, FALSE)]
          /\ ref' = [ref EXCEPT ![r] = NewRef(t, b, Head(pool_list))]
    /\ pool_list' = Tail(pool_list)
    /\ Goto(t, "get")
    /\ UNCHANGED <<mem, pool_life, pool_ref, pool_refcount, locals>>

\* pool_alloc_buffer, called under the mutex when the pool has no entry.
PoolAlloc(t, re) ==
    /\ pc[t] = "idle" /\ pool_ref /\ pool_list = <<>>
    /\ re => PoolAllocReallocatable
    /\ \E r \in FreeRefs, b \in FreeBufs, d \in FreeData :
          /\ mem' = mem \union {d}
          /\ avbuf' = [avbuf EXCEPT ![b] = NewBuf(d, d, FALSE, re)]
          /\ ref' = [ref EXCEPT ![r] = NewRef(t, b, d)]
    /\ Goto(t, "get")
    /\ UNCHANGED <<poolVars, locals>>

\* Variant for mutation: the buffer handed out is not counted.
PoolGetReturnsUncounted(t) ==
    /\ pc[t] = "get"
    /\ Goto(t, "idle")
    /\ UNCHANGED <<mem, avbuf, ref, poolVars, locals>>

\* The pool's count grows once the mutex is unlocked.
PoolGetReturns(t) ==
    /\ pc[t] = "get"
    /\ pool_refcount' = pool_refcount + 1
    /\ Goto(t, "idle")
    /\ UNCHANGED <<mem, avbuf, ref, pool_life, pool_ref, pool_list, locals>>

\* pool_release_buffer under the mutex: the entry becomes the first.
PoolRelease(t) ==
    /\ pc[t] = "release"
    /\ pool_list' = <<avbuf[buf[t]].entry>> \o pool_list
    /\ Goto(t, "drop_pool")
    /\ UNCHANGED <<mem, avbuf, ref, pool_life, pool_ref, pool_refcount, locals>>

\* Variant for mutation: only uninit frees the pool.
DropPoolNeverFrees(t) ==
    /\ pc[t] = "drop_pool"
    /\ pool_refcount' = pool_refcount - 1
    /\ Goto(t, "free_struct")
    /\ UNCHANGED <<mem, avbuf, ref, pool_life, pool_ref, pool_list, locals>>

\* The atomic decrement of pool_release_buffer, after the unlock.
DropPool(t) ==
    /\ pc[t] = "drop_pool"
    /\ pool_refcount' = pool_refcount - 1
    /\ Goto(t, IF pool_refcount = 1 THEN "free_pool" ELSE "free_struct")
    /\ UNCHANGED <<mem, avbuf, ref, pool_life, pool_ref, pool_list, locals>>

\* Variant for mutation: uninit frees the pool whatever its count.
PoolUninitFrees(t) ==
    /\ pc[t] = "idle" /\ pool_ref
    /\ \A u \in Threads : pc[u] # "get"
    /\ pool_ref' = FALSE
    /\ pool_refcount' = pool_refcount - 1
    /\ Goto(t, "free_pool")
    /\ UNCHANGED <<mem, avbuf, ref, pool_life, pool_list, locals>>

\* av_buffer_pool_uninit: the caller makes no further pool_get.
PoolUninit(t) ==
    /\ pc[t] = "idle" /\ pool_ref
    /\ \A u \in Threads : pc[u] # "get"
    /\ pool_ref' = FALSE
    /\ pool_refcount' = pool_refcount - 1
    /\ Goto(t, IF pool_refcount = 1 THEN "free_pool" ELSE "idle")
    /\ UNCHANGED <<mem, avbuf, ref, pool_life, pool_list, locals>>

\* buffer_pool_free: every entry's data, pool_free and the pool itself.
PoolFree(t) ==
    /\ pc[t] = "free_pool"
    /\ mem' = mem \ {pool_list[k] : k \in DOMAIN pool_list}
    /\ pool_list' = <<>>
    /\ pool_life' = "freed"
    /\ Goto(t, IF buf[t] = Null THEN "idle" ELSE "free_struct")
    /\ UNCHANGED <<avbuf, ref, pool_ref, pool_refcount, locals>>

\* av_freep(&b) of buffer_replace, back from pool_release_buffer.
FreeStruct(t) ==
    /\ pc[t] = "free_struct"
    /\ avbuf' = [avbuf EXCEPT ![buf[t]] = NoBuf]
    /\ buf' = [buf EXCEPT ![t] = Null]
    /\ Goto(t, "idle")
    /\ UNCHANGED <<mem, ref, poolVars, newbuf, my_ref>>
-----------------------------------------------------------------------------
\* Calls the program decides to make.
Call(t) ==
    \/ \E ro, re \in BOOLEAN : ~(ro /\ re) /\ Create(t, ro, re)
    \/ \E r \in Refs : \/ RefBuffer(t, r)
                       \/ MoveData(t, r)
                       \/ \E u \in Threads : HandOver(t, u, r)
                       \/ Unref(t, r)
                       \/ MakeWritable(t, r)
                       \/ ReallocByCopy(t, r)
                       \/ ReallocInPlace(t, r)
    \/ PoolReuse(t)
    \/ \E re \in BOOLEAN : PoolAlloc(t, re)
    \/ PoolUninit(t)

\* What follows inside the call.
Step(t) ==
    \/ FreeBuffer(t) \/ CopyBuffer(t) \/ CopyFails(t) \/ ReplaceBuffer(t)
    \/ Written(t) \/ PoolGetReturns(t) \/ PoolRelease(t) \/ DropPool(t)
    \/ PoolFree(t) \/ FreeStruct(t)

Next == PoolInit \/ \E t \in Threads : Call(t) \/ Step(t)

\* A call that has begun goes on.
Spec == Init /\ [][Next]_vars /\ \A t \in Threads : WF_vars(Step(t))
-----------------------------------------------------------------------------
Labels == {"idle", "free", "copy", "recopy", "replace", "write", "get",
           "release", "drop_pool", "free_pool", "free_struct"}

AVBuffers == [refcount : 0 .. Cardinality(Refs) + Cardinality(Threads),
              data : Data \union {Null}, entry : Data \union {Null},
              readonly : BOOLEAN, reallocatable : BOOLEAN]
AVBufferRefs == [owner : Threads, buffer : Bufs, data : Data, moved : BOOLEAN]

\* Every variable has its type; counts never pass the number of references.
TypeOK ==
    /\ mem \subseteq Data
    /\ avbuf \in [Bufs -> AVBuffers]
    /\ ref \in [Refs -> AVBufferRefs \union {NoRef}]
    /\ pool_life \in {"none", "live", "freed"} /\ pool_ref \in BOOLEAN
    /\ pool_refcount \in 0 .. Cardinality(Bufs) + 1
    /\ pool_list \in Seq(Data)
    /\ pc \in [Threads -> Labels]
    /\ buf \in [Threads -> Bufs \union {Null}]
    /\ newbuf \in [Threads -> Bufs \union {Null}]
    /\ my_ref \in [Threads -> Refs \union {Null}]

\* The threads about to free b, having taken its count to zero.
Freeing(b) == {t \in Threads : buf[t] = b}

\* The AVBuffers that have not given their data back yet.
Holding == {b \in Bufs : /\ avbuf[b] # NoBuf
                         /\ \A t \in Freeing(b) : pc[t] \in {"free", "release"}}

\* Allocated data belongs to exactly one AVBuffer or one entry of the pool's
\* list, and these own no other data: nothing is freed twice or used after it
\* is freed, two buffers never share data, and nothing leaks
\* (lines 107 to 123, 258 to 303, 334 to 357).
OneOwner ==
    \A d \in Data :
       Cardinality({b \in Holding : avbuf[b].data = d})
         + Cardinality({k \in DOMAIN pool_list : pool_list[k] = d})
       = (IF d \in mem THEN 1 ELSE 0)

\* The reference count is the number of AVBufferRef structures, counting the
\* one that make_writable or realloc still holds in a local; a buffer without
\* references is being freed by exactly one thread (buffer_internal.h:42).
RefcountExact ==
    \A b \in Bufs :
       /\ avbuf[b].refcount = Cardinality({r \in Refs : ref[r].buffer = b})
                              + Cardinality({t \in Threads : newbuf[t] = b})
       /\ avbuf[b] # NoBuf /\ avbuf[b].refcount = 0
              <=> Cardinality(Freeing(b)) = 1

\* "The pointer to the pool itself held by the caller is considered to be one
\* reference. Each buffer requested by the caller increases refcount by one,
\* returning the buffer to the pool decreases it by one": exact but for the
\* buffers that pool_get has not counted yet (buffer_internal.h:80 to 88).
PoolCountExact ==
    pool_refcount + Cardinality({t \in Threads : pc[t] = "get"})
      = (IF pool_ref THEN 1 ELSE 0)
        + Cardinality({b \in Bufs :
             /\ avbuf[b].entry # Null
             /\ \A t \in Freeing(b) : pc[t] \notin {"free_pool", "free_struct"}})

\* Whoever may still touch the pool finds it there: the caller that holds it,
\* a thread inside pool_get, release or the freeing of the pool, and every
\* buffer that will come back to it (lines 256, 271, 302).
PoolAliveWhileNeeded ==
    /\ \/ pool_ref
       \/ \E t \in Threads : pc[t] \in {"get", "release", "drop_pool", "free_pool"}
       \/ \E b \in Holding : avbuf[b].entry # Null
      => pool_life = "live"
    /\ Cardinality({t \in Threads : pc[t] = "free_pool"}) <= 1

\* While a thread writes to data it made writable, no other reference reaches
\* the data and no other thread copies it; the data cannot be taken back
\* (buffer.h: "A positive answer is valid until av_buffer_ref() is called").
ExclusiveWriter ==
    \A t \in Threads : pc[t] = "write" =>
       /\ my_ref[t] \in RefsOf(t)
       /\ \A r \in Refs \ {my_ref[t]} :
             /\ ref[r].buffer # ref[my_ref[t]].buffer
             /\ ref[r] # NoRef => ref[r].data # ref[my_ref[t]].data

\* What a reference points to is its buffer's data, and it is allocated:
\* av_realloc never moves data that another reference sees (lines 193 to 213).
RefsSeeLiveData ==
    \A r \in Refs : ref[r] # NoRef =>
       /\ ref[r].data = avbuf[ref[r].buffer].data
       /\ ref[r].data \in mem

\* A pool that was uninited and whose buffers are all unreferenced is freed
\* (buffer.h: "Once all the buffers are released, it will automatically be
\* freed").
PoolIsFreed ==
    (/\ pool_life = "live" /\ ~pool_ref
     /\ \A b \in Bufs : avbuf[b].entry # Null => avbuf[b].refcount = 0)
      ~> pool_life = "freed"

\* "when the last reference to this buffer is unreferenced, it is returned to
\* the pool instead of being freed" (buffer.h): an entry's data is allocated.
EntriesAreAllocated == \A k \in DOMAIN pool_list : pool_list[k] \in mem
=============================================================================
