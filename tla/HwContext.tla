----------------------------- MODULE HwContext -----------------------------
(***************************************************************************)
(* libavutil/hwcontext.c with the references of libavutil/frame.c: devices *)
(* and frames contexts, derived ones, the surfaces of their pools, frames, *)
(* and mappings of frames.  Everything is reference counted; dropping the  *)
(* last reference runs a free callback that drops others.                  *)
(*                                                                         *)
(* A call of the API is one action.  What it unreferences is put on the    *)
(* calling thread's list todo, in the code's order, and taken off one step *)
(* at a time, so that other threads get in between and every callback of a *)
(* driver is seen in the state it runs in.  A call that fails and leaves   *)
(* everything as it was is no step.                                        *)
(***************************************************************************)
EXTENDS Integers, Sequences, FiniteSets

CONSTANTS Threads,
          Devices,       \* AVHWDeviceContext structures
          Type,          \* their enum AVHWDeviceType
          Contexts,      \* AVHWFramesContext structures
          Surfaces,      \* what the pools' buffers stand for
          Maps,          \* HWMapDescriptor structures
          Frames,        \* AVFrames of the user
          None,
          InitialPool,   \* initial_pool_size
          MaxHandles     \* bound: references to one object the user keeps

Objects == Devices \union Contexts \union Surfaces \union Maps

ASSUME HwContextAssumption ==
    /\ None \notin Objects
    /\ Devices \intersect (Contexts \union Surfaces \union Maps) = {}
    /\ Contexts \intersect (Surfaces \union Maps) = {}
    /\ Surfaces \intersect Maps = {}
    /\ IsFiniteSet(Threads) /\ IsFiniteSet(Frames)
    /\ IsFiniteSet(Devices \union Contexts) /\ IsFiniteSet(Maps)
    /\ InitialPool \in Nat /\ MaxHandles \in Nat \ {0}

VARIABLES
    life,    \* "none" (not allocated), "live", "idle" (a surface back in its
             \* pool) or "dying" (its free callback runs)
    rc,      \* the reference counts of the AVBuffers around the objects
    parent,  \* a context's device_ctx, the context a surface's pool or an
             \* unmap callback points to: raw pointers
    source,  \* source_device, source_frames
    stage,   \* of a context: "new", "ready" or "failed"
    pool,    \* its pool_internal: "none", "open" or "closed" (uninited while
             \* surfaces are out)
    mapsrc,  \* HWMapDescriptor.source
    frame,   \* the frames' buf[0] and hw_frames_ctx
    held,    \* references the user keeps by itself
    todo     \* calls each thread still has to make, first one first

vars == <<life, rc, parent, source, stage, pool, mapsrc, frame, held, todo>>

Empty == [buf |-> None, ctx |-> None]

Init ==
    /\ life = [o \in Objects |-> "none"]
    /\ rc = [o \in Objects |-> 0]
    /\ parent = [o \in Objects |-> None]
    /\ source = [o \in Devices \union Contexts |-> None]
    /\ stage = [c \in Contexts |-> "new"]
    /\ pool = [c \in Contexts |-> "none"]
    /\ mapsrc = [m \in Maps |-> Empty]
    /\ frame = [f \in Frames |-> Empty]
    /\ held = [o \in Devices \union Contexts |-> 0]
    /\ todo = [t \in Threads |-> <<>>]

Idle(t) == todo[t] = <<>>

\* Mutant: hw_frames_ctx is dropped before the buffers.
RefsOfContextFirst(fr) == <<fr.ctx, fr.buf>>

\* The references of a frame in the order av_frame_unref drops them.
RefsOf(fr) == <<fr.buf, fr.ctx>>

\* The counts when every object of a sequence (None left out) got one more.
Plus(count, objs) ==
    [o \in Objects |-> count[o] + Cardinality({i \in DOMAIN objs : objs[i] = o})]

Call(what, o) == [what |-> what, obj |-> o]

\* av_buffer_unref of a pointer that may be NULL, and of those of a frame.
Drop(o) == IF o = None THEN <<>> ELSE <<Call("unref", o)>>
DropRefs(fr) == Drop(RefsOf(fr)[1]) \o Drop(RefsOf(fr)[2])

Push(t, calls) == todo' = [todo EXCEPT ![t] = calls \o @]

Born(o) == life' = [life EXCEPT ![o] = "live"]
Keep(o) == held' = [held EXCEPT ![o] = @ + 1]

\* The device of a context, and the devices a device was derived from: what is
\* in every set with d in it that has the source of each of its members.
Ancestors(d) ==
    {a \in Devices : \A S \in SUBSET Devices :
        d \in S /\ (\A x \in S : source[x] \in S \union {None}) => a \in S}
-----------------------------------------------------------------------------
\* av_hwdevice_ctx_create.  device_create or device_init may fail after the
\* context was allocated.
DeviceCreate(t, d) ==
    /\ Idle(t) /\ life[d] = "none"
    /\ Born(d)
    /\ rc' = [rc EXCEPT ![d] = 1]
    /\ \/ Keep(d) /\ UNCHANGED todo
       \/ Push(t, Drop(d)) /\ UNCHANGED held
    /\ UNCHANGED <<parent, source, stage, pool, mapsrc, frame>>

\* av_hwdevice_ctx_create_derived: an ancestor of the wanted type is returned
\* itself; else a new device refers to src, unless deriving, that reference or
\* device_init fails.
DeviceDeriveKnown(t, type, src) ==
    \E d \in Ancestors(src) :
        /\ Idle(t) /\ held[src] > 0
        /\ Type[d] = type /\ held[d] < MaxHandles
        /\ Keep(d) /\ rc' = Plus(rc, <<d>>)
        /\ UNCHANGED <<life, parent, source, stage, pool, mapsrc, frame, todo>>

DeviceDeriveNew(t, d, src) ==
    /\ Idle(t) /\ held[src] > 0 /\ life[d] = "none"
    /\ \A a \in Ancestors(src) : Type[a] # Type[d]
    /\ Born(d)
    /\ \/ /\ source' = [source EXCEPT ![d] = src]
          /\ rc' = Plus(rc, <<d, src>>)
          /\ \/ Keep(d) /\ UNCHANGED todo
             \/ Push(t, Drop(d)) /\ UNCHANGED held
       \/ /\ rc' = Plus(rc, <<d>>)
          /\ Push(t, Drop(d)) /\ UNCHANGED <<source, held>>
    /\ UNCHANGED <<parent, stage, pool, mapsrc, frame>>

\* av_hwframe_ctx_alloc.
ContextAlloc(t, c, d) ==
    /\ Idle(t) /\ held[d] > 0 /\ life[c] = "none"
    /\ Born(c) /\ Keep(c)
    /\ rc' = Plus(rc, <<c, d>>)
    /\ parent' = [parent EXCEPT ![c] = d]
    /\ UNCHANGED <<source, stage, pool, mapsrc, frame, todo>>

\* av_hwframe_ctx_init: the driver's frames_init, then initial_pool_size frames
\* are got and dropped again.  It returns 0, too, when allocating one of those
\* AVFrames fails.
ContextInit(t, c) ==
    /\ Idle(t) /\ held[c] > 0 /\ stage[c] = "new"
    /\ \/ /\ pool' = [pool EXCEPT ![c] = "open"]
          /\ \E got \in SUBSET {s \in Surfaces : life[s] = "none"},
                 frame_alloc_fails \in BOOLEAN :
                /\ Cardinality(got) <= InitialPool
                /\ Cardinality(got) = InitialPool => ~frame_alloc_fails
                /\ stage' = [stage EXCEPT ![c] =
                       IF Cardinality(got) = InitialPool \/ frame_alloc_fails
                       THEN "ready" ELSE "failed"]
                /\ life' = [o \in Objects |-> IF o \in got THEN "idle" ELSE life[o]]
                /\ parent' = [o \in Objects |-> IF o \in got THEN c ELSE parent[o]]
       \/ stage' = [stage EXCEPT ![c] = "failed"] /\ UNCHANGED <<pool, life, parent>>
    /\ UNCHANGED <<rc, source, mapsrc, frame, held, todo>>

\* Mutant: on failure only the new context is dropped, with source_frames
\* already cleared.
ContextDeriveNewForgets(t, c, d, src) ==
    /\ Idle(t) /\ held[src] > 0 /\ held[d] > 0 /\ life[c] = "none"
    /\ stage[src] = "ready"
    /\ source[src] # None => parent[source[src]] # d
    /\ Born(c)
    /\ parent' = [parent EXCEPT ![c] = d]
    /\ rc' = Plus(rc, <<c, d, src>>)
    /\ \/ /\ source' = [source EXCEPT ![c] = src]
          /\ stage' = [stage EXCEPT ![c] = "ready"]
          /\ Keep(c) /\ UNCHANGED todo
       \/ Push(t, Drop(c)) /\ UNCHANGED <<source, stage, held>>
    /\ UNCHANGED <<pool, mapsrc, frame>>

\* av_hwframe_ctx_create_derived: unmapping gives the source context back;
\* else a new context refers to src.  On failure the reference to src is
\* dropped first.
ContextDeriveBack(t, d, src) ==
    LET back == source[src] IN
    /\ Idle(t) /\ held[src] > 0 /\ held[d] > 0
    /\ back # None /\ parent[back] = d /\ held[back] < MaxHandles
    /\ Keep(back) /\ rc' = Plus(rc, <<back>>)
    /\ UNCHANGED <<life, parent, source, stage, pool, mapsrc, frame, todo>>

ContextDeriveNew(t, c, d, src) ==
    /\ Idle(t) /\ held[src] > 0 /\ held[d] > 0 /\ life[c] = "none"
    /\ stage[src] = "ready"
    /\ source[src] # None => parent[source[src]] # d
    /\ Born(c)
    /\ parent' = [parent EXCEPT ![c] = d]
    /\ \/ /\ source' = [source EXCEPT ![c] = src]
          /\ stage' = [stage EXCEPT ![c] = "ready"]
          /\ rc' = Plus(rc, <<c, d, src>>)
          /\ Keep(c) /\ UNCHANGED todo
       \/ /\ rc' = Plus(rc, <<c, d, src>>)
          /\ Push(t, Drop(src) \o Drop(c)) /\ UNCHANGED <<source, stage, held>>
       \/ /\ rc' = Plus(rc, <<c, d>>)
          /\ Push(t, Drop(c)) /\ UNCHANGED <<source, stage, held>>
    /\ UNCHANGED <<pool, mapsrc, frame>>
-----------------------------------------------------------------------------
\* The surfaces the pool of c can give: one it has back, or a new one.
Available(c) == {s \in Surfaces : \/ life[s] = "idle" /\ parent[s] = c
                                  \/ life[s] = "none"}

\* av_hwframe_get_buffer on a context with a pool of its own.
GetBuffer(t, c, f) ==
    /\ Idle(t) /\ frame[f] = Empty /\ held[c] > 0
    /\ stage[c] = "ready" /\ source[c] = None
    /\ \E s \in Available(c) :
        /\ Born(s)
        /\ parent' = [parent EXCEPT ![s] = c]
        /\ rc' = Plus(rc, <<s, c>>)
        /\ frame' = [frame EXCEPT ![f] = [buf |-> s, ctx |-> c]]
    /\ UNCHANGED <<source, stage, pool, mapsrc, held, todo>>

\* The same on a derived context: a frame of the source context is got and
\* mapped at once.  Whatever fails after the first reference, the frame keeps
\* its hw_frames_ctx.
GetBufferDerived(t, c, f) ==
    LET src == source[c] IN
    /\ Idle(t) /\ frame[f] = Empty /\ held[c] > 0
    /\ src # None /\ source[src] = None
    /\ \/ \E s \in Available(src), m \in Maps :
            /\ life[m] = "none"
            /\ life' = [life EXCEPT ![s] = "live", ![m] = "live"]
            /\ parent' = [parent EXCEPT ![s] = src, ![m] = c]
            /\ mapsrc' = [mapsrc EXCEPT ![m] = [buf |-> s, ctx |-> src]]
            /\ rc' = Plus(rc, <<s, src, c, m, c>>)
            /\ frame' = [frame EXCEPT ![f] = [buf |-> m, ctx |-> c]]
            /\ UNCHANGED todo
       \/ \E s \in Available(src) :
            /\ Born(s)
            /\ parent' = [parent EXCEPT ![s] = src]
            /\ rc' = Plus(rc, <<s, src, c>>)
            /\ frame' = [frame EXCEPT ![f].ctx = c]
            /\ Push(t, Drop(s) \o Drop(src))
            /\ UNCHANGED mapsrc
       \/ /\ frame' = [frame EXCEPT ![f].ctx = c]
          /\ rc' = Plus(rc, <<c>>)
          /\ UNCHANGED <<life, parent, mapsrc, todo>>
    /\ UNCHANGED <<source, stage, pool, held>>

\* The user sets hw_frames_ctx of an empty frame, to say where to map it to.
SetFramesCtx(t, f, c) ==
    /\ Idle(t) /\ frame[f] = Empty /\ held[c] > 0 /\ stage[c] = "ready"
    /\ frame' = [frame EXCEPT ![f].ctx = c]
    /\ rc' = Plus(rc, <<c>>)
    /\ UNCHANGED <<life, parent, source, stage, pool, mapsrc, held, todo>>

\* av_hwframe_map: does src stand for a frame of dst's context?  Either src
\* was mapped to memory from dst's context, or its context was derived from it.
IsUnmap(dst, src) ==
    /\ src.ctx # None /\ dst.ctx # None
    /\ \/ source[src.ctx] = dst.ctx
       \/ src.ctx = dst.ctx /\ src.buf \in Maps /\ mapsrc[src.buf].ctx = src.ctx

\* Mutant: the mapping refers to the source's context, not to its buffer.
MapFrameContextOnly(t, dst, src) ==
    LET from == frame[src] to == frame[dst] IN
    /\ Idle(t) /\ to.buf = None /\ from.buf # None
    /\ ~IsUnmap(to, from)
    /\ \E m \in Maps, c \in {from.ctx, to.ctx} \ {None} :
        /\ life[m] = "none"
        /\ Born(m)
        /\ parent' = [parent EXCEPT ![m] = c]
        /\ mapsrc' = [mapsrc EXCEPT ![m] = from]
        /\ rc' = Plus(rc, <<from.ctx, c, m>>)
        /\ frame' = [frame EXCEPT ![dst].buf = m]
    /\ UNCHANGED <<source, stage, pool, held, todo>>

\* ff_hwframe_map_create, called by the map_from of src's driver or the map_to
\* of dst's.
MapFrame(t, dst, src) ==
    LET from == frame[src] to == frame[dst] IN
    /\ Idle(t) /\ to.buf = None /\ from.buf # None
    /\ ~IsUnmap(to, from)
    /\ \E m \in Maps, c \in {from.ctx, to.ctx} \ {None} :
        /\ life[m] = "none"
        /\ Born(m)
        /\ parent' = [parent EXCEPT ![m] = c]
        /\ mapsrc' = [mapsrc EXCEPT ![m] = from]
        /\ rc' = Plus(rc, RefsOf(from) \o <<c, m>>)
        /\ frame' = [frame EXCEPT ![dst].buf = m]
    /\ UNCHANGED <<source, stage, pool, held, todo>>

\* The unmapping: dst becomes another reference to what src was mapped from,
\* or empty when that fails.
UnmapFrame(t, dst, src) ==
    LET from == frame[src] to == frame[dst] IN
    /\ Idle(t) /\ dst # src /\ from.buf \in Maps
    /\ IsUnmap(to, from)
    /\ Push(t, DropRefs(to))
    /\ \/ /\ frame' = [frame EXCEPT ![dst] = mapsrc[from.buf]]
          /\ rc' = Plus(rc, RefsOf(mapsrc[from.buf]))
       \/ frame' = [frame EXCEPT ![dst] = Empty] /\ UNCHANGED rc
    /\ UNCHANGED <<life, parent, source, stage, pool, mapsrc, held>>

\* ff_hwframe_map_replace, as a driver calls it that maps src through a third
\* kind of frame: the mapping of dst refers to the temporary frame's mapping
\* via, then to src itself, or to nothing when that fails.
MapThrough(t, dst, src) ==
    LET from == frame[src] to == frame[dst] IN
    /\ Idle(t) /\ to.buf = None /\ from.buf # None
    /\ from.ctx # None /\ to.ctx # None /\ ~IsUnmap(to, from)
    /\ \E m, via \in {x \in Maps : life[x] = "none"} :
        /\ m # via
        /\ life' = [life EXCEPT ![m] = "live", ![via] = "live"]
        /\ parent' = [parent EXCEPT ![m] = to.ctx, ![via] = from.ctx]
        /\ frame' = [frame EXCEPT ![dst].buf = m]
        /\ \E got \in {from, Empty} :
            /\ mapsrc' = [mapsrc EXCEPT ![via] = from, ![m] = got]
            /\ rc' = Plus(rc, RefsOf(from) \o RefsOf(got)
                                \o <<from.ctx, to.ctx, via, via, m>>)
        /\ Push(t, Drop(via) \o Drop(via))
    /\ UNCHANGED <<source, stage, pool, held>>
-----------------------------------------------------------------------------
\* av_frame_ref, av_frame_move_ref and av_frame_unref.
FrameRef(t, dst, src) ==
    /\ Idle(t) /\ frame[dst] = Empty /\ frame[src].buf # None
    /\ frame' = [frame EXCEPT ![dst] = frame[src]]
    /\ rc' = Plus(rc, RefsOf(frame[src]))
    /\ UNCHANGED <<life, parent, source, stage, pool, mapsrc, held, todo>>

FrameMove(t, dst, src) ==
    /\ Idle(t) /\ frame[dst] = Empty /\ frame[src] # Empty
    /\ frame' = [frame EXCEPT ![dst] = frame[src], ![src] = Empty]
    /\ UNCHANGED <<life, rc, parent, source, stage, pool, mapsrc, held, todo>>

FrameUnref(t, f) ==
    /\ Idle(t) /\ frame[f] # Empty
    /\ Push(t, DropRefs(frame[f]))
    /\ frame' = [frame EXCEPT ![f] = Empty]
    /\ UNCHANGED <<life, rc, parent, source, stage, pool, mapsrc, held>>

\* The user drops a reference to a device or a context.
DropHandle(t, o) ==
    /\ Idle(t) /\ held[o] > 0
    /\ held' = [held EXCEPT ![o] = @ - 1]
    /\ Push(t, Drop(o))
    /\ UNCHANGED <<life, rc, parent, source, stage, pool, mapsrc, frame>>
-----------------------------------------------------------------------------
\* The free callbacks: hwdevice_ctx_free, hwframe_ctx_free, ff_hwframe_unmap,
\* and for a surface pool_release_buffer.  frames_uninit stands for the uninit
\* of the internal pool, the driver's frames_uninit and the user's free().
DeviceFree(d) ==
    <<Call("device_uninit", d)>> \o Drop(source[d]) \o <<Call("free", d)>>

ContextFree(c) ==
    <<Call("frames_uninit", c)>>
       \o Drop(source[c]) \o Drop(parent[c]) \o <<Call("free", c)>>

Unmap(m) ==
    <<Call("unmap", m)>> \o DropRefs(mapsrc[m]) \o Drop(parent[m])
       \o <<Call("free", m)>>

FreeCallback(o) ==
    IF o \in Devices THEN DeviceFree(o)
    ELSE IF o \in Contexts THEN ContextFree(o)
    ELSE IF o \in Maps THEN Unmap(o)
    ELSE <<Call("pool_release", o)>>

\* av_buffer_unref.
Unref(t, o) ==
    /\ rc' = [rc EXCEPT ![o] = @ - 1]
    /\ IF rc[o] = 1
       THEN /\ life' = [life EXCEPT ![o] = "dying"]
            /\ todo' = [todo EXCEPT ![t] = FreeCallback(o) \o Tail(@)]
       ELSE /\ UNCHANGED life
            /\ todo' = [todo EXCEPT ![t] = Tail(@)]
    /\ UNCHANGED <<parent, source, stage, pool, mapsrc>>

\* A pool that was uninited is freed, with all its surfaces, by whoever finds
\* none of them in use any more.
PoolFreed(c, lives) ==
    LET gone == {s \in Surfaces : parent[s] = c} IN
    /\ pool' = [pool EXCEPT ![c] = "none"]
    /\ life' = [o \in Objects |-> IF o \in gone THEN "none" ELSE lives[o]]
    /\ parent' = [o \in Objects |-> IF o \in gone THEN None ELSE parent[o]]

InUse(c, lives) ==
    \E s \in Surfaces : parent[s] = c /\ lives[s] \in {"live", "dying"}

PoolRelease(s) ==
    LET c == parent[s]
        lives == [life EXCEPT ![s] = "idle"]
    IN  IF pool[c] = "closed" /\ ~InUse(c, lives)
        THEN PoolFreed(c, lives)
        ELSE life' = lives /\ UNCHANGED <<pool, parent>>

PoolUninit(c) ==
    IF pool[c] = "none" THEN UNCHANGED <<pool, life, parent>>
    ELSE IF InUse(c, life)
    THEN pool' = [pool EXCEPT ![c] = "closed"] /\ UNCHANGED <<life, parent>>
    ELSE PoolFreed(c, life)

\* The end of a free callback: the structure is deallocated.
Dealloc(o) ==
    /\ life' = [life EXCEPT ![o] = "none"]
    /\ parent' = [parent EXCEPT ![o] = None]
    /\ source' = [x \in DOMAIN source |-> IF x = o THEN None ELSE source[x]]
    /\ stage' = [c \in Contexts |-> IF c = o THEN "new" ELSE stage[c]]
    /\ mapsrc' = [m \in Maps |-> IF m = o THEN Empty ELSE mapsrc[m]]
    /\ UNCHANGED <<rc, pool>>

\* The next call a thread has to make.  Drivers' callbacks change nothing here.
Step(t) ==
    /\ ~Idle(t)
    /\ UNCHANGED <<frame, held>>
    /\ LET call == Head(todo[t]) IN
       \/ call.what = "unref" /\ Unref(t, call.obj)
       \/ /\ call.what # "unref"
          /\ todo' = [todo EXCEPT ![t] = Tail(@)]
          /\ \/ /\ \/ call.what = "pool_release" /\ PoolRelease(call.obj)
                   \/ call.what = "frames_uninit" /\ PoolUninit(call.obj)
                   \/ /\ call.what \in {"device_uninit", "unmap"}
                      /\ UNCHANGED <<life, parent, pool>>
                /\ UNCHANGED <<rc, source, stage, mapsrc>>
             \/ call.what = "free" /\ Dealloc(call.obj)

Next == \E t \in Threads :
    \/ \E d \in Devices : DeviceCreate(t, d)
    \/ \E d, src \in Devices : DeviceDeriveNew(t, d, src)
    \/ \E d, src \in Devices : DeviceDeriveKnown(t, Type[d], src)
    \/ \E c \in Contexts, d \in Devices : ContextAlloc(t, c, d)
    \/ \E c \in Contexts : ContextInit(t, c)
    \/ \E c, src \in Contexts, d \in Devices : ContextDeriveNew(t, c, d, src)
    \/ \E src \in Contexts, d \in Devices : ContextDeriveBack(t, d, src)
    \/ \E c \in Contexts, f \in Frames :
          \/ GetBuffer(t, c, f) \/ GetBufferDerived(t, c, f)
          \/ SetFramesCtx(t, f, c)
    \/ \E dst, src \in Frames :
          \/ MapFrame(t, dst, src) \/ UnmapFrame(t, dst, src)
          \/ MapThrough(t, dst, src)
          \/ FrameRef(t, dst, src) \/ FrameMove(t, dst, src)
    \/ \E f \in Frames : FrameUnref(t, f)
    \/ \E o \in Devices \union Contexts : DropHandle(t, o)
    \/ Step(t)

Spec == Init /\ [][Next]_vars
-----------------------------------------------------------------------------
(***************************************************************************)
(* Properties                                                              *)
(***************************************************************************)
Lives == {"none", "live", "idle", "dying"}
Frame == [buf : Surfaces \union Maps \union {None}, ctx : Contexts \union {None}]
Calls == [what : {"unref", "device_uninit", "frames_uninit", "unmap",
                  "pool_release", "free"}, obj : Objects]

\* Only surfaces are idle; what is not in use has no references, what is has.
TypeOK ==
    /\ life \in [Objects -> Lives]
    /\ rc \in [Objects -> Nat]
    /\ parent \in [Objects -> Objects \union {None}]
    /\ source \in [Devices \union Contexts -> Devices \union Contexts \union {None}]
    /\ stage \in [Contexts -> {"new", "ready", "failed"}]
    /\ pool \in [Contexts -> {"none", "open", "closed"}]
    /\ mapsrc \in [Maps -> Frame]
    /\ frame \in [Frames -> Frame]
    /\ held \in [Devices \union Contexts -> 0 .. MaxHandles]
    /\ \A t \in Threads : todo[t] \in Seq(Calls)
    /\ \A o \in Objects : (life[o] = "live") <=> (rc[o] > 0)
    /\ \A o \in Objects : life[o] = "idle" => o \in Surfaces

\* A driver's callback finds what its raw pointers lead to: unmap, the release
\* of a surface and frames_uninit run while the frames context, the pool, the
\* device and what it was derived from are there, device_uninit while the
\* device it was derived from is.
Usable(d) == /\ life[d] = "live"
             /\ \A a \in Ancestors(d) : life[a] = "live"

CallbacksSeeLiveContexts ==
    \A t \in Threads : ~Idle(t) =>
        LET call == Head(todo[t])
            o == call.obj
        IN  /\ call.what = "unmap" =>
                  life[parent[o]] = "live" /\ Usable(parent[parent[o]])
            /\ call.what = "pool_release" =>
                  /\ life[parent[o]] = "live" /\ Usable(parent[parent[o]])
                  /\ pool[parent[o]] = "open"
            /\ call.what = "frames_uninit" =>
                  /\ Usable(parent[o])
                  /\ source[o] # None => life[source[o]] = "live"
            /\ call.what = "device_uninit" /\ source[o] # None => Usable(source[o])

CallbacksFindContexts == TypeOK /\ CallbacksSeeLiveContexts

\* A surface the pool can give away again is referred to by no frame and is
\* the source of no mapping, through whatever frames it was mapped, unmapped
\* and replaced.
SurfacesReusedWhenFree ==
    \A s \in Surfaces : life[s] \in {"idle", "none"} =>
        /\ \A f \in Frames : frame[f].buf # s
        /\ \A m \in Maps : life[m] = "live" => mapsrc[m].buf # s

\* When the user has dropped every frame and reference and no call is under
\* way, nothing is left, whatever failed before.
NothingLeaks ==
    (/\ \A t \in Threads : Idle(t)
     /\ \A o \in DOMAIN held : held[o] = 0
     /\ \A f \in Frames : frame[f] = Empty)
    => \A o \in Objects : life[o] = "none"
=============================================================================
