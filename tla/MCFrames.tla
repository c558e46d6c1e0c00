------------------------------ MODULE MCFrames ------------------------------
(***************************************************************************)
(* Values for TLC: frames with their hardware contexts in several threads, *)
(* or software frames with all that they own in one; a behaviour is of one *)
(* kind.                                                                   *)
(***************************************************************************)
EXTENDS HwContext, TLC

CONSTANTS t1, t2, d1, d2, c1, c2, s1, s2, map1, map2, f1, f2
CONSTANTS Kinds, Temporary, NumPtrs, Types, Null, User,
          NbBuffers, NbCells, MaxSide, MaxExtras

VARIABLES kind, soft, memory, lastFrame

const_Planes == [video |-> 1, planar |-> 2, hw |-> 1]

softVars == <<soft, memory, lastFrame>>

Soft == INSTANCE Frame WITH frame <- soft, Planes <- const_Planes

const_Threads  == {t1, t2}
const_Devices  == {d1, d2}
const_Type     == [d \in Devices |-> d]
const_Contexts == {c1, c2}
const_Surfaces == {s1, s2}
const_Maps     == {map1, map2}
const_Frames   == {f1, f2}

\* Bound: at most six of the eight objects exist when a call begins or goes on,
\* five beside two frames in use, four while both threads are inside calls.
Bounded ==
    kind = "hw" => Cardinality({o \in Objects : life[o] # "none"}) <=
        IF \A t \in Threads : ~Idle(t) THEN 4
        ELSE IF \A f \in Frames : frame[f] # Empty THEN 5 ELSE 6

\* Bound: side data, metadata and references of the user's, beside tables none
\* and beside several planes or a hardware context one.
One(p) == IF p = Null THEN 0 ELSE 1
Listed(x) == Len(SelectSeq(x.side, LAMBDA sd : sd.type \in Types))
Extras(x) == Listed(x) + One(x.meta) + One(x.opaque)
HasTable(x) == x.qp # Null \/ Listed(x) < Len(x.side)
FewExtras ==
    Extras(soft[f1]) + Extras(soft[f2]) <=
        IF \E f \in Frames : HasTable(soft[f]) THEN 0
        ELSE IF \E f \in Frames : soft[f].format \in {"planar", "hw"} THEN 1
        ELSE MaxExtras

\* Only one of them does anything.
MCInit == kind \in Kinds /\ Init /\ Soft!FrameInit

SoftNext == Soft!FrameNext /\ FewExtras'

MCNext == /\ UNCHANGED kind
          /\ \/ kind = "hw" /\ Next /\ UNCHANGED softVars
             \/ kind = "soft" /\ SoftNext /\ UNCHANGED vars

MCSpec == MCInit /\ [][MCNext]_<<kind, vars, softVars>>
-----------------------------------------------------------------------------
\* What Frame says of the software frames.
FramesOwnTheirs     == kind = "soft" => Soft!FramesOwnTheirs /\ Soft!PointersAreBacked
WritableOrUnchanged == [][Soft!WritableOrUnchanged]_softVars
RemovedIsGone       == [][Soft!RemovedIsGone]_softVars

\* Identities are interchangeable; two devices differ in their type only.  (Those
\* of mappings are, too, but it takes less time to tell them apart.)
Symmetry == Permutations(const_Threads) \union Permutations(const_Devices)
              \union Permutations(const_Contexts) \union Permutations(const_Surfaces)
              \union Permutations(const_Frames)

\* Buffers in the order in which the frames refer to them, with their counts, and
\* cells without their addresses.
Order == Soft!BuffersOf(soft[f1]) \o Soft!BuffersOf(soft[f2])
Numbers(bufs, order) ==
    [i \in DOMAIN bufs |-> IF \E j \in DOMAIN order : order[j] = bufs[i]
                           THEN CHOOSE j \in DOMAIN order : order[j] = bufs[i]
                           ELSE bufs[i]]
Shape(x, order) ==
    <<x.format, Numbers(x.data, order), Numbers(x.pointers, order),
      Numbers(Soft!BuffersOf(x), order), Len(x.buf), x.qp = Null, x.hw = Null,
      x.opaque = Null, x.private = Null,
      IF x.extended \in Frames \union {Null} THEN x.extended ELSE 0,
      x.ext = Null, x.sides = Null, x.meta = Null,
      [i \in DOMAIN x.side |-> <<x.side[i].type, x.side[i].meta = Null>>]>>
SoftView ==
    LET order == Order IN
    <<Shape(soft[f1], order), Shape(soft[f2], order), [i \in DOMAIN order |-> memory.rc[order[i]]],
      Cardinality({b \in DOMAIN memory.rc : memory.rc[b] # 0}),
      Cardinality(memory.cells), memory.bad>>

View == <<kind, IF kind = "hw" THEN vars ELSE SoftView>>
=============================================================================
