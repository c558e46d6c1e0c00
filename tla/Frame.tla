------------------------------- MODULE Frame -------------------------------
(***************************************************************************)
(* libavutil/frame.c: what an AVFrame owns.  References to buffers (of its *)
(* data, side data, tables and contexts), and memory of its own, cells:    *)
(* side data, metadata, and the arrays of frames with more planes than     *)
(* AV_NUM_DATA_POINTERS.  Any allocation of a call may fail.               *)
(*                                                                         *)
(* A frame's picture or sound is a number of planes with a buffer for each *)
(* (the planes of a picture share one and stand for one).                  *)
(***************************************************************************)
EXTENDS Integers, SequencesExt, FiniteSetsExt

CONSTANTS Frames,
          Temporary,   \* the frame on the stack of av_frame_make_writable
          Planes,      \* of each format; "hw" has one that cannot be allocated
          NumPtrs,     \* AV_NUM_DATA_POINTERS
          Types,       \* enum AVFrameSideDataType
          Null, User,  \* the NULL pointer; data that is not reference counted
          NbBuffers, NbCells, MaxSide   \* bounds: buffers and cells there are,
                                        \* side data of a frame

VARIABLES frame,     \* the frames
          memory,    \* rc: counts of the buffers; cells: those in use; bad:
                     \* something was freed that was not in use
          lastFrame  \* the last call

frameVars == <<frame, memory, lastFrame>>

Formats == DOMAIN Planes

\* get_frame_defaults, without what it frees: extended_data points to the data
\* array of the frame itself.
Defaults(f) == [format |-> Null, data |-> <<>>, extended |-> f, pointers |-> <<>>,
                buf |-> <<>>, extBuf |-> <<>>, ext |-> Null,
                side |-> <<>>, sides |-> Null, meta |-> Null,
                qp |-> Null, hw |-> Null, opaque |-> Null, private |-> Null]

FrameInit == /\ frame = [f \in Frames |-> Defaults(f)]
             /\ memory = [rc |-> [b \in 1 .. NbBuffers |-> 0], cells |-> {}, bad |-> FALSE]
             /\ lastFrame = [op |-> "none", ok |-> TRUE]
-----------------------------------------------------------------------------
\* A call works on the memory with two more fields: n, the allocations it has
\* tried, and fails, those that fail.
Succeeds(m) == m.n + 1 \notin m.fails

NewBuffer(m) ==
    LET free == {b \in DOMAIN m.rc : m.rc[b] = 0}
        Got(b) == [p |-> b, m |-> [m EXCEPT !.n = @ + 1,
                                            !.rc = IF b = Null THEN @ ELSE [@ EXCEPT ![b] = 1]]]
    IN  Got(IF free = {} \/ ~Succeeds(m) THEN Null ELSE Min(free))

\* av_buffer_ref.
Ref(m, b) ==
    [p |-> IF Succeeds(m) THEN b ELSE Null,
     m |-> [m EXCEPT !.n = @ + 1, !.rc[b] = IF Succeeds(m) THEN @ + 1 ELSE @]]

NewCell(m) ==
    LET free == (1 .. NbCells) \ m.cells
        Got(c) == [p |-> c, m |-> [m EXCEPT !.n = @ + 1, !.cells = @ \union ({c} \ {Null})]]
    IN  Got(IF free = {} \/ ~Succeeds(m) THEN Null ELSE Min(free))

Count(s, p) == Cardinality({i \in DOMAIN s : s[i] = p})

\* av_buffer_unref of each of a sequence, and av_freep of each of another, of
\* which any may be NULL.
Unrefs(m, bufs) ==
    [m EXCEPT !.bad = @ \/ \E b \in DOMAIN m.rc : Count(bufs, b) > m.rc[b],
              !.rc = [b \in DOMAIN m.rc |-> m.rc[b] - Count(bufs, b)]]

Frees(m, cells) ==
    LET Without(gone) ==
            [m EXCEPT !.bad = @ \/ ~IsInjective(gone) \/ ~(ToSet(gone) \subseteq m.cells),
                      !.cells = @ \ ToSet(gone)]
    IN  Without(SelectSeq(cells, LAMBDA c : c # Null))

\* One more reference to each of a sequence, up to the first that fails.
RefAll(m, bufs) ==
    LET failing == {i \in DOMAIN bufs : m.n + i \in m.fails}
        Got(got, tried) ==
            [got |-> got, ok |-> failing = {},
             m |-> [m EXCEPT !.n = @ + tried,
                             !.rc = [b \in DOMAIN m.rc |-> m.rc[b] + Count(got, b)]]]
    IN  IF failing = {} THEN Got(bufs, Len(bufs))
        ELSE Got(SubSeq(bufs, 1, Min(failing) - 1), Min(failing))

NewBuffers(m, n) ==
    LET More(r, new) == IF new.p = Null THEN [r EXCEPT !.m = new.m, !.ok = FALSE]
                        ELSE [r EXCEPT !.m = new.m, !.got = Append(@, new.p)]
    IN  FoldLeft(LAMBDA r, i : IF r.ok THEN More(r, NewBuffer(r.m)) ELSE r,
                 [got |-> <<>>, m |-> m, ok |-> TRUE], [i \in 1 .. n |-> i])

Refcounted(x) == x.buf # <<>>

FirstOf(s) == SubSeq(s, 1, IF Len(s) < NumPtrs THEN Len(s) ELSE NumPtrs)
RestOf(s)  == SubSeq(s, NumPtrs + 1, Len(s))

Ret(x, m, ok) == [x |-> x, m |-> m, ok |-> ok]
-----------------------------------------------------------------------------
\* free_side_data and wipe_side_data.
FreeSides(m, side) ==
    LET Each(Of(_)) == [i \in DOMAIN side |-> Of(side[i])] IN
    Frees(Unrefs(m, Each(LAMBDA sd : sd.buf)),
          Each(LAMBDA sd : sd.meta) \o Each(LAMBDA sd : sd.cell))

WipeSides(x, m) == [x |-> [x EXCEPT !.side = <<>>, !.sides = Null],
                    m |-> Frees(FreeSides(m, x.side), <<x.sides>>)]

\* av_frame_unref of the frame x at f.
FrameUnref(f, x, m) ==
    LET m1 == WipeSides(x, m).m
        m2 == Unrefs(m1, x.buf \o x.extBuf \o <<x.qp, x.hw, x.opaque, x.private>>)
        m3 == Frees(m2, <<x.ext, x.meta>>)
    IN  Ret(Defaults(f), IF x.extended = f THEN m3 ELSE Frees(m3, <<x.extended>>), TRUE)

Fail(f, x, m) == [FrameUnref(f, x, m) EXCEPT !.ok = FALSE]

\* av_frame_new_side_data_from_buf, which leaves buf to its caller when it
\* fails.  The array of side data keeps its address or gets another one.
AddSide(x, m, type, buf) ==
    LET Put(y, cell) ==
            IF cell.p = Null THEN Ret(y, cell.m, FALSE)
            ELSE Ret([y EXCEPT !.side = Append(@, [type |-> type, buf |-> buf,
                                                   meta |-> Null, cell |-> cell.p])],
                     cell.m, TRUE)
        Grown(array) ==
            IF array.p = Null THEN Ret(x, array.m, FALSE)
            ELSE Put([x EXCEPT !.sides = array.p], NewCell(array.m))
    IN  IF buf = Null THEN Ret(x, m, FALSE)
        ELSE IF x.sides # Null /\ Succeeds(m)
        THEN Grown([p |-> x.sides, m |-> [m EXCEPT !.n = @ + 1]])
        ELSE Grown(NewCell(m))

\* The callers of the above, which hold one new reference to buf.
AddSideOrDrop(x, new, type) ==
    LET OrDrop(r) == IF r.ok THEN r ELSE [r EXCEPT !.m = Unrefs(@, <<new.p>>)]
    IN  OrDrop(AddSide(x, new.m, type, new.p))

\* av_dict_copy, into no dictionary or one that grows; its failure goes unseen.
CopyMeta(m, to, from) ==
    IF from = Null \/ to # Null THEN [p |-> to, m |-> m] ELSE NewCell(m)

\* av_frame_remove_side_data: the last side data takes the place i of one that is
\* removed, and the loop goes on with i + 1.
RemoveFrom(side, m, type) ==
    FoldLeftDomain(
        LAMBDA r, i :
            IF i > Len(r.side) \/ r.side[i].type # type THEN r
            ELSE [side |-> Front([r.side EXCEPT ![i] = Last(r.side)]),
                  m |-> FreeSides(r.m, <<r.side[i]>>)],
        [side |-> side, m |-> m], side)

RemoveSide(x, m, type) ==
    LET With(r) == Ret([x EXCEPT !.side = r.side], r.m, TRUE) IN With(RemoveFrom(x.side, m, type))
-----------------------------------------------------------------------------
\* av_frame_get_buffer of the frame x at f, whose format is set: for a picture
\* one buffer, for sound the arrays first, if there are more planes than fit.
GetBuffer(f, x, m) ==
    LET n == Planes[x.format]
        Filled(y, new) == IF new.ok THEN Ret(y, new.m, TRUE) ELSE Fail(f, y, new.m)
        Fill(y, new) == Filled([y EXCEPT !.buf = FirstOf(new.got), !.extBuf = RestOf(new.got),
                                         !.data = FirstOf(new.got),
                                         !.pointers = IF n > NumPtrs THEN new.got ELSE <<>>],
                               new)
        Arrays(a, b) ==
            IF Null \in {a.p, b.p}
            THEN Ret([x EXCEPT !.extended = Null], Frees(b.m, <<a.p, b.p>>), FALSE)
            ELSE Fill([x EXCEPT !.extended = a.p, !.ext = b.p], NewBuffers(b.m, n))
        Array(a) == Arrays(a, NewCell(a.m))
    IN  IF x.format \in {Null, "hw"} THEN Ret(x, m, FALSE)
        ELSE IF n > NumPtrs THEN Array(NewCell(m))
        ELSE Fill([x EXCEPT !.extended = f], NewBuffers(m, n))

\* One side data of src in frame_copy_props: a copy of its own, or one more
\* reference.  When it fails all those of the frame go.
CopySide(x, m, sd, forceCopy) ==
    LET Wiped(w) == Ret(w.x, w.m, FALSE)
        WithMeta(y, d) == Ret([y EXCEPT !.side[Len(y.side)].meta = d.p], d.m, TRUE)
        Added(r) == IF r.ok THEN WithMeta(r.x, CopyMeta(r.m, Null, sd.meta))
                    ELSE Wiped(WipeSides(r.x, r.m))
    IN  Added(AddSideOrDrop(x, IF forceCopy THEN NewBuffer(m) ELSE Ref(m, sd.buf), sd.type))

\* A reference replaced by one to what src refers to.
CopyRef(m, from) == IF from = Null THEN [p |-> Null, m |-> m] ELSE Ref(m, from)

\* frame_copy_props: the metadata, the side data, then the table, opaque_ref and
\* private_ref.
CopyProps(x, src, m, forceCopy) ==
    LET Private(y, p) == Ret([y EXCEPT !.private = p.p], p.m, p.p # Null \/ src.private = Null)
        Opaque(y, o) == IF o.p = Null /\ src.opaque # Null THEN Ret(y, o.m, FALSE)
                        ELSE Private([y EXCEPT !.opaque = o.p], CopyRef(o.m, src.private))
        Table(y, q) == Opaque([y EXCEPT !.qp = q.p, !.opaque = Null, !.private = Null],
                              CopyRef(Unrefs(q.m, <<y.opaque, y.private>>), src.opaque))
        Refs(s) == IF s.ok THEN Table(s.x, CopyRef(Unrefs(s.m, <<x.qp>>), src.qp)) ELSE s
        Sides(d) == FoldLeft(LAMBDA r, sd : IF r.ok THEN CopySide(r.x, r.m, sd, forceCopy) ELSE r,
                             Ret([x EXCEPT !.meta = d.p], d.m, TRUE),
                             SelectSeq(src.side, LAMBDA sd : sd.type = "panscan"
                                                                => src.format = x.format))
    IN  Refs(Sides(CopyMeta(m, x.meta, src.meta)))

\* Variant for mutation: extended_data is not duplicated.
RefArraysShares(f, x, src, m) ==
    Ret([x EXCEPT !.extended = IF src.ext # Null THEN src.extended ELSE f,
                  !.pointers = src.pointers, !.data = src.data], m, TRUE)

\* "duplicate extended data", and the pointers to the data.
RefArrays(f, x, src, m) ==
    LET Duplicate(c) ==
            IF c.p = Null THEN Ret(x, c.m, FALSE)
            ELSE Ret([x EXCEPT !.extended = c.p, !.pointers = src.pointers, !.data = src.data],
                     c.m, TRUE)
    IN  IF src.pointers = <<>> THEN Ret([x EXCEPT !.extended = f, !.data = src.data], m, TRUE)
        ELSE Duplicate(NewCell(m))

\* The references av_frame_ref adds once the properties are copied: those to the
\* data, the array of the others and those, the hardware context.
RefBuffers(f, x, src, m) ==
    LET Context(y, h) == IF src.hw # Null /\ h.p = Null THEN Ret(y, h.m, FALSE)
                         ELSE RefArrays(f, [y EXCEPT !.hw = h.p], src, h.m)
        Others(y, e) == IF e.ok THEN Context([y EXCEPT !.extBuf = e.got], CopyRef(e.m, src.hw))
                        ELSE Ret([y EXCEPT !.extBuf = e.got], e.m, FALSE)
        Array(y, a) == IF a.p = Null THEN Ret(y, a.m, FALSE)
                       ELSE Others([y EXCEPT !.ext = a.p], RefAll(a.m, src.extBuf))
        Buffers(y, b) == IF ~b.ok THEN Ret(y, b.m, FALSE)
                         ELSE IF src.ext # Null THEN Array(y, NewCell(b.m))
                         ELSE Context(y, CopyRef(b.m, src.hw))
        First(b) == Buffers([x EXCEPT !.buf = b.got], b)
    IN  First(RefAll(m, src.buf))

\* av_frame_ref to the empty frame at f.  It leaves behind what it copied when
\* copying the properties fails; after that a failure empties the frame.  Data
\* that is not reference counted is copied.
FrameRef(f, src, m) ==
    LET OrNone(r) == IF r.ok THEN r ELSE Fail(f, r.x, r.m)
        WithProps(p) == IF ~p.ok THEN p
                        ELSE IF Refcounted(src) THEN OrNone(RefBuffers(f, p.x, src, p.m))
                        ELSE GetBuffer(f, p.x, p.m)
    IN  WithProps(CopyProps([Defaults(f) EXCEPT !.format = src.format], src, m, FALSE))

\* *dst = *src, and extended_data set right where src's led to src itself.
Assigned(f, g, y) == [y EXCEPT !.extended = IF y.extended = g THEN f ELSE @]

IsWritable(x) == /\ Refcounted(x)
                 /\ \A b \in ToSet(x.buf) \union ToSet(x.extBuf) : memory.rc[b] = 1

Made(f, x, p) ==
    Ret(Assigned(f, Temporary, p.x), FrameUnref(f, x, p.m).m, p.ok)

\* Variant for mutation: the temporary frame takes the place when its properties
\* could not be copied, too.
MadeAnyway(f, x, p) == Made(f, x, p)

\* What becomes of the temporary frame when its properties were copied or not.
MadeOrNot(f, x, p) ==
    IF p.ok THEN Made(f, x, p) ELSE Ret(x, Fail(Temporary, p.x, p.m).m, FALSE)

\* av_frame_make_writable of a frame that is not: all of it is copied to a
\* temporary one, which then takes its place.
MakeWritable(f, x, m) ==
    LET Copied(b) == IF b.ok THEN MadeOrNot(f, x, CopyProps(b.x, x, b.m, TRUE))
                     ELSE Ret(x, b.m, FALSE)
        Tmp == [Defaults(Temporary) EXCEPT !.format = x.format, !.extended = Null]
    IN  Copied(GetBuffer(Temporary, Tmp, m))

\* av_frame_set_qp_table, to which a reference to buf is given.
SetQp(x, m, buf) ==
    LET WithData(r) == IF r.ok THEN AddSideOrDrop(r.x, NewBuffer(r.m), "qp properties") ELSE r
        Put(d) == WithData(AddSideOrDrop(d.x, Ref(d.m, buf), "qp data"))
        Without(p) == Put(RemoveSide(p.x, p.m, "qp data"))
    IN  Without(RemoveSide([x EXCEPT !.qp = buf], Unrefs(m, <<x.qp>>), "qp properties"))
-----------------------------------------------------------------------------
Memory(fails) == [rc |-> memory.rc, cells |-> memory.cells, bad |-> memory.bad,
                  n |-> 0, fails |-> fails]

Returns(op, f, r) ==
    /\ frame' = [frame EXCEPT ![f] = r.x]
    /\ memory' = [rc |-> r.m.rc, cells |-> r.m.cells, bad |-> r.m.bad]
    /\ lastFrame' = [op |-> op, ok |-> r.ok]

\* A call on the frame at f, of whose allocations all succeed or one fails.
Call(op, f, Does(_)) ==
    \E fails \in {{}} \union {{i} : i \in 1 .. Does(Memory({})).m.n} :
        Returns(op, f, Does(Memory(fails)))

\* What the user of a frame puts into it: data of its own, a surface with its
\* frames context, references, metadata.
SetUserData(f) ==
    /\ frame[f] = Defaults(f)
    /\ Returns("user", f, Ret([frame[f] EXCEPT !.format = "video", !.data = <<User>>],
                               Memory({}), TRUE))

SetHw(f) ==
    LET b == NewBuffer(Memory({}))
        h == NewBuffer(b.m)
    IN  /\ frame[f] = Defaults(f) /\ h.p # Null
        /\ Returns("user", f, Ret([frame[f] EXCEPT !.format = "hw", !.data = <<b.p>>,
                                                  !.buf = <<b.p>>, !.hw = h.p], h.m, TRUE))

SetMeta(f) ==
    LET new == NewCell(Memory({})) IN
    /\ frame[f].meta = Null /\ new.p # Null
    /\ Returns("user", f, Ret([frame[f] EXCEPT !.meta = new.p], new.m, TRUE))

SetRefs(f) ==
    LET new == NewBuffers(Memory({}), 2) IN
    /\ frame[f].opaque = Null /\ frame[f].private = Null /\ new.ok
    /\ Returns("user", f, Ret([frame[f] EXCEPT !.opaque = new.got[1], !.private = new.got[2]],
                              new.m, TRUE))

SetSideMeta(f, i) ==
    LET new == NewCell(Memory({})) IN
    /\ frame[f].side[i].meta = Null /\ new.p # Null
    /\ Returns("user", f, Ret([frame[f] EXCEPT !.side[i].meta = new.p], new.m, TRUE))

Room(f, n) == Len(frame[f].side) + n <= MaxSide

\* The functions of frame.h.
Get(f, format) ==
    /\ frame[f].format \in {Null, format} /\ frame[f].data = <<>>
    /\ Call("get_buffer", f, LAMBDA m : GetBuffer(f, [frame[f] EXCEPT !.format = format], m))

Unreference(f) == /\ frame[f] # Defaults(f)
                  /\ Returns("unref", f, FrameUnref(f, frame[f], Memory({})))

Reference(f, g) ==
    /\ frame[f] = Defaults(f) /\ frame[g].format # Null
    /\ Call("ref", f, LAMBDA m : FrameRef(f, frame[g], m))

\* av_frame_clone, the frame at f being the one it allocates.
CloneOf(f, g, m) ==
    LET OrNone(r) == IF r.ok THEN r ELSE Fail(f, r.x, r.m) IN OrNone(FrameRef(f, frame[g], m))

Clone(f, g) ==
    /\ frame[f] = Defaults(f) /\ frame[g].format # Null
    /\ Call("clone", f, LAMBDA m : CloneOf(f, g, m))

Move(f, g) ==
    /\ frame[f] = Defaults(f) /\ frame[g] # Defaults(g)
    /\ frame' = [frame EXCEPT ![f] = Assigned(f, g, frame[g]), ![g] = Defaults(g)]
    /\ lastFrame' = [op |-> "move_ref", ok |-> TRUE]
    /\ UNCHANGED memory

Make(f) ==
    /\ Refcounted(frame[f]) /\ ~IsWritable(frame[f])
    /\ Call("make_writable", f, LAMBDA m : MakeWritable(f, frame[f], m))

Copy(f, g) ==
    /\ Room(f, Len(frame[g].side))
    /\ Call("copy_props", f, LAMBDA m : CopyProps(frame[f], frame[g], m, TRUE))

NewSide(f, type) ==
    /\ Room(f, 1)
    /\ Call("new_side_data", f, LAMBDA m : AddSideOrDrop(frame[f], NewBuffer(m), type))

RemoveSideData(f, type) ==
    Returns("remove_side_data", f, RemoveSide(frame[f], Memory({}), type))

\* The table is in a buffer of the caller's.
SetTable(f) ==
    LET new == NewBuffer(Memory({})) IN
    /\ new.p # Null /\ Room(f, 2)
    /\ Call("set_qp_table", f,
            LAMBDA m : SetQp(frame[f], [m EXCEPT !.rc = new.m.rc], new.p))

FrameNext ==
    \E f \in Frames :
        \/ SetUserData(f) \/ SetHw(f) \/ SetMeta(f) \/ SetRefs(f)
        \/ Unreference(f) \/ Make(f) \/ SetTable(f)
        \/ \E i \in DOMAIN frame[f].side : SetSideMeta(f, i)
        \/ \E type \in Types : NewSide(f, type) \/ RemoveSideData(f, type)
        \/ \E format \in Formats : Get(f, format)
        \/ \E g \in Frames \ {f} : Reference(f, g) \/ Clone(f, g) \/ Copy(f, g) \/ Move(f, g)
-----------------------------------------------------------------------------
(***************************************************************************)
(* Properties                                                              *)
(***************************************************************************)
BuffersOf(x) ==
    SelectSeq(x.buf \o x.extBuf \o [i \in DOMAIN x.side |-> x.side[i].buf]
                \o <<x.qp, x.hw, x.opaque, x.private>>, LAMBDA b : b # Null)

CellsOf(f, x) ==
    SelectSeq(<<x.ext, x.meta, x.sides>>
                \o (IF x.extended = f THEN <<>> ELSE <<x.extended>>)
                \o [i \in DOMAIN x.side |-> x.side[i].meta]
                \o [i \in DOMAIN x.side |-> x.side[i].cell], LAMBDA c : c # Null)

\* Every buffer has as many references as the frames hold, and every cell in use
\* has one owner, whatever was copied, moved or failed on the way: nothing is
\* freed twice and nothing is left behind.
FramesOwnTheirs ==
    LET bufs  == [f \in Frames |-> BuffersOf(frame[f])]
        cells == [f \in Frames |-> CellsOf(f, frame[f])]
        Slots(s) == UNION {{<<f, i>> : i \in DOMAIN s[f]} : f \in Frames}
    IN  /\ ~memory.bad
        /\ \A b \in DOMAIN memory.rc :
              memory.rc[b] = Cardinality({x \in Slots(bufs) : bufs[x[1]][x[2]] = b})
        /\ UNION {ToSet(cells[f]) : f \in Frames} = memory.cells
        /\ Cardinality(Slots(cells)) = Cardinality(memory.cells)

\* What a frame points to is its own, and what is writable is pointed to by no
\* other frame, by none of its planes.
PointsTo(x) == ToSet(x.data) \union ToSet(x.pointers)

PointersAreBacked ==
    \A f \in Frames :
        LET x == frame[f] IN
        /\ Refcounted(x) => PointsTo(x) \subseteq ToSet(x.buf) \union ToSet(x.extBuf)
        /\ Refcounted(x) => /\ x.extended \notin Frames \ {f}
                            /\ x.extended = Null => x.pointers = <<>>
        /\ IsWritable(x) =>
              \A g \in Frames \ {f} : PointsTo(frame[g]) \intersect PointsTo(x) = {}

\* av_frame_make_writable leaves the frame writable, or as it was.
WritableOrUnchanged ==
    \A f \in Frames :
        (lastFrame'.op = "make_writable" /\ frame'[f] # frame[f]) => lastFrame'.ok /\ IsWritable(frame[f])'

\* Side data that was removed is gone.
RemovedIsGone ==
    \A f \in Frames, type \in Types : RemoveSideData(f, type) => \A i \in DOMAIN frame'[f].side : frame'[f].side[i].type # type
=============================================================================
