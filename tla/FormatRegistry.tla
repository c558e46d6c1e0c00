--------------------------- MODULE FormatRegistry ---------------------------
(***************************************************************************)
(* libavformat/allformats.c: the tables of muxers (side "out") and         *)
(* demuxers (side "in"), and the devices that libavdevice adds to them     *)
(* later, while other threads may be walking through either table by       *)
(* av_muxer_iterate and av_demuxer_iterate or by the older lists.          *)
(*                                                                         *)
(* Formats 1 .. NbStatic of a side are in its table, the others in its     *)
(* list of devices once outdev_list or indev_list points to it; NULL is 0. *)
(***************************************************************************)
EXTENDS Integers

CONSTANTS Threads, NbStatic, NbDevices, None

VARIABLES listed,      \* sides whose list of devices is set
          mutex,       \* holder of avpriv_register_devices_mutex
          once,        \* av_format_next_init
          next,        \* AVOutputFormat.next, AVInputFormat.next
          registered,  \* some avpriv_register_devices has returned
          call,        \* what each thread is at
          got          \* what a call has just given

vars == <<listed, mutex, once, next, registered, call, got>>

Sides    == {"out", "in"}
Other(s) == IF s = "out" THEN "in" ELSE "out"
NULL     == 0
Fault    == -1   \* a NULL list was read
Formats  == 1 .. NbStatic + NbDevices

Idle    == [op |-> "none", at |-> "idle", side |-> "out", arg |-> NULL, pos |-> 1,
            runsOnce |-> FALSE, late |-> FALSE]
Nothing == [op |-> "none", side |-> "out", arg |-> NULL, late |-> FALSE, format |-> NULL]

Init ==
    /\ listed = {} /\ mutex = None /\ once = "no" /\ registered = FALSE
    /\ next = [s \in Sides |-> [f \in Formats |-> NULL]]
    /\ call = [t \in Threads |-> Idle] /\ got = Nothing

At(t, where)   == call[t].at = where
Goto(t, where) == call' = [call EXCEPT ![t].at = where]

Begins(t, op, where, side, arg) ==
    /\ At(t, "idle")
    /\ call' = [call EXCEPT ![t] = [Idle EXCEPT !.op = op, !.at = where, !.side = side,
                                                !.arg = arg, !.late = registered]]
    /\ got' = Nothing /\ UNCHANGED <<listed, mutex, once, next, registered>>

Returns(t, format) ==
    LET c == call[t] IN
    /\ got' = [op |-> c.op, side |-> c.side, arg |-> c.arg, late |-> c.late, format |-> format]
    /\ call' = [call EXCEPT ![t] = Idle]
-----------------------------------------------------------------------------
\* avpriv_register_devices: it sets the lists under the mutex, first outdev_list,
\* and links all formats again.
RegisterDevices(t) == Begins(t, "devices", "setOut", "out", NULL)

SetOutdev(t) ==
    /\ At(t, "setOut") /\ mutex = None
    /\ mutex' = t /\ listed' = listed \union {"out"} /\ Goto(t, "setIn")
    /\ UNCHANGED <<once, next, registered, got>>

SetIndev(t) ==
    /\ At(t, "setIn")
    /\ listed' = listed \union {"in"} /\ mutex' = None /\ Goto(t, "lock")
    /\ UNCHANGED <<once, next, registered, got>>

DevicesReturn(t) ==
    /\ At(t, "linked") /\ call[t].op = "devices"
    /\ registered' = TRUE /\ Returns(t, NULL)
    /\ UNCHANGED <<listed, mutex, once, next>>

\* av_iformat_next, av_oformat_next; av_register_all and its like.
CallNext(t, op, side, f) == Begins(t, op, "once", side, f)

Once(t) ==
    /\ At(t, "once")
    /\ \/ /\ once = "no" /\ once' = "running"
          /\ call' = [call EXCEPT ![t].at = "lock", ![t].runsOnce = TRUE]
       \/ once = "done" /\ Goto(t, "linked") /\ UNCHANGED once
    /\ UNCHANGED <<listed, mutex, next, registered, got>>

\* av_format_init_next: one store of a next at a time, through the table and,
\* if there is one, the list of devices, of the muxers and then the demuxers.
Lock(t) ==
    /\ At(t, "lock") /\ mutex = None
    /\ mutex' = t
    /\ call' = [call EXCEPT ![t].at = "link", ![t].pos = 1]
    /\ UNCHANGED <<listed, once, next, registered, got>>

LinkSide(t) == IF call[t].pos \in Formats THEN "out" ELSE "in"

\* Variant for mutation: the lists of devices are not linked.
LastToLinkStatic(s) == NbStatic

LastToLink(s) == IF s \in listed THEN NbStatic + NbDevices ELSE NbStatic

\* pos runs through the muxers' positions and on through the demuxers'.
Link(t) ==
    LET s == LinkSide(t)
        k == IF s = "out" THEN call[t].pos ELSE call[t].pos - NbStatic - NbDevices
    IN
    /\ At(t, "link") /\ call[t].pos <= 2 * (NbStatic + NbDevices)
    /\ next' = [next EXCEPT ![s] =
                  [f \in Formats |-> IF f = k - 1 /\ k <= LastToLink(s) THEN k ELSE @[f]]]
    /\ call' = [call EXCEPT ![t].pos = @ + 1]
    /\ UNCHANGED <<listed, mutex, once, registered, got>>

Unlock(t) ==
    /\ At(t, "link") /\ call[t].pos > 2 * (NbStatic + NbDevices)
    /\ mutex' = None
    /\ once' = IF call[t].runsOnce THEN "done" ELSE once
    /\ Goto(t, "linked")
    /\ UNCHANGED <<listed, next, registered, got>>

NextReturns(t) ==
    LET c == call[t] IN
    /\ At(t, "linked") /\ c.op # "devices"
    /\ Returns(t, IF c.op = "register" THEN NULL
                  ELSE IF c.arg # NULL THEN next[c.side][c.arg] ELSE 1)
    /\ UNCHANGED <<listed, mutex, once, next, registered>>

\* av_muxer_iterate and av_demuxer_iterate from after format f.  Beyond the
\* table they look at the other side's list and then read their own: two loads
\* that no lock keeps together.
CallIterate(t, side, f) == Begins(t, "iterate", "look", side, f)

Look(t) ==
    LET c == call[t] IN
    /\ At(t, "look")
    /\ IF c.arg < NbStatic THEN Returns(t, c.arg + 1)
       ELSE IF Other(c.side) \in listed THEN Goto(t, "read") /\ UNCHANGED got
       ELSE Returns(t, NULL)
    /\ UNCHANGED <<listed, mutex, once, next, registered>>

Read(t) ==
    LET c == call[t] IN
    /\ At(t, "read")
    /\ Returns(t, IF c.side \notin listed THEN Fault
                  ELSE IF c.arg + 1 \in Formats THEN c.arg + 1 ELSE NULL)
    /\ UNCHANGED <<listed, mutex, once, next, registered>>

\* A format that has been handed out may be given back, and NULL.
Known == {NULL} \union 1 .. NbStatic \union (IF listed = Sides THEN Formats ELSE {})

Next == \E t \in Threads :
    \/ RegisterDevices(t) \/ SetOutdev(t) \/ SetIndev(t) \/ DevicesReturn(t)
    \/ \E side \in Sides, f \in Known : CallNext(t, "next", side, f) \/ CallIterate(t, side, f)
    \/ CallNext(t, "register", "out", NULL)
    \/ Once(t) \/ Lock(t) \/ Link(t) \/ Unlock(t) \/ NextReturns(t)
    \/ Look(t) \/ Read(t)

Spec == Init /\ [][Next]_vars
-----------------------------------------------------------------------------
(***************************************************************************)
(* Properties                                                              *)
(***************************************************************************)
\* A call that began after the devices were registered goes on to the next
\* format or device; one that began before may end at the last static format
\* or, while the links are being stored, at a device.  A muxer iteration never
\* reads a missing list; that a demuxer iteration can, when it finds outdev_list
\* set and indev_list not yet (lines 522, 523), is left out here.
FormatWalksAreWhole ==
    got.op \in {"next", "iterate"} =>
        \/ got.format = IF got.arg + 1 \in Formats THEN got.arg + 1 ELSE NULL
        \/ got.format = NULL /\ got.arg >= NbStatic /\ ~got.late
        \/ got.format = Fault /\ got.side = "in" /\ got.op = "iterate" /\ ~got.late
=============================================================================
