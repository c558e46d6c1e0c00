---------------------------- MODULE CodecRegistry ----------------------------
(***************************************************************************)
(* libavcodec/allcodecs.c: the table of codecs, and the two things done    *)
(* once before it is used.  The first iteration runs every codec's         *)
(* init_static_data; the first call of the older interface links the       *)
(* codecs into a list, by an iteration that may be the first one.  Threads *)
(* come here unprepared and at the same time.                              *)
(*                                                                         *)
(* Codec k is codec_list[k - 1]; position NbCodecs + 1 holds the NULL that *)
(* ends the table, and NULL is 0.  The lists of parsers.c and allfilters.c *)
(* are linked by the same code without a static initialisation.            *)
(***************************************************************************)
EXTENDS Integers

CONSTANTS Threads, NbCodecs

ASSUME CodecRegistryAssumption == NbCodecs \in Nat \ {0}

VARIABLES staticInit, nextInit,  \* the two AVOnce
          ready,                 \* codecs whose init_static_data has run
          next,                  \* AVCodec.next
          call,                  \* what each thread is at
          got                    \* what a call has just given

vars == <<staticInit, nextInit, ready, next, call, got>>

Codecs == 1 .. NbCodecs
NULL   == 0

\* i: where the iteration is; linking: it is av_codec_init_next's.
Idle   == [op |-> "none", at |-> "idle", arg |-> NULL, i |-> 1, linking |-> FALSE, upto |-> 1]
Nothing == [op |-> "none", arg |-> NULL, codec |-> NULL]

Init ==
    /\ staticInit = "no" /\ nextInit = "no"
    /\ ready = {} /\ next = [c \in Codecs |-> NULL]
    /\ call = [t \in Threads |-> Idle] /\ got = Nothing

At(t, where) == call[t].at = where

Goto(t, where) == call' = [call EXCEPT ![t].at = where]

Returns(t, codec) ==
    /\ got' = [op |-> call[t].op, arg |-> call[t].arg, codec |-> codec]
    /\ call' = [call EXCEPT ![t] = Idle]
-----------------------------------------------------------------------------
\* av_codec_iterate, for a caller that has got as far as position i.
CallIterate(t, i) ==
    /\ At(t, "idle")
    /\ call' = [call EXCEPT ![t] = [Idle EXCEPT !.op = "iterate", !.at = "static", !.i = i]]
    /\ got' = Nothing /\ UNCHANGED <<staticInit, nextInit, ready, next>>

\* ff_thread_once(&av_codec_static_init, ...): the first runs the routine, and
\* the others wait until it has run.
StaticOnce(t) ==
    /\ At(t, "static")
    /\ \/ /\ staticInit = "no" /\ staticInit' = "running"
          /\ call' = [call EXCEPT ![t].at = "init", ![t].upto = 1]
       \/ staticInit = "done" /\ Goto(t, "iterated") /\ UNCHANGED staticInit
    /\ UNCHANGED <<nextInit, ready, next, got>>

\* One turn of av_codec_init_static, and its end.
InitStatic(t) ==
    LET c == call[t].upto IN
    /\ At(t, "init")
    /\ IF c \in Codecs
       THEN /\ ready' = ready \union {c}
            /\ call' = [call EXCEPT ![t].upto = c + 1]
            /\ UNCHANGED staticInit
       ELSE staticInit' = "done" /\ Goto(t, "iterated") /\ UNCHANGED ready
    /\ UNCHANGED <<nextInit, next, got>>

IterateReturns(t) ==
    /\ At(t, "iterated") /\ ~call[t].linking
    /\ Returns(t, IF call[t].i \in Codecs THEN call[t].i ELSE NULL)
    /\ UNCHANGED <<staticInit, nextInit, ready, next>>

\* av_codec_next, avcodec_register and avcodec_register_all.
CallNext(t, op, c) ==
    /\ At(t, "idle")
    /\ call' = [call EXCEPT ![t] = [Idle EXCEPT !.op = op, !.at = "next", !.arg = c]]
    /\ got' = Nothing /\ UNCHANGED <<staticInit, nextInit, ready, next>>

\* Variant for mutation: whoever finds the list being linked goes on.
NextOnceNoWait(t) ==
    /\ At(t, "next")
    /\ IF nextInit = "no" THEN /\ nextInit' = "running"
                               /\ call' = [call EXCEPT ![t].at = "static", ![t].linking = TRUE]
                          ELSE Goto(t, "linked") /\ UNCHANGED nextInit
    /\ UNCHANGED <<staticInit, ready, next, got>>

\* ff_thread_once(&av_codec_next_init, av_codec_init_next), whose loop begins
\* by an av_codec_iterate.
NextOnce(t) ==
    /\ At(t, "next")
    /\ \/ /\ nextInit = "no" /\ nextInit' = "running"
          /\ call' = [call EXCEPT ![t].at = "static", ![t].linking = TRUE]
       \/ nextInit = "done" /\ Goto(t, "linked") /\ UNCHANGED nextInit
    /\ UNCHANGED <<staticInit, ready, next, got>>

\* One turn of av_codec_init_next, prev being the codec before, and its end.
Link(t) ==
    LET c == call[t].i IN
    /\ At(t, "iterated") /\ call[t].linking
    /\ IF c \in Codecs
       THEN /\ next' = [p \in Codecs |-> IF p = c - 1 THEN c ELSE next[p]]
            /\ call' = [call EXCEPT ![t].at = "static", ![t].i = c + 1]
            /\ UNCHANGED nextInit
       ELSE nextInit' = "done" /\ Goto(t, "linked") /\ UNCHANGED next
    /\ UNCHANGED <<staticInit, ready, got>>

NextReturns(t) ==
    /\ At(t, "linked")
    /\ Returns(t, IF call[t].op = "register" THEN NULL
                  ELSE IF call[t].arg # NULL THEN next[call[t].arg] ELSE 1)
    /\ UNCHANGED <<staticInit, nextInit, ready, next>>

Step(t) == \/ StaticOnce(t) \/ InitStatic(t) \/ IterateReturns(t)
           \/ NextOnce(t) \/ Link(t) \/ NextReturns(t)

Next == \E t \in Threads :
    \/ \E i \in 1 .. NbCodecs + 1 : CallIterate(t, i)
    \/ \E c \in Codecs \union {NULL} : CallNext(t, "next", c)
    \/ CallNext(t, "register", NULL)
    \/ Step(t)

Spec == Init /\ [][Next]_vars
-----------------------------------------------------------------------------
(***************************************************************************)
(* Properties                                                              *)
(***************************************************************************)
\* A codec that either interface hands out has had its static data
\* initialised, whichever thread did it (allcodecs.c:796).
CodecsReadyBeforeUse ==
    got.codec # NULL => got.codec \in ready

\* A walk by av_codec_next goes through the whole table in its order, also when
\* another thread is still linking the list.
CodecWalksAreWhole ==
    got.op = "next" => got.codec = IF got.arg = NbCodecs THEN NULL ELSE got.arg + 1
=============================================================================
