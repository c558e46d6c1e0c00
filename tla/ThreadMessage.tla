--------------------------- MODULE ThreadMessage ---------------------------
(***************************************************************************)
(* libavutil/threadmessage.c: a message queue between threads, a mutex and *)
(* two conditions around the circular buffer of Fifo.                      *)
(*                                                                         *)
(* The mutex is only held inside one action: an action is the code from    *)
(* the lock, or from the return of pthread_cond_wait, to the unlock or the *)
(* next pthread_cond_wait.  A unit of the fifo is one message (elsize).    *)
(***************************************************************************)
EXTENDS Fifo, FiniteSets

CONSTANTS Senders,     \* threads that may send
          Receivers,   \* threads that may receive; a thread may be both
          Msgs,        \* what a sender may put in a message
          Errors,      \* error codes of set_err_send and set_err_recv
          Capacities,  \* nelem arguments of av_thread_message_queue_alloc
          MaxElems     \* INT_MAX / elsize

NoError == 0

\* INT_MAX is below 2^32, so that a full fifo's size is never taken modulo.
ASSUME ThreadMessageAssumption ==
    /\ Capacities \subseteq Nat
    /\ MaxElems \in Nat /\ MaxElems < IndexModulus
    /\ Garbage \notin Msgs
    /\ NoError \notin Errors
    /\ IsFiniteSet(Senders) /\ IsFiniteSet(Receivers)

Threads == Senders \union Receivers

VARIABLES
    life,            \* is there a queue: "none", "live" or "freed"
    fifo, err_send, err_recv, free_func,
    call,            \* the send or receive each thread is inside of
    waiting_send,    \* threads blocked on cond_send, not signalled
    waiting_recv,    \* threads blocked on cond_recv, not signalled
    result           \* what the last call to return gave its caller

errVars  == <<err_send, err_recv>>
waitVars == <<waiting_send, waiting_recv>>
vars == <<life, fifo, errVars, free_func, call, waitVars, result>>

Idle == [op |-> "idle", msg |-> Garbage, nonblock |-> FALSE]

\* The call of t returns r.
Return(t, r) == /\ call' = [call EXCEPT ![t] = Idle]
                /\ result' = r

\* pthread_cond_signal: wakes one of the waiting threads, if there is one.
Wakes(waiting, left) == IF waiting = {} THEN left = {}
                        ELSE \E t \in waiting : left = waiting \ {t}

Init ==
    /\ life = "none"
    /\ fifo = Alloc(0)
    /\ err_send = NoError /\ err_recv = NoError
    /\ free_func = FALSE
    /\ call = [t \in Threads |-> Idle]
    /\ waiting_send = {} /\ waiting_recv = {}
    /\ result = <<"none">>
-----------------------------------------------------------------------------
\* Variant for mutation: the test against INT_MAX / elsize is missing.
QueueAllocUnchecked(nelem) ==
    /\ life = "none"
    /\ fifo' = Alloc(nelem)
    /\ life' = "live"
    /\ UNCHANGED <<errVars, free_func, call, waitVars, result>>

\* av_thread_message_queue_alloc: INT_MAX bounds the size of the fifo, and a
\* failing allocation or pthread call undoes the earlier ones (QueueAllocFails).
QueueAlloc(nelem) ==
    /\ life = "none"
    /\ nelem <= MaxElems
    /\ fifo' = Alloc(nelem)
    /\ life' = "live"
    /\ UNCHANGED <<errVars, free_func, call, waitVars, result>>

QueueAllocFails == life = "none" /\ UNCHANGED vars

\* av_thread_message_queue_set_free_func takes no lock: the caller sets the
\* function while no other thread is inside a call that uses it.
SetFreeFunc(set) ==
    /\ life = "live"
    /\ free_func' = set
    /\ UNCHANGED <<life, fifo, errVars, call, waitVars, result>>

NbElems ==
    /\ life = "live"
    /\ result' = <<"count", Size(fifo)>>
    /\ UNCHANGED <<life, fifo, errVars, free_func, call, waitVars>>
-----------------------------------------------------------------------------
SendCall(t, m, nb) ==
    /\ life = "live" /\ call[t] = Idle
    /\ call' = [call EXCEPT ![t] = [op |-> "send", msg |-> m, nonblock |-> nb]]
    /\ UNCHANGED <<life, fifo, errVars, free_func, waitVars, result>>

\* The thread runs: it has called and not waited yet, or it was woken.
Sending(t) == call[t].op = "send" /\ t \notin waiting_send

\* The condition of the loop of send_locked.
MustWaitToSend == err_send = NoError /\ Space(fifo) < 1

\* Variant for mutation: the flag AV_THREAD_MESSAGE_NONBLOCK is not tested.
SendWaitsAlways(t) ==
    /\ Sending(t) /\ MustWaitToSend
    /\ waiting_send' = waiting_send \union {t}
    /\ UNCHANGED <<life, fifo, errVars, free_func, call, waiting_recv, result>>

SendWaits(t) ==
    /\ Sending(t) /\ MustWaitToSend /\ ~call[t].nonblock
    /\ waiting_send' = waiting_send \union {t}
    /\ UNCHANGED <<life, fifo, errVars, free_func, call, waiting_recv, result>>

SendWouldBlock(t) ==
    /\ Sending(t) /\ MustWaitToSend /\ call[t].nonblock
    /\ Return(t, <<"EAGAIN">>)
    /\ UNCHANGED <<life, fifo, errVars, free_func, waitVars>>

SendFails(t) ==
    /\ Sending(t) /\ err_send # NoError
    /\ Return(t, <<"error", err_send>>)
    /\ UNCHANGED <<life, fifo, errVars, free_func, waitVars>>

\* Variant for mutation: no receiver is signalled.
SendSucceedsNoSignal(t) ==
    /\ Sending(t) /\ ~MustWaitToSend /\ err_send = NoError
    /\ fifo' = Write(fifo, <<call[t].msg>>)
    /\ Return(t, <<"ok">>)
    /\ UNCHANGED <<life, errVars, free_func, waitVars>>

SendSucceeds(t) ==
    /\ Sending(t) /\ ~MustWaitToSend /\ err_send = NoError
    /\ fifo' = Write(fifo, <<call[t].msg>>)
    /\ Wakes(waiting_recv, waiting_recv')
    /\ Return(t, <<"ok">>)
    /\ UNCHANGED <<life, errVars, free_func, waiting_send>>

\* av_thread_message_queue_send after its lock, and send_locked.
SendStep(t) == SendWaits(t) \/ SendWouldBlock(t) \/ SendFails(t) \/ SendSucceeds(t)
-----------------------------------------------------------------------------
RecvCall(t, nb) ==
    /\ life = "live" /\ call[t] = Idle
    /\ call' = [call EXCEPT ![t] = [op |-> "recv", msg |-> Garbage,
                                    nonblock |-> nb]]
    /\ UNCHANGED <<life, fifo, errVars, free_func, waitVars, result>>

Receiving(t) == call[t].op = "recv" /\ t \notin waiting_recv

\* The condition of the loop of recv_locked.
MustWaitToRecv == err_recv = NoError /\ Size(fifo) < 1

RecvWaits(t) ==
    /\ Receiving(t) /\ MustWaitToRecv /\ ~call[t].nonblock
    /\ waiting_recv' = waiting_recv \union {t}
    /\ UNCHANGED <<life, fifo, errVars, free_func, call, waiting_send, result>>

RecvWouldBlock(t) ==
    /\ Receiving(t) /\ MustWaitToRecv /\ call[t].nonblock
    /\ Return(t, <<"EAGAIN">>)
    /\ UNCHANGED <<life, fifo, errVars, free_func, waitVars>>

\* Messages still queued are delivered before the error.
RecvFails(t) ==
    /\ Receiving(t) /\ ~MustWaitToRecv /\ Size(fifo) < 1
    /\ Return(t, <<"error", err_recv>>)
    /\ UNCHANGED <<life, fifo, errVars, free_func, waitVars>>

RecvSucceeds(t) ==
    /\ Receiving(t) /\ ~(Size(fifo) < 1)
    /\ Return(t, <<"message", ReadOut(fifo, 1)[1]>>)
    /\ fifo' = Drain(fifo, 1)
    /\ Wakes(waiting_send, waiting_send')
    /\ UNCHANGED <<life, errVars, free_func, waiting_recv>>

RecvStep(t) == RecvWaits(t) \/ RecvWouldBlock(t) \/ RecvFails(t) \/ RecvSucceeds(t)
-----------------------------------------------------------------------------
\* Variant for mutation: the error is set but the blocked senders not woken.
SetErrSendQuietly(err) ==
    /\ life = "live"
    /\ err_send' = err
    /\ UNCHANGED <<life, fifo, err_recv, free_func, call, waitVars, result>>

SetErrSend(err) ==
    /\ life = "live"
    /\ err_send' = err
    /\ waiting_send' = {}
    /\ UNCHANGED <<life, fifo, err_recv, free_func, call, waiting_recv, result>>

\* Variant for mutation: cond_recv is signalled instead of broadcast.
SetErrRecvSignal(err) ==
    /\ life = "live"
    /\ err_recv' = err
    /\ Wakes(waiting_recv, waiting_recv')
    /\ UNCHANGED <<life, fifo, err_send, free_func, call, waiting_send, result>>

SetErrRecv(err) ==
    /\ life = "live"
    /\ err_recv' = err
    /\ waiting_recv' = {}
    /\ UNCHANGED <<life, fifo, err_send, free_func, call, waiting_send, result>>

\* The messages av_thread_message_flush gives to free_func, in order.
FreedMessages ==
    IF free_func
      THEN [k \in 1 .. Size(fifo) |-> PeekAt(fifo, k - 1, 1)[1]]
      ELSE <<>>

\* Variant for mutation: one blocked sender is signalled, however many
\* messages the flush removed.
FlushSignal ==
    /\ life = "live"
    /\ result' = <<"freed", FreedMessages>>
    /\ fifo' = Drain(fifo, Size(fifo))
    /\ Wakes(waiting_send, waiting_send')
    /\ UNCHANGED <<life, errVars, free_func, call, waiting_recv>>

Flush ==
    /\ life = "live"
    /\ result' = <<"freed", FreedMessages>>
    /\ fifo' = Drain(fifo, Size(fifo))
    /\ waiting_send' = {}
    /\ UNCHANGED <<life, errVars, free_func, call, waiting_recv>>

\* av_thread_message_queue_free: "must no longer be in use by another thread".
QueueFree ==
    /\ life = "live" /\ \A t \in Threads : call[t] = Idle
    /\ result' = <<"freed", FreedMessages>>
    /\ fifo' = Alloc(0)
    /\ life' = "freed"
    /\ UNCHANGED <<errVars, free_func, call, waitVars>>

\* *mq is NULL.
QueueFreeNull == life = "freed" /\ UNCHANGED vars

\* POSIX lets pthread_cond_wait return without a signal.
SpuriousWakeup(t) ==
    /\ t \in waiting_send \union waiting_recv
    /\ waiting_send' = waiting_send \ {t}
    /\ waiting_recv' = waiting_recv \ {t}
    /\ UNCHANGED <<life, fifo, errVars, free_func, call, result>>
-----------------------------------------------------------------------------
\* Calls that never wait: any thread may make them at any time.
Control == \/ \E n \in Capacities : QueueAlloc(n)
           \/ QueueAllocFails
           \/ \E set \in BOOLEAN : SetFreeFunc(set)
           \/ NbElems
           \/ \E err \in Errors \union {NoError} :
                 SetErrSend(err) \/ SetErrRecv(err)
           \/ Flush
           \/ QueueFree
           \/ QueueFreeNull

Next == \/ Control
        \/ \E t \in Senders : \/ \E m \in Msgs, nb \in BOOLEAN : SendCall(t, m, nb)
                              \/ SendStep(t)
        \/ \E t \in Receivers : \/ \E nb \in BOOLEAN : RecvCall(t, nb)
                                \/ RecvStep(t)
        \/ \E t \in Threads : SpuriousWakeup(t)

\* A thread that is inside a call and not blocked is scheduled and, the mutex
\* being held only for short sections, gets it.
Fairness == /\ \A t \in Senders : WF_vars(SendStep(t))
            /\ \A t \in Receivers : WF_vars(RecvStep(t))

Spec == Init /\ [][Next]_vars /\ Fairness
-----------------------------------------------------------------------------
SendCalls == [op : {"send"}, msg : Msgs, nonblock : BOOLEAN]
RecvCalls == [op : {"recv"}, msg : {Garbage}, nonblock : BOOLEAN]

\* Every variable has its type; the queue never holds more than nelem
\* messages, and only the threads of a live queue are inside calls.
TypeOK ==
    /\ life \in {"none", "live", "freed"}
    /\ IsFifo(fifo, Msgs) /\ fifo.end <= MaxElems
    /\ err_send \in Errors \union {NoError} /\ err_recv \in Errors \union {NoError}
    /\ free_func \in BOOLEAN
    /\ call \in [Threads -> {Idle} \union SendCalls \union RecvCalls]
    /\ waiting_send \subseteq Senders /\ waiting_recv \subseteq Receivers
    /\ life # "live" => \A t \in Threads : call[t] = Idle

AwakeSenders   == {t \in Senders : Sending(t)}
AwakeReceivers == {t \in Receivers : Receiving(t)}

\* No wakeup is lost.  While a sender is blocked there are at least as many
\* woken senders on their way to the mutex as there are free places, so that
\* no free place is forgotten, and likewise for receivers and messages: one
\* signal per message or place is enough (threadmessage.c:133, 150, 232).
NoLostWakeup ==
    /\ waiting_send # {} => Space(fifo) <= Cardinality(AwakeSenders)
    /\ waiting_recv # {} => Size(fifo) <= Cardinality(AwakeReceivers)

\* A queue in error has no thread blocked on the side of the error: setting
\* it woke every one, and none goes to sleep afterwards (188 to 208).
NoneBlockedOnError ==
    /\ err_send # NoError => waiting_send = {}
    /\ err_recv # NoError => waiting_recv = {}

\* A blocked thread is inside the blocking call whose condition it waits on:
\* a non-blocking call never waits, a thread waits on one condition only and
\* the queue is not freed below it (threadmessage.c:124, 141).
OnlyBlockingCallsWait ==
    /\ \A t \in waiting_send : call[t].op = "send" /\ ~call[t].nonblock
    /\ \A t \in waiting_recv : call[t].op = "recv" /\ ~call[t].nonblock
    /\ waiting_send \union waiting_recv # {} => life = "live"

\* A blocked send (receive) returns once the error is set, unless the error
\* is reset first (threadmessage.h: "can be used to cause the sending thread
\* to stop").
ErrorReleases ==
    /\ \A t \in Senders :
          (call[t].op = "send" /\ err_send # NoError)
             ~> (call[t].op # "send" \/ err_send = NoError)
    /\ \A t \in Receivers :
          (call[t].op = "recv" /\ err_recv # NoError)
             ~> (call[t].op # "recv" \/ err_recv = NoError)

Channel == INSTANCE MessageChannel WITH
             NoMsg      <- Garbage,
             Capacities <- {n \in Capacities : n <= MaxElems},
             cap        <- IF life = "live" THEN fifo.end ELSE 0,
             chan       <- Contents(fifo)

\* The queue implements MessageChannel: messages come out once and in order,
\* calls return what they should, a full (empty) queue blocks, and a call
\* that the channel lets complete is followed by the completion of one.
ImplementsChannel == Channel!Spec
=============================================================================
