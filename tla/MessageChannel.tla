--------------------------- MODULE MessageChannel ---------------------------
(***************************************************************************)
(* What libavutil/threadmessage.h promises, with no lock, condition or     *)
(* ring in sight: a bounded FIFO of messages between threads.  A blocked   *)
(* call completes when the channel lets it; a sending error ends every     *)
(* send, a receiving error ends a receive "when there are no longer        *)
(* available messages"; a flush frees the messages in order.               *)
(***************************************************************************)
EXTENDS Integers, Sequences

CONSTANTS Senders, Receivers, Msgs, Errors, Capacities, NoMsg

Threads == Senders \union Receivers

VARIABLES
    life,       \* "none", "live" or "freed"
    cap,        \* capacity in messages
    chan,       \* the messages, oldest first
    err_send, err_recv, free_func,
    call,       \* the send or receive each thread is in
    result      \* what the last call to return gave its caller

vars == <<life, cap, chan, err_send, err_recv, free_func, call, result>>

NoError == 0
Idle == [op |-> "idle", msg |-> NoMsg, nonblock |-> FALSE]

Init == /\ life = "none" /\ cap = 0 /\ chan = <<>>
        /\ err_send = NoError /\ err_recv = NoError /\ free_func = FALSE
        /\ call = [t \in Threads |-> Idle]
        /\ result = <<"none">>

Create(n) ==
    /\ life = "none" /\ life' = "live"
    /\ cap' = n
    /\ UNCHANGED <<chan, err_send, err_recv, free_func, call, result>>

Call(t, c) ==
    /\ life = "live" /\ call[t] = Idle
    /\ call' = [call EXCEPT ![t] = c]
    /\ UNCHANGED <<life, cap, chan, err_send, err_recv, free_func, result>>

Return(t, r) ==
    /\ call' = [call EXCEPT ![t] = Idle]
    /\ result' = r
    /\ UNCHANGED <<life, cap, err_send, err_recv, free_func>>

SendCompletes(t) ==
    /\ call[t].op = "send"
    /\ \/ /\ err_send # NoError
          /\ chan' = chan /\ Return(t, <<"error", err_send>>)
       \/ /\ err_send = NoError /\ Len(chan) < cap
          /\ chan' = Append(chan, call[t].msg) /\ Return(t, <<"ok">>)
       \/ /\ err_send = NoError /\ Len(chan) = cap /\ call[t].nonblock
          /\ chan' = chan /\ Return(t, <<"EAGAIN">>)

RecvCompletes(t) ==
    /\ call[t].op = "recv"
    /\ \/ /\ chan # <<>>
          /\ chan' = Tail(chan) /\ Return(t, <<"message", Head(chan)>>)
       \/ /\ chan = <<>> /\ err_recv # NoError
          /\ chan' = chan /\ Return(t, <<"error", err_recv>>)
       \/ /\ chan = <<>> /\ err_recv = NoError /\ call[t].nonblock
          /\ chan' = chan /\ Return(t, <<"EAGAIN">>)

SetErrors(es, er) ==
    /\ life = "live"
    /\ err_send' = es /\ err_recv' = er
    /\ UNCHANGED <<life, cap, chan, free_func, call, result>>

SetFreeFunc(b) ==
    /\ life = "live"
    /\ free_func' = b
    /\ UNCHANGED <<life, cap, chan, err_send, err_recv, call, result>>

Freed == <<"freed", IF free_func THEN chan ELSE <<>> >>

Flush ==
    /\ life = "live"
    /\ chan' = <<>> /\ result' = Freed
    /\ UNCHANGED <<life, cap, err_send, err_recv, free_func, call>>

Count ==
    /\ life = "live"
    /\ result' = <<"count", Len(chan)>>
    /\ UNCHANGED <<life, cap, chan, err_send, err_recv, free_func, call>>

Destroy ==
    /\ life = "live" /\ \A t \in Threads : call[t] = Idle
    /\ life' = "freed"
    /\ cap' = 0 /\ chan' = <<>> /\ result' = Freed
    /\ UNCHANGED <<err_send, err_recv, free_func, call>>

Next == \/ \E n \in Capacities : Create(n)
        \/ \E t \in Senders, m \in Msgs, nb \in BOOLEAN :
              Call(t, [op |-> "send", msg |-> m, nonblock |-> nb])
        \/ \E t \in Receivers, nb \in BOOLEAN :
              Call(t, [op |-> "recv", msg |-> NoMsg, nonblock |-> nb])
        \/ \E t \in Senders : SendCompletes(t)
        \/ \E t \in Receivers : RecvCompletes(t)
        \/ \E e \in Errors \union {NoError} :
              SetErrors(e, err_recv) \/ SetErrors(err_send, e)
        \/ \E b \in BOOLEAN : SetFreeFunc(b)
        \/ Flush \/ Count \/ Destroy

\* When the channel lets some blocked send (receive) complete, one does: the
\* promise is to the threads together, a single one may be overtaken for ever.
Spec == /\ Init /\ [][Next]_vars
        /\ WF_vars(\E t \in Senders : SendCompletes(t))
        /\ WF_vars(\E t \in Receivers : RecvCompletes(t))
=============================================================================
