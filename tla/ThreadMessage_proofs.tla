------------------------ MODULE ThreadMessage_proofs ------------------------
(***************************************************************************)
(* The invariants of ThreadMessage, for any number of threads, any         *)
(* messages, any capacity and any width of the fifo's indices.             *)
(*                                                                         *)
(* The inductive invariant is the conjunction of the four invariants that  *)
(* the runs check: NoLostWakeup is not inductive alone.  It needs TypeOK   *)
(* for what Write and Drain do to the fifo, OnlyBlockingCallsWait for what *)
(* a signalled thread does next and for the queue being live, and          *)
(* NoneBlockedOnError for a send that fails without filling its place.     *)
(***************************************************************************)
EXTENDS ThreadMessage, Fifo_proofs, FiniteSetTheorems

\* What the kinds of calls are told apart by.
LEMMA CallKinds ==
  ASSUME NEW c \in {Idle} \union SendCalls \union RecvCalls
  PROVE  /\ c.op = "send" => c \in SendCalls /\ c.msg \in Msgs /\ c # Idle
         /\ c.op = "recv" => c \in RecvCalls /\ c # Idle
         /\ Idle.op = "idle"
  BY DEF Idle, SendCalls, RecvCalls

\* A thread inside a call is a thread of a live queue.
LEMMA InCallIsLive ==
  ASSUME TypeOK, NEW t \in Threads, call[t].op \in {"send", "recv"}
  PROVE  life = "live"
<1>1. call[t] \in {Idle} \union SendCalls \union RecvCalls
  BY DEF TypeOK
<1>2. call[t] # Idle
  BY <1>1, CallKinds
<1> QED BY <1>2 DEF TypeOK

-----------------------------------------------------------------------------
LEMMA InitTypeOK == Init => TypeOK
<1> SUFFICES ASSUME Init PROVE TypeOK
  OBVIOUS
<1>1. 0 \in 0 .. (IndexModulus - 1) /\ MaxElems \in Nat
  BY FifoAssumption, ThreadMessageAssumption
<1>2. IsFifo(fifo, Msgs) /\ fifo.end <= MaxElems
  BY <1>1, AllocIsFifo DEF Init
<1> QED BY <1>2 DEF Init, TypeOK

\* What the fifo is after a step, whatever the step does to the rest.
LEMMA FifoStep ==
  ASSUME TypeOK, [Next]_vars
  PROVE  IsFifo(fifo, Msgs)' /\ fifo'.end <= MaxElems
<1> DEFINE Ok(f) == IsFifo(f, Msgs) /\ f.end <= MaxElems
<1>0. Ok(fifo)
  BY DEF TypeOK
<1>1. ASSUME NEW n \in Nat, n <= MaxElems, fifo' = Alloc(n)  PROVE Ok(fifo')
  <2>1. n \in 0 .. (IndexModulus - 1)
    BY <1>1, FifoAssumption, ThreadMessageAssumption
  <2> QED BY <1>1, <2>1, AllocIsFifo
<1>2. ASSUME NEW t \in Senders, SendSucceeds(t)  PROVE Ok(fifo')
  <2>1. call[t] \in {Idle} \union SendCalls \union RecvCalls /\ call[t].op = "send"
    BY <1>2 DEF TypeOK, SendSucceeds, Sending, Threads
  <2>2. call[t].msg \in Msgs
    BY <2>1, CallKinds
  <2>3. Size(fifo) < fifo.end
    BY <1>0, <1>2, FifoBounds DEF SendSucceeds, MustWaitToSend, Space
  <2>4. fifo' = Write(fifo, <<call[t].msg>>)
    BY <1>2 DEF SendSucceeds
  <2> QED BY <1>0, <2>2, <2>3, <2>4, WriteOne
<1>3. ASSUME NEW n \in 0 .. Size(fifo), fifo' = Drain(fifo, n)  PROVE Ok(fifo')
  BY <1>0, <1>3, DrainDrops
<1>4. ASSUME NEW t \in Receivers, RecvSucceeds(t)  PROVE Ok(fifo')
  <2>1. 1 \in 0 .. Size(fifo)
    BY <1>0, <1>4, FifoBounds DEF RecvSucceeds
  <2> QED BY <1>3, <1>4, <2>1 DEF RecvSucceeds
<1>5. ASSUME Flush  PROVE Ok(fifo')
  <2>1. Size(fifo) \in 0 .. Size(fifo)
    BY <1>0, FifoBounds
  <2> QED BY <1>3, <1>5, <2>1 DEF Flush
<1>6. ASSUME NEW n \in Capacities, QueueAlloc(n)  PROVE Ok(fifo')
  BY <1>1, <1>6, ThreadMessageAssumption DEF QueueAlloc
<1>7. ASSUME QueueFree  PROVE Ok(fifo')
  BY <1>1, <1>7, ThreadMessageAssumption DEF QueueFree
<1>8. ASSUME fifo' = fifo  PROVE Ok(fifo')
  BY <1>0, <1>8
<1> HIDE DEF Ok
<1>9. Ok(fifo')
  <2>1. CASE UNCHANGED vars
    BY <1>8, <2>1 DEF vars
  <2>2. CASE Control
    BY <1>5, <1>6, <1>7, <1>8, <2>2
       DEF Control, QueueAllocFails, SetFreeFunc, NbElems, SetErrSend,
           SetErrRecv, QueueFreeNull, vars
  <2>3. ASSUME NEW t \in Senders, NEW m \in Msgs, NEW nb \in BOOLEAN,
               SendCall(t, m, nb)
        PROVE  Ok(fifo')
    BY <1>8, <2>3 DEF SendCall
  <2>4. ASSUME NEW t \in Senders, SendStep(t)  PROVE Ok(fifo')
    BY <1>2, <1>8, <2>4 DEF SendStep, SendWaits, SendWouldBlock, SendFails
  <2>5. ASSUME NEW t \in Receivers, NEW nb \in BOOLEAN, RecvCall(t, nb)
        PROVE  Ok(fifo')
    BY <1>8, <2>5 DEF RecvCall
  <2>6. ASSUME NEW t \in Receivers, RecvStep(t)  PROVE Ok(fifo')
    BY <1>4, <1>8, <2>6 DEF RecvStep, RecvWaits, RecvWouldBlock, RecvFails
  <2>7. ASSUME NEW t \in Threads, SpuriousWakeup(t)  PROVE Ok(fifo')
    BY <1>8, <2>7 DEF SpuriousWakeup
  <2> QED BY <2>1, <2>2, <2>3, <2>4, <2>5, <2>6, <2>7 DEF Next
<1> QED BY <1>9 DEF Ok

\* Which calls there can be after a step.
LEMMA CallStep ==
  ASSUME TypeOK, [Next]_vars
  PROVE  /\ call' \in [Threads -> {Idle} \union SendCalls \union RecvCalls]
         /\ life' # "live" => \A t \in Threads : call'[t] = Idle
<1> DEFINE Kinds == {Idle} \union SendCalls \union RecvCalls
           Ok(c, l) == /\ c \in [Threads -> Kinds]
                       /\ l # "live" => \A t \in Threads : c[t] = Idle
<1>0. Ok(call, life)
  BY DEF TypeOK
<1>1. ASSUME NEW t \in Threads, NEW c \in Kinds, life = "live",
             call' = [call EXCEPT ![t] = c], life' = life
      PROVE  Ok(call', life')
  BY <1>0, <1>1
<1>2. ASSUME call' = call, life' = "live" \/ life' = life  PROVE Ok(call', life')
  BY <1>0, <1>2
<1>3. ASSUME NEW t \in Threads, call[t].op \in {"send", "recv"}, life' = life,
             call' = [call EXCEPT ![t] = Idle]
      PROVE  Ok(call', life')
  <2>1. life = "live"
    BY <1>3, InCallIsLive
  <2> QED BY <1>1, <1>3, <2>1
<1>4. ASSUME NEW t \in Senders, NEW m \in Msgs, NEW nb \in BOOLEAN,
             SendCall(t, m, nb)
      PROVE  Ok(call', life')
  <2>1. [op |-> "send", msg |-> m, nonblock |-> nb] \in Kinds
    BY DEF SendCalls
  <2> HIDE DEF Kinds
  <2> QED BY <1>1, <1>4, <2>1 DEF SendCall, Threads
<1>5. ASSUME NEW t \in Receivers, NEW nb \in BOOLEAN, RecvCall(t, nb)
      PROVE  Ok(call', life')
  <2>1. [op |-> "recv", msg |-> Garbage, nonblock |-> nb] \in Kinds
    BY DEF RecvCalls
  <2> HIDE DEF Kinds
  <2> QED BY <1>1, <1>5, <2>1 DEF RecvCall, Threads
<1>6. ASSUME NEW t \in Senders, SendStep(t)  PROVE Ok(call', life')
  <2>1. t \in Threads /\ call[t].op \in {"send", "recv"}
    BY <1>6 DEF SendStep, SendWaits, SendWouldBlock, SendFails, SendSucceeds,
                Sending, Threads
  <2> HIDE DEF Ok
  <2> QED BY <1>2, <1>3, <1>6, <2>1
          DEF SendStep, SendWaits, SendWouldBlock, SendFails, SendSucceeds, Return
<1>7. ASSUME NEW t \in Receivers, RecvStep(t)  PROVE Ok(call', life')
  <2>1. t \in Threads /\ call[t].op \in {"send", "recv"}
    BY <1>7 DEF RecvStep, RecvWaits, RecvWouldBlock, RecvFails, RecvSucceeds,
                Receiving, Threads
  <2> HIDE DEF Ok
  <2> QED BY <1>2, <1>3, <1>7, <2>1
          DEF RecvStep, RecvWaits, RecvWouldBlock, RecvFails, RecvSucceeds, Return
<1>8. ASSUME QueueFree  PROVE Ok(call', life')
  BY <1>0, <1>8 DEF QueueFree
<1> HIDE DEF Ok
<1>9. Ok(call', life')
  <2>1. CASE UNCHANGED vars
    BY <1>2, <2>1 DEF vars
  <2>2. CASE Control
    BY <1>2, <1>8, <2>2
       DEF Control, QueueAlloc, QueueAllocFails, SetFreeFunc, NbElems,
           SetErrSend, SetErrRecv, Flush, QueueFreeNull, vars
  <2>3. ASSUME NEW t \in Threads, SpuriousWakeup(t)  PROVE Ok(call', life')
    BY <1>2, <2>3 DEF SpuriousWakeup
  <2> QED BY <1>4, <1>5, <1>6, <1>7, <2>1, <2>2, <2>3 DEF Next
<1> QED BY <1>9 DEF Ok

\* The variables that are neither the fifo nor the calls keep their types.
LEMMA OtherStep ==
  ASSUME TypeOK, [Next]_vars
  PROVE  /\ life' \in {"none", "live", "freed"}
         /\ err_send' \in Errors \union {NoError}
         /\ err_recv' \in Errors \union {NoError}
         /\ free_func' \in BOOLEAN
         /\ waiting_send' \subseteq Senders /\ waiting_recv' \subseteq Receivers
<1> DEFINE Ok == /\ life' \in {"none", "live", "freed"}
                 /\ err_send' \in Errors \union {NoError}
                 /\ err_recv' \in Errors \union {NoError}
                 /\ free_func' \in BOOLEAN
                 /\ waiting_send' \subseteq Senders
                 /\ waiting_recv' \subseteq Receivers
<1>0. /\ life \in {"none", "live", "freed"}
      /\ err_send \in Errors \union {NoError} /\ err_recv \in Errors \union {NoError}
      /\ free_func \in BOOLEAN
      /\ waiting_send \subseteq Senders /\ waiting_recv \subseteq Receivers
  BY DEF TypeOK
<1>1. CASE UNCHANGED vars
  BY <1>0, <1>1 DEF vars, errVars, waitVars
<1>2. CASE Control
  BY <1>0, <1>2
     DEF Control, QueueAlloc, QueueAllocFails, SetFreeFunc, NbElems, SetErrSend,
         SetErrRecv, Flush, QueueFree, QueueFreeNull, vars, errVars, waitVars
<1>3. ASSUME NEW t \in Senders, NEW m \in Msgs, NEW nb \in BOOLEAN,
             SendCall(t, m, nb)
      PROVE  Ok
  BY <1>0, <1>3 DEF SendCall, errVars, waitVars
<1>4. ASSUME NEW t \in Senders, SendStep(t)  PROVE Ok
  BY <1>0, <1>4 DEF SendStep, SendWaits, SendWouldBlock, SendFails, SendSucceeds,
                    Wakes, errVars, waitVars
<1>5. ASSUME NEW t \in Receivers, NEW nb \in BOOLEAN, RecvCall(t, nb)
      PROVE  Ok
  BY <1>0, <1>5 DEF RecvCall, errVars, waitVars
<1>6. ASSUME NEW t \in Receivers, RecvStep(t)  PROVE Ok
  BY <1>0, <1>6 DEF RecvStep, RecvWaits, RecvWouldBlock, RecvFails, RecvSucceeds,
                    Wakes, errVars, waitVars
<1>7. ASSUME NEW t \in Threads, SpuriousWakeup(t)  PROVE Ok
  BY <1>0, <1>7 DEF SpuriousWakeup, errVars, waitVars
<1> QED BY <1>1, <1>2, <1>3, <1>4, <1>5, <1>6, <1>7 DEF Next

LEMMA NextTypeOK == TypeOK /\ [Next]_vars => TypeOK'
<1> SUFFICES ASSUME TypeOK, [Next]_vars PROVE TypeOK'
  OBVIOUS
<1> QED BY FifoStep, CallStep, OtherStep DEF TypeOK

\* Type correctness; the queue holds at most nelem messages, and only threads
\* of a live queue are inside send or receive (threadmessage.c).
THEOREM TypeCorrect == Spec => []TypeOK
  BY InitTypeOK, NextTypeOK, PTL DEF Spec
-----------------------------------------------------------------------------
LEMMA NextNoneBlockedOnError ==
  ASSUME NoneBlockedOnError, [Next]_vars
  PROVE  NoneBlockedOnError'
<1> USE DEF NoneBlockedOnError
<1>1. CASE UNCHANGED vars
  BY <1>1 DEF vars, errVars, waitVars
<1>2. CASE Control
  BY <1>2
     DEF Control, QueueAlloc, QueueAllocFails, SetFreeFunc, NbElems, SetErrSend,
         SetErrRecv, Flush, QueueFree, QueueFreeNull, vars, errVars, waitVars
<1>3. ASSUME NEW t \in Senders, NEW m \in Msgs, NEW nb \in BOOLEAN,
             SendCall(t, m, nb)
      PROVE  NoneBlockedOnError'
  BY <1>3 DEF SendCall, errVars, waitVars
<1>4. ASSUME NEW t \in Senders, SendStep(t)  PROVE NoneBlockedOnError'
  BY <1>4 DEF SendStep, SendWaits, SendWouldBlock, SendFails, SendSucceeds,
              MustWaitToSend, Wakes, errVars, waitVars
<1>5. ASSUME NEW t \in Receivers, NEW nb \in BOOLEAN, RecvCall(t, nb)
      PROVE  NoneBlockedOnError'
  BY <1>5 DEF RecvCall, errVars, waitVars
<1>6. ASSUME NEW t \in Receivers, RecvStep(t)  PROVE NoneBlockedOnError'
  BY <1>6 DEF RecvStep, RecvWaits, RecvWouldBlock, RecvFails, RecvSucceeds,
              MustWaitToRecv, Wakes, errVars, waitVars
<1>7. ASSUME NEW t \in Threads, SpuriousWakeup(t)  PROVE NoneBlockedOnError'
  BY <1>7 DEF SpuriousWakeup, errVars, waitVars
<1> QED BY <1>1, <1>2, <1>3, <1>4, <1>5, <1>6, <1>7 DEF Next

\* No thread stays blocked on a side of the queue that is in error
\* (threadmessage.c:188 to 208, and the loops of 125 and 142).
THEOREM ErrorBlocksNobody == Spec => []NoneBlockedOnError
<1>1. Init => NoneBlockedOnError
  BY DEF Init, NoneBlockedOnError
<1>2. NoneBlockedOnError /\ [Next]_vars => NoneBlockedOnError'
  BY NextNoneBlockedOnError
<1> QED BY <1>1, <1>2, PTL DEF Spec

-----------------------------------------------------------------------------
LEMMA NextOnlyBlockingCallsWait ==
  ASSUME TypeOK, OnlyBlockingCallsWait, [Next]_vars
  PROVE  OnlyBlockingCallsWait'
<1> DEFINE Blocked(c, op) == c.op = op /\ ~c.nonblock
           Ok(c, ws, wr, l) == /\ \A t \in ws : Blocked(c[t], "send")
                               /\ \A t \in wr : Blocked(c[t], "recv")
                               /\ ws \union wr # {} => l = "live"
<1>0. Ok(call, waiting_send, waiting_recv, life)
  BY DEF OnlyBlockingCallsWait
<1>d. call \in [Threads -> {Idle} \union SendCalls \union RecvCalls]
  BY DEF TypeOK
<1> DEFINE Goal == Ok(call', waiting_send', waiting_recv', life')
<1> SUFFICES Goal
  BY DEF OnlyBlockingCallsWait
\* Fewer threads wait, and the calls of the waiting ones are what they were.
<1>1. ASSUME waiting_send' \subseteq waiting_send,
             waiting_recv' \subseteq waiting_recv,
             \A t \in waiting_send' \union waiting_recv' : call'[t] = call[t],
             life' = life
      PROVE  Goal
  BY <1>0, <1>1
\* Nobody waits.
<1>2. ASSUME waiting_send' = {}, waiting_recv' = {}  PROVE Goal
  BY <1>2
\* One more thread of a live queue waits, in the right call.
<1>3. ASSUME NEW t \in Threads, Blocked(call[t], "send"), call' = call,
             waiting_send' = waiting_send \union {t},
             waiting_recv' = waiting_recv, life' = life
      PROVE  Goal
  <2>1. life = "live"
    BY <1>3, InCallIsLive
  <2> QED BY <1>0, <1>3, <2>1
<1>4. ASSUME NEW t \in Threads, Blocked(call[t], "recv"), call' = call,
             waiting_recv' = waiting_recv \union {t},
             waiting_send' = waiting_send, life' = life
      PROVE  Goal
  <2>1. life = "live"
    BY <1>4, InCallIsLive
  <2> QED BY <1>0, <1>4, <2>1
\* A thread that does not wait changes its call.
<1>5. ASSUME NEW t, t \notin waiting_send \union waiting_recv, NEW c,
             call' = [call EXCEPT ![t] = c], life' = life,
             waiting_send' \subseteq waiting_send,
             waiting_recv' \subseteq waiting_recv
      PROVE  Goal
  <2>1. \A u \in waiting_send' \union waiting_recv' : u \in Threads /\ u # t
    BY <1>5 DEF TypeOK, Threads
  <2>2. \A u \in waiting_send' \union waiting_recv' : call'[u] = call[u]
    BY <1>5, <1>d, <2>1
  <2> HIDE DEF Goal
  <2> QED BY <1>1, <1>5, <2>2
<1>6. ASSUME NEW t, call[t] = Idle  PROVE t \notin waiting_send \union waiting_recv
  BY <1>0, <1>6 DEF Idle
<1>7. ASSUME life # "live"  PROVE waiting_send = {} /\ waiting_recv = {}
  BY <1>0, <1>7
<1> HIDE DEF Goal
<1>8. CASE UNCHANGED vars
  BY <1>1, <1>8 DEF vars, waitVars
<1>9. CASE Control
  <2>1. ASSUME NEW n \in Capacities, QueueAlloc(n)  PROVE Goal
    BY <1>2, <1>7, <2>1 DEF QueueAlloc, waitVars
  <2>2. ASSUME QueueFree  PROVE Goal
    <3>1. \A t \in waiting_send \union waiting_recv : t \in Threads
      BY DEF TypeOK, Threads
    <3>2. waiting_send = {} /\ waiting_recv = {}
      BY <1>6, <2>2, <3>1 DEF QueueFree
    <3> QED BY <1>2, <2>2, <3>2 DEF QueueFree, waitVars
  <2>3. CASE QueueAllocFails \/ QueueFreeNull \/ NbElems \/ Flush
             \/ \E set \in BOOLEAN : SetFreeFunc(set)
    BY <1>1, <2>3 DEF QueueAllocFails, QueueFreeNull, NbElems, Flush, SetFreeFunc,
                      vars, waitVars
  <2>4. CASE \E err \in Errors \union {NoError} : SetErrSend(err) \/ SetErrRecv(err)
    BY <1>1, <2>4 DEF SetErrSend, SetErrRecv
  <2> QED BY <1>9, <2>1, <2>2, <2>3, <2>4 DEF Control
<1>10. ASSUME NEW t \in Senders, NEW m \in Msgs, NEW nb \in BOOLEAN,
              SendCall(t, m, nb)
       PROVE  Goal
  BY <1>5, <1>6, <1>10 DEF SendCall, waitVars
<1>11. ASSUME NEW t \in Receivers, NEW nb \in BOOLEAN, RecvCall(t, nb)
       PROVE  Goal
  BY <1>5, <1>6, <1>11 DEF RecvCall, waitVars
<1>12. ASSUME NEW t \in Senders, SendStep(t)  PROVE Goal
  <2>1. Sending(t) /\ t \in Threads
    BY <1>12 DEF SendStep, SendWaits, SendWouldBlock, SendFails, SendSucceeds,
                 Threads
  <2>2. t \notin waiting_send \union waiting_recv
    BY <1>0, <2>1 DEF Sending
  <2>3. CASE SendWaits(t)
    BY <1>3, <2>1, <2>3 DEF SendWaits, Sending
  <2>4. CASE SendWouldBlock(t) \/ SendFails(t)
    BY <1>5, <2>2, <2>4 DEF SendWouldBlock, SendFails, Return, waitVars
  <2>5. CASE SendSucceeds(t)
    BY <1>5, <2>2, <2>5 DEF SendSucceeds, Return, Wakes
  <2> QED BY <1>12, <2>3, <2>4, <2>5 DEF SendStep
<1>13. ASSUME NEW t \in Receivers, RecvStep(t)  PROVE Goal
  <2>1. Receiving(t) /\ t \in Threads
    BY <1>13 DEF RecvStep, RecvWaits, RecvWouldBlock, RecvFails, RecvSucceeds,
                 Threads
  <2>2. t \notin waiting_send \union waiting_recv
    BY <1>0, <2>1 DEF Receiving
  <2>3. CASE RecvWaits(t)
    BY <1>4, <2>1, <2>3 DEF RecvWaits, Receiving
  <2>4. CASE RecvWouldBlock(t) \/ RecvFails(t)
    BY <1>5, <2>2, <2>4 DEF RecvWouldBlock, RecvFails, Return, waitVars
  <2>5. CASE RecvSucceeds(t)
    BY <1>5, <2>2, <2>5 DEF RecvSucceeds, Return, Wakes
  <2> QED BY <1>13, <2>3, <2>4, <2>5 DEF RecvStep
<1>14. ASSUME NEW t \in Threads, SpuriousWakeup(t)  PROVE Goal
  BY <1>1, <1>14 DEF SpuriousWakeup
<1> QED BY <1>8, <1>9, <1>10, <1>11, <1>12, <1>13, <1>14 DEF Next

\* Only a blocking call on a live queue ever waits, on the condition of its
\* own side (threadmessage.c:125 and 142).
THEOREM WaitersAreBlockingCalls == Spec => []OnlyBlockingCallsWait
<1>1. Init => OnlyBlockingCallsWait
  BY DEF Init, OnlyBlockingCallsWait
<1>2. TypeOK /\ OnlyBlockingCallsWait /\ [Next]_vars => OnlyBlockingCallsWait'
  BY NextOnlyBlockingCallsWait
<1> QED BY <1>1, <1>2, TypeCorrect, PTL DEF Spec
-----------------------------------------------------------------------------
\* The woken threads are finitely many.
LEMMA AwakeFinite ==
  /\ IsFiniteSet(AwakeSenders) /\ Cardinality(AwakeSenders) \in Nat
  /\ IsFiniteSet(AwakeReceivers) /\ Cardinality(AwakeReceivers) \in Nat
<1>1. AwakeSenders \in SUBSET Senders /\ AwakeReceivers \in SUBSET Receivers
  BY DEF AwakeSenders, AwakeReceivers
<1>2. IsFiniteSet(AwakeSenders) /\ IsFiniteSet(AwakeReceivers)
  BY <1>1, FS_Subset, ThreadMessageAssumption
<1> QED BY <1>2, FS_CardinalityType

LEMMA AwakeFiniteNext ==
  /\ IsFiniteSet(AwakeSenders') /\ Cardinality(AwakeSenders') \in Nat
  /\ IsFiniteSet(AwakeReceivers') /\ Cardinality(AwakeReceivers') \in Nat
<1>1. AwakeSenders' \in SUBSET Senders /\ AwakeReceivers' \in SUBSET Receivers
  BY DEF AwakeSenders, AwakeReceivers
<1>2. IsFiniteSet(AwakeSenders') /\ IsFiniteSet(AwakeReceivers')
  BY <1>1, FS_Subset, ThreadMessageAssumption
<1> QED BY <1>2, FS_CardinalityType

\* The two halves of NoLostWakeup.
SendersAwake   == waiting_send # {} => Space(fifo) <= Cardinality(AwakeSenders)
ReceiversAwake == waiting_recv # {} => Size(fifo) <= Cardinality(AwakeReceivers)

IInv == TypeOK /\ OnlyBlockingCallsWait /\ NoneBlockedOnError /\ NoLostWakeup

\* The numbers that the proofs below compare.
LEMMA Amounts ==
  ASSUME NEW f, IsFifo(f, Msgs)
  PROVE  /\ f.end \in Nat /\ Size(f) \in Nat /\ Size(f) <= f.end
         /\ Space(f) \in Int /\ Space(f) = f.end - Size(f)
  BY FifoBounds DEF Space

\* Writing takes a free place, and draining gives some back.
LEMMA AmountsAfterSend ==
  ASSUME TypeOK, NEW t \in Senders, SendSucceeds(t)
  PROVE  /\ Size(fifo') = Size(fifo) + 1
         /\ Space(fifo') = Space(fifo) - 1
<1>1. call[t] \in {Idle} \union SendCalls \union RecvCalls /\ call[t].op = "send"
  BY DEF TypeOK, SendSucceeds, Sending, Threads
<1>2. call[t].msg \in Msgs
  BY <1>1, CallKinds
<1>3. Size(fifo) < fifo.end
  BY Amounts DEF TypeOK, SendSucceeds, MustWaitToSend
<1>4. fifo' = Write(fifo, <<call[t].msg>>)
  BY DEF SendSucceeds
<1>5. fifo'.end = fifo.end /\ Size(fifo') = Size(fifo) + 1
  BY <1>2, <1>3, <1>4, WriteOne DEF TypeOK
<1>6. Space(fifo') = fifo'.end - Size(fifo')
  BY Zenon DEF Space
<1> QED BY <1>5, <1>6, Amounts DEF TypeOK

LEMMA AmountsAfterRecv ==
  ASSUME TypeOK, NEW t \in Receivers, RecvSucceeds(t)
  PROVE  /\ Size(fifo') = Size(fifo) - 1
         /\ Space(fifo') = Space(fifo) + 1
<1>1. 1 \in 0 .. Size(fifo)
  BY Amounts DEF TypeOK, RecvSucceeds
<1>2. fifo' = Drain(fifo, 1)
  BY DEF RecvSucceeds
<1>3. fifo'.end = fifo.end /\ Size(fifo') = Size(fifo) - 1
  BY <1>1, <1>2, DrainDrops DEF TypeOK
<1>4. Space(fifo') = fifo'.end - Size(fifo')
  BY Zenon DEF Space
<1> QED BY <1>3, <1>4, Amounts DEF TypeOK

\* A larger set of woken threads.
LEMMA Grows ==
  ASSUME NEW A, NEW B, IsFiniteSet(B), A \subseteq B
  PROVE  /\ Cardinality(A) \in Nat /\ Cardinality(B) \in Nat
         /\ Cardinality(A) <= Cardinality(B)
  BY FS_Subset, FS_CardinalityType

\* The senders' half.
LEMMA NextSendersAwake ==
  ASSUME IInv, [Next]_vars
  PROVE  SendersAwake'
<1> DEFINE sp == Space(fifo)
           ss == Space(fifo')
           A  == AwakeSenders
           B  == AwakeSenders'
<1>1. TypeOK /\ OnlyBlockingCallsWait /\ OnlyBlockingCallsWait'
  BY NextOnlyBlockingCallsWait DEF IInv
<1>2. sp \in Int /\ ss \in Int
  BY <1>1, FifoStep, Amounts DEF TypeOK
<1>3. IsFiniteSet(A) /\ IsFiniteSet(B) /\ Cardinality(A) \in Nat /\ Cardinality(B) \in Nat
  BY AwakeFinite, AwakeFiniteNext
<1>4. waiting_send # {} => sp <= Cardinality(A)
  BY DEF IInv, NoLostWakeup
<1>5. call \in [Threads -> {Idle} \union SendCalls \union RecvCalls]
  BY <1>1 DEF TypeOK
<1> DEFINE Goal == waiting_send' # {} => ss <= Cardinality(B)
<1> SUFFICES Goal
  BY DEF SendersAwake
\* Nobody waits, or there is nothing to wait for.
<1>6. ASSUME waiting_send' = {} \/ ss < 1  PROVE Goal
  BY <1>2, <1>3, <1>6
\* As many places, and at least the same woken senders.
<1>7. ASSUME waiting_send' \subseteq waiting_send, fifo' = fifo, A \subseteq B
      PROVE  Goal
  <2>1. ss = sp
    BY <1>7
  <2>2. Cardinality(A) <= Cardinality(B)
    BY <1>3, <1>7, Grows
  <2> HIDE DEF sp, ss, A, B
  <2> QED BY <1>2, <1>3, <1>4, <1>7, <2>1, <2>2
\* The calls that end or begin are not those of woken senders.
<1>8. ASSUME NEW t, NEW c, call[t].op # "send", call' = [call EXCEPT ![t] = c],
             waiting_send' \subseteq waiting_send
      PROVE  A \subseteq B
  <2> SUFFICES ASSUME NEW u \in A  PROVE u \in B
    OBVIOUS
  <2>1. u \in Senders /\ u \in Threads /\ call[u].op = "send" /\ u \notin waiting_send
    BY DEF AwakeSenders, Sending, Threads
  <2>2. call'[u] = call[u]
    BY <1>5, <1>8, <2>1
  <2> QED BY <1>8, <2>1, <2>2 DEF AwakeSenders, Sending
<1>9. ASSUME call' = call, waiting_send' \subseteq waiting_send
      PROVE  A \subseteq B
  BY <1>9 DEF AwakeSenders, Sending
<1>10. Idle.op = "idle"
  BY DEF Idle
<1> HIDE DEF sp, ss, A, B, Goal
<1>11. CASE UNCHANGED vars
  BY <1>7, <1>9, <1>11 DEF vars, waitVars
<1>12. CASE Control
  <2>1. ASSUME NEW n \in Capacities, QueueAlloc(n)  PROVE Goal
    BY <1>1, <1>6, <2>1 DEF QueueAlloc, waitVars, OnlyBlockingCallsWait
  <2>2. CASE QueueFree
    BY <1>1, <1>6, <2>2 DEF QueueFree, waitVars, OnlyBlockingCallsWait
  <2>3. CASE QueueAllocFails \/ QueueFreeNull \/ NbElems
             \/ \E set \in BOOLEAN : SetFreeFunc(set)
    BY <1>7, <1>9, <2>3 DEF QueueAllocFails, QueueFreeNull, NbElems, SetFreeFunc,
                            vars, waitVars
  <2>4. CASE Flush
    BY <1>6, <2>4 DEF Flush
  <2>5. ASSUME NEW err, SetErrSend(err) \/ SetErrRecv(err)  PROVE Goal
    BY <1>6, <1>7, <1>9, <2>5 DEF SetErrSend, SetErrRecv
  <2> QED BY <1>12, <2>1, <2>2, <2>3, <2>4, <2>5 DEF Control
<1>13. ASSUME NEW t \in Senders, NEW m \in Msgs, NEW nb \in BOOLEAN,
              SendCall(t, m, nb)
       PROVE  Goal
  BY <1>7, <1>8, <1>10, <1>13 DEF SendCall, waitVars
<1>14. ASSUME NEW t \in Receivers, NEW nb \in BOOLEAN, RecvCall(t, nb)
       PROVE  Goal
  BY <1>7, <1>8, <1>10, <1>14 DEF RecvCall, waitVars
<1>15. ASSUME NEW t \in Senders, SendStep(t)  PROVE Goal
  <2>1. CASE SendWaits(t) \/ SendWouldBlock(t)
    <3>1. fifo' = fifo /\ Space(fifo) < 1
      BY <2>1 DEF SendWaits, SendWouldBlock, MustWaitToSend
    <3> QED BY <1>6, <3>1 DEF ss
  <2>2. CASE SendFails(t)
    BY <1>6, <2>2 DEF SendFails, waitVars, IInv, NoneBlockedOnError
  <2>3. CASE SendSucceeds(t)
    <3>1. ss = sp - 1
      BY <1>1, <2>3, AmountsAfterSend DEF ss, sp
    <3>2. t \in A /\ waiting_send' = waiting_send
      BY <2>3 DEF A, AwakeSenders, SendSucceeds, Sending
    <3>3. A \ {t} \subseteq B
      <4> SUFFICES ASSUME NEW u \in A, u # t  PROVE u \in B
        OBVIOUS
      <4>1. u \in Threads /\ call' = [call EXCEPT ![t] = Idle]
        BY <2>3 DEF A, AwakeSenders, Threads, SendSucceeds, Return
      <4>2. call'[u] = call[u]
        BY <1>5, <4>1
      <4> QED BY <3>2, <4>2 DEF A, B, AwakeSenders, Sending
    <3>4. Cardinality(A \ {t}) = Cardinality(A) - 1
      BY <1>3, <3>2, FS_RemoveElement
    <3>5. Cardinality(A \ {t}) <= Cardinality(B)
      BY <1>3, <3>3, Grows
    <3> QED BY <1>2, <1>3, <1>4, <3>1, <3>2, <3>4, <3>5 DEF Goal
  <2> QED BY <1>15, <2>1, <2>2, <2>3 DEF SendStep
<1>16. ASSUME NEW t \in Receivers, RecvStep(t)  PROVE Goal
  <2>1. CASE RecvWaits(t)
    BY <1>7, <1>9, <2>1 DEF RecvWaits
  <2>2. CASE RecvWouldBlock(t) \/ RecvFails(t)
    BY <1>7, <1>8, <2>2
       DEF RecvWouldBlock, RecvFails, Return, Receiving, waitVars
  <2>3. CASE RecvSucceeds(t)
    <3>1. ss = sp + 1
      BY <1>1, <2>3, AmountsAfterRecv DEF ss, sp
    <3>2. CASE waiting_send = {}
      BY <1>6, <2>3, <3>2 DEF RecvSucceeds, Wakes
    <3>3. CASE waiting_send # {}
      <4>1. PICK s \in waiting_send : waiting_send' = waiting_send \ {s}
        BY <2>3, <3>3 DEF RecvSucceeds, Wakes
      <4>2. A \subseteq B
        BY <1>8, <2>3, <4>1 DEF RecvSucceeds, Return, Receiving
      <4>3. s \in Senders /\ s \in Threads /\ call[s].op = "send" /\ s # t
        BY <1>1, <2>3
           DEF TypeOK, OnlyBlockingCallsWait, RecvSucceeds, Receiving, Threads
      <4>4. call'[s] = call[s]
        BY <1>5, <2>3, <4>3 DEF RecvSucceeds, Return
      <4>5. s \in B /\ s \notin A
        BY <4>1, <4>3, <4>4 DEF A, B, AwakeSenders, Sending
      <4>6. Cardinality(A \union {s}) = Cardinality(A) + 1
        BY <1>3, <4>5, FS_AddElement
      <4>7. Cardinality(A \union {s}) <= Cardinality(B)
        BY <1>3, <4>2, <4>5, Grows
      <4> QED BY <1>2, <1>3, <1>4, <3>1, <3>3, <4>6, <4>7 DEF Goal
    <3> QED BY <3>2, <3>3
  <2> QED BY <1>16, <2>1, <2>2, <2>3 DEF RecvStep
<1>17. ASSUME NEW t \in Threads, SpuriousWakeup(t)  PROVE Goal
  BY <1>7, <1>9, <1>17 DEF SpuriousWakeup
<1> QED BY <1>11, <1>12, <1>13, <1>14, <1>15, <1>16, <1>17 DEF Next

\* The receivers' half.
LEMMA NextReceiversAwake ==
  ASSUME IInv, [Next]_vars
  PROVE  ReceiversAwake'
<1> DEFINE sz == Size(fifo)
           ss == Size(fifo')
           A  == AwakeReceivers
           B  == AwakeReceivers'
<1>1. TypeOK /\ OnlyBlockingCallsWait /\ OnlyBlockingCallsWait'
  BY NextOnlyBlockingCallsWait DEF IInv
<1>2. sz \in Int /\ ss \in Int
  BY <1>1, FifoStep, Amounts DEF TypeOK
<1>3. IsFiniteSet(A) /\ IsFiniteSet(B) /\ Cardinality(A) \in Nat /\ Cardinality(B) \in Nat
  BY AwakeFinite, AwakeFiniteNext
<1>4. waiting_recv # {} => sz <= Cardinality(A)
  BY DEF IInv, NoLostWakeup
<1>5. call \in [Threads -> {Idle} \union SendCalls \union RecvCalls]
  BY <1>1 DEF TypeOK
<1> DEFINE Goal == waiting_recv' # {} => ss <= Cardinality(B)
<1> SUFFICES Goal
  BY DEF ReceiversAwake
\* Nobody waits, or there is nothing to wait for.
<1>6. ASSUME waiting_recv' = {} \/ ss < 1  PROVE Goal
  BY <1>2, <1>3, <1>6
\* As many messages, and at least the same woken receivers.
<1>7. ASSUME waiting_recv' \subseteq waiting_recv, fifo' = fifo, A \subseteq B
      PROVE  Goal
  <2>1. ss = sz
    BY <1>7
  <2>2. Cardinality(A) <= Cardinality(B)
    BY <1>3, <1>7, Grows
  <2> HIDE DEF sz, ss, A, B
  <2> QED BY <1>2, <1>3, <1>4, <1>7, <2>1, <2>2
\* The calls that end or begin are not those of woken receivers.
<1>8. ASSUME NEW t, NEW c, call[t].op # "recv", call' = [call EXCEPT ![t] = c],
             waiting_recv' \subseteq waiting_recv
      PROVE  A \subseteq B
  <2> SUFFICES ASSUME NEW u \in A  PROVE u \in B
    OBVIOUS
  <2>1. /\ u \in Receivers /\ u \in Threads
        /\ call[u].op = "recv" /\ u \notin waiting_recv
    BY DEF AwakeReceivers, Receiving, Threads
  <2>2. call'[u] = call[u]
    BY <1>5, <1>8, <2>1
  <2> QED BY <1>8, <2>1, <2>2 DEF AwakeReceivers, Receiving
<1>9. ASSUME call' = call, waiting_recv' \subseteq waiting_recv
      PROVE  A \subseteq B
  BY <1>9 DEF AwakeReceivers, Receiving
<1>10. Idle.op = "idle"
  BY DEF Idle
<1> HIDE DEF sz, ss, A, B, Goal
<1>11. CASE UNCHANGED vars
  BY <1>7, <1>9, <1>11 DEF vars, waitVars
<1>12. CASE Control
  <2>1. ASSUME NEW n \in Capacities, QueueAlloc(n)  PROVE Goal
    BY <1>1, <1>6, <2>1 DEF QueueAlloc, waitVars, OnlyBlockingCallsWait
  <2>2. CASE QueueFree
    BY <1>1, <1>6, <2>2 DEF QueueFree, waitVars, OnlyBlockingCallsWait
  <2>3. CASE QueueAllocFails \/ QueueFreeNull \/ NbElems
             \/ \E set \in BOOLEAN : SetFreeFunc(set)
    BY <1>7, <1>9, <2>3 DEF QueueAllocFails, QueueFreeNull, NbElems, SetFreeFunc,
                            vars, waitVars
  <2>4. CASE Flush
    <3>1. sz \in 0 .. sz
      BY <1>1, Amounts DEF TypeOK, sz
    <3>2. ss = sz - sz
      BY <1>1, <2>4, <3>1, DrainDrops DEF TypeOK, Flush, sz, ss
    <3> QED BY <1>2, <1>6, <3>2
  <2>5. ASSUME NEW err, SetErrSend(err) \/ SetErrRecv(err)  PROVE Goal
    BY <1>6, <1>7, <1>9, <2>5 DEF SetErrSend, SetErrRecv
  <2> QED BY <1>12, <2>1, <2>2, <2>3, <2>4, <2>5 DEF Control
<1>13. ASSUME NEW t \in Senders, NEW m \in Msgs, NEW nb \in BOOLEAN,
              SendCall(t, m, nb)
       PROVE  Goal
  BY <1>7, <1>8, <1>10, <1>13 DEF SendCall, waitVars
<1>14. ASSUME NEW t \in Receivers, NEW nb \in BOOLEAN, RecvCall(t, nb)
       PROVE  Goal
  BY <1>7, <1>8, <1>10, <1>14 DEF RecvCall, waitVars
<1>15. ASSUME NEW t \in Senders, SendStep(t)  PROVE Goal
  <2>1. CASE SendWaits(t)
    BY <1>7, <1>9, <2>1 DEF SendWaits
  <2>2. CASE SendWouldBlock(t) \/ SendFails(t)
    BY <1>7, <1>8, <2>2
       DEF SendWouldBlock, SendFails, Return, Sending, waitVars
  <2>3. CASE SendSucceeds(t)
    <3>1. ss = sz + 1
      BY <1>1, <2>3, AmountsAfterSend DEF ss, sz
    <3>2. CASE waiting_recv = {}
      BY <1>6, <2>3, <3>2 DEF SendSucceeds, Wakes
    <3>3. CASE waiting_recv # {}
      <4>1. PICK r \in waiting_recv : waiting_recv' = waiting_recv \ {r}
        BY <2>3, <3>3 DEF SendSucceeds, Wakes
      <4>2. A \subseteq B
        BY <1>8, <2>3, <4>1 DEF SendSucceeds, Return, Sending
      <4>3. r \in Receivers /\ r \in Threads /\ call[r].op = "recv" /\ r # t
        BY <1>1, <2>3
           DEF TypeOK, OnlyBlockingCallsWait, SendSucceeds, Sending, Threads
      <4>4. call'[r] = call[r]
        BY <1>5, <2>3, <4>3 DEF SendSucceeds, Return
      <4>5. r \in B /\ r \notin A
        BY <4>1, <4>3, <4>4 DEF A, B, AwakeReceivers, Receiving
      <4>6. Cardinality(A \union {r}) = Cardinality(A) + 1
        BY <1>3, <4>5, FS_AddElement
      <4>7. Cardinality(A \union {r}) <= Cardinality(B)
        BY <1>3, <4>2, <4>5, Grows
      <4> QED BY <1>2, <1>3, <1>4, <3>1, <3>3, <4>6, <4>7 DEF Goal
    <3> QED BY <3>2, <3>3
  <2> QED BY <1>15, <2>1, <2>2, <2>3 DEF SendStep
<1>16. ASSUME NEW t \in Receivers, RecvStep(t)  PROVE Goal
  <2>1. CASE RecvWaits(t) \/ RecvWouldBlock(t) \/ RecvFails(t)
    <3>1. fifo' = fifo /\ Size(fifo) < 1
      BY <2>1 DEF RecvWaits, RecvWouldBlock, RecvFails, MustWaitToRecv
    <3> QED BY <1>6, <3>1 DEF ss
  <2>2. CASE RecvSucceeds(t)
    <3>1. ss = sz - 1
      BY <1>1, <2>2, AmountsAfterRecv DEF ss, sz
    <3>2. t \in A /\ waiting_recv' = waiting_recv
      BY <2>2 DEF A, AwakeReceivers, RecvSucceeds, Receiving
    <3>3. A \ {t} \subseteq B
      <4> SUFFICES ASSUME NEW u \in A, u # t  PROVE u \in B
        OBVIOUS
      <4>1. u \in Threads /\ call' = [call EXCEPT ![t] = Idle]
        BY <2>2 DEF A, AwakeReceivers, Threads, RecvSucceeds, Return
      <4>2. call'[u] = call[u]
        BY <1>5, <4>1
      <4> QED BY <3>2, <4>2 DEF A, B, AwakeReceivers, Receiving
    <3>4. Cardinality(A \ {t}) = Cardinality(A) - 1
      BY <1>3, <3>2, FS_RemoveElement
    <3>5. Cardinality(A \ {t}) <= Cardinality(B)
      BY <1>3, <3>3, Grows
    <3> QED BY <1>2, <1>3, <1>4, <3>1, <3>2, <3>4, <3>5 DEF Goal
  <2> QED BY <1>16, <2>1, <2>2 DEF RecvStep
<1>17. ASSUME NEW t \in Threads, SpuriousWakeup(t)  PROVE Goal
  BY <1>7, <1>9, <1>17 DEF SpuriousWakeup
<1> QED BY <1>11, <1>12, <1>13, <1>14, <1>15, <1>16, <1>17 DEF Next

\* The four invariants together are inductive.
THEOREM InductiveInvariant == Spec => []IInv
<1>1. Init => IInv
  BY InitTypeOK
     DEF Init, IInv, OnlyBlockingCallsWait, NoneBlockedOnError, NoLostWakeup
<1>2. IInv /\ [Next]_vars => IInv'
  <2> SUFFICES ASSUME IInv, [Next]_vars PROVE IInv'
    OBVIOUS
  <2>1. TypeOK' /\ OnlyBlockingCallsWait' /\ NoneBlockedOnError'
    BY NextTypeOK, NextOnlyBlockingCallsWait, NextNoneBlockedOnError DEF IInv
  <2>2. NoLostWakeup'
    BY NextSendersAwake, NextReceiversAwake
       DEF SendersAwake, ReceiversAwake, NoLostWakeup
  <2> QED BY <2>1, <2>2 DEF IInv
<1> QED BY <1>1, <1>2, PTL DEF Spec

\* One signal per message or free place loses no wakeup: while a sender
\* (receiver) is blocked there are as many woken ones as free places
\* (messages), whatever the number of threads (threadmessage.c:132, 149, 231).
THEOREM WakeupsAreNotLost == Spec => []NoLostWakeup
<1>1. IInv => NoLostWakeup
  BY DEF IInv
<1> QED BY <1>1, InductiveInvariant, PTL
-----------------------------------------------------------------------------
(***************************************************************************)
(* Every step of ThreadMessage is a step of MessageChannel or changes      *)
(* nothing of it, for all values of the constants: the safety half of      *)
(* ImplementsChannel.  Its fairness half is left to TLC.                   *)
(***************************************************************************)
\* A queue that is not live holds nothing.
EmptyUnlessLive == life # "live" => Size(fifo) = 0

LEMMA NextEmptyUnlessLive ==
  ASSUME TypeOK, EmptyUnlessLive, [Next]_vars
  PROVE  EmptyUnlessLive'
<1> DEFINE Goal == life' # "live" => Size(fifo') = 0
<1> SUFFICES Goal
  BY DEF EmptyUnlessLive
<1>1. ASSUME life' = life, fifo' = fifo \/ life = "live"  PROVE Goal
  BY <1>1, Zenon DEF EmptyUnlessLive
<1>2. ASSUME life' = "live"  PROVE Goal
  BY <1>2
<1>3. CASE QueueFree
  <2>1. 0 \in 0 .. (IndexModulus - 1)
    BY FifoAssumption
  <2> QED BY <1>3, <2>1, AllocIsFifo DEF QueueFree
<1> HIDE DEF Goal
<1>4. CASE UNCHANGED vars
  BY <1>1, <1>4 DEF vars
<1>5. CASE Control
  BY <1>1, <1>2, <1>3, <1>5
     DEF Control, QueueAlloc, QueueAllocFails, SetFreeFunc, NbElems,
         SetErrSend, SetErrRecv, Flush, QueueFreeNull, vars
<1>6. ASSUME NEW t \in Senders, NEW m \in Msgs, NEW nb \in BOOLEAN,
             SendCall(t, m, nb)
      PROVE  Goal
  BY <1>1, <1>6 DEF SendCall
<1>7. ASSUME NEW t \in Senders, SendStep(t)  PROVE Goal
  <2>1. t \in Threads /\ call[t].op \in {"send", "recv"}
    BY <1>7 DEF SendStep, SendWaits, SendWouldBlock, SendFails, SendSucceeds,
                Sending, Threads
  <2>2. life = "live"
    BY <2>1, InCallIsLive
  <2> QED BY <1>1, <1>7, <2>2
          DEF SendStep, SendWaits, SendWouldBlock, SendFails, SendSucceeds
<1>8. ASSUME NEW t \in Receivers, NEW nb \in BOOLEAN, RecvCall(t, nb)
      PROVE  Goal
  BY <1>1, <1>8 DEF RecvCall
<1>9. ASSUME NEW t \in Receivers, RecvStep(t)  PROVE Goal
  <2>1. t \in Threads /\ call[t].op \in {"send", "recv"}
    BY <1>9 DEF RecvStep, RecvWaits, RecvWouldBlock, RecvFails, RecvSucceeds,
                Receiving, Threads
  <2>2. life = "live"
    BY <2>1, InCallIsLive
  <2> QED BY <1>1, <1>9, <2>2
          DEF RecvStep, RecvWaits, RecvWouldBlock, RecvFails, RecvSucceeds
<1>10. ASSUME NEW t \in Threads, SpuriousWakeup(t)  PROVE Goal
  BY <1>1, <1>10 DEF SpuriousWakeup
<1> QED BY <1>4, <1>5, <1>6, <1>7, <1>8, <1>9, <1>10 DEF Next

\* An empty fifo has no contents.
LEMMA EmptyContents ==
  ASSUME NEW f, IsFifo(f, Msgs), Size(f) = 0
  PROVE  Contents(f) = <<>>
<1>1. Contents(f) \in Seq(Msgs \union {Garbage}) /\ Len(Contents(f)) = 0
  BY ContentsIsSeq
<1> QED BY <1>1, EmptySeq

\* What flush and free hand to free_func is what the fifo holds.
LEMMA FreedIsContents ==
  ASSUME TypeOK
  PROVE  FreedMessages = IF free_func THEN Contents(fifo) ELSE <<>>
<1>1. \A k \in 1 .. Size(fifo) : PeekAt(fifo, k - 1, 1)[1] = Contents(fifo)[k]
  BY PeekOne DEF TypeOK
<1>2. Contents(fifo) = [k \in 1 .. Size(fifo) |-> Contents(fifo)[k]]
  BY DEF Contents
<1> QED BY <1>1, <1>2, Zenon DEF FreedMessages

-----------------------------------------------------------------------------
LEMMA InitMapped == Init => Channel!Init
<1> SUFFICES ASSUME Init PROVE Channel!Init
  OBVIOUS
<1>1. 0 \in 0 .. (IndexModulus - 1)
  BY FifoAssumption
<1>2. Contents(fifo) = <<>>
  BY <1>1, AllocIsFifo, EmptyContents DEF Init
<1> QED BY <1>2 DEF Init, Channel!Init, Idle, Channel!Idle, Threads,
           Channel!Threads, NoError, Channel!NoError

\* The abstract channel's capacity and data.
cap  == IF life = "live" THEN fifo.end ELSE 0
chan == Contents(fifo)

\* Calls on a live queue see the fifo's bounds as the channel's.
LEMMA ChanFacts ==
  ASSUME TypeOK
  PROVE  /\ chan \in Seq(Msgs \union {Garbage})
         /\ Len(chan) = Size(fifo)
         /\ Len(chan) \in Nat
         /\ chan = <<>> <=> Size(fifo) = 0
         /\ life = "live" => /\ Len(chan) <= cap
                             /\ Space(fifo) < 1 <=> Len(chan) = cap
<1>1. chan \in Seq(Msgs \union {Garbage}) /\ Len(chan) = Size(fifo)
  BY ContentsIsSeq DEF TypeOK, chan
<1>2. chan = <<>> <=> Size(fifo) = 0
  BY <1>1, EmptySeq
<1> QED BY <1>1, <1>2, Amounts DEF TypeOK, cap

\* A step that leaves the fifo and the life of the queue alone.
LEMMA ChanSame ==
  ASSUME fifo' = fifo, life' = life
  PROVE  cap' = cap /\ chan' = chan
  BY Zenon DEF cap, chan

LEMMA ControlMapped ==
  ASSUME TypeOK, EmptyUnlessLive, Control
  PROVE  Channel!Next \/ UNCHANGED Channel!vars
<1>1. ASSUME NEW n \in Capacities, QueueAlloc(n)  PROVE Channel!Next
  <2>1. n \in 0 .. (IndexModulus - 1) /\ n <= MaxElems
    BY <1>1, FifoAssumption, ThreadMessageAssumption DEF QueueAlloc
  <2>2. fifo' = Alloc(n) /\ IsFifo(fifo', Msgs) /\ fifo'.end = n /\ Size(fifo') = 0
    BY <1>1, <2>1, AllocIsFifo DEF QueueAlloc
  <2>3. chan' = <<>> /\ chan = <<>>
    BY <1>1, <2>2, EmptyContents DEF TypeOK, EmptyUnlessLive, QueueAlloc, chan
  <2>4. life = "none" /\ life' = "live" /\ cap' = n
    BY <1>1, <2>2 DEF QueueAlloc, cap
  <2>5. Channel!Create(n)
    BY <1>1, <2>3, <2>4
       DEF Channel!Create, QueueAlloc, cap, chan, errVars
  <2> QED BY <2>1, <2>5 DEF Channel!Next
<1>2. ASSUME QueueAllocFails \/ QueueFreeNull  PROVE UNCHANGED Channel!vars
  BY <1>2, ChanSame
     DEF QueueAllocFails, QueueFreeNull, vars, errVars, Channel!vars, cap, chan
<1>3. ASSUME NEW b \in BOOLEAN, SetFreeFunc(b)  PROVE Channel!Next
  <2>1. Channel!SetFreeFunc(b)
    BY <1>3, ChanSame DEF SetFreeFunc, errVars, Channel!SetFreeFunc, cap, chan
  <2> QED BY <2>1 DEF Channel!Next
<1>4. ASSUME NbElems  PROVE Channel!Next
  <2>1. Channel!Count
    BY <1>4, ChanSame, ChanFacts DEF NbElems, errVars, Channel!Count, cap, chan
  <2> QED BY <2>1 DEF Channel!Next
<1>5. ASSUME NEW e \in Errors \union {NoError}, SetErrSend(e) \/ SetErrRecv(e)
      PROVE  Channel!Next
  <2>1. Channel!SetErrors(e, err_recv) \/ Channel!SetErrors(err_send, e)
    BY <1>5, ChanSame DEF SetErrSend, SetErrRecv, Channel!SetErrors, cap, chan
  <2> QED BY <2>1 DEF Channel!Next, NoError, Channel!NoError
<1>6. ASSUME Flush  PROVE Channel!Next
  <2>1. Size(fifo) \in 0 .. Size(fifo)
    BY Amounts DEF TypeOK
  <2>2. /\ IsFifo(fifo', Msgs) /\ fifo'.end = fifo.end
        /\ Size(fifo') = Size(fifo) - Size(fifo)
    BY <1>6, <2>1, DrainDrops DEF TypeOK, Flush
  <2>3. Size(fifo') = 0
    BY <2>1, <2>2
  <2>4. chan' = <<>> /\ cap' = cap
    BY <1>6, <2>2, <2>3, EmptyContents DEF Flush, chan, cap
  <2>5. Channel!Flush
    BY <1>6, <2>4, FreedIsContents
       DEF Flush, errVars, Channel!Flush, Channel!Freed, cap, chan
  <2> QED BY <2>5 DEF Channel!Next
<1>7. ASSUME QueueFree  PROVE Channel!Next
  <2>1. 0 \in 0 .. (IndexModulus - 1)
    BY FifoAssumption
  <2>2. chan' = <<>> /\ cap' = 0
    BY <1>7, <2>1, AllocIsFifo, EmptyContents DEF QueueFree, chan, cap
  <2>3. Channel!Destroy
    BY <1>7, <2>2, FreedIsContents
       DEF QueueFree, errVars, Channel!Destroy, Channel!Freed, Channel!Threads,
           Channel!Idle, Threads, Idle, cap, chan
  <2> QED BY <2>3 DEF Channel!Next
<1> QED BY <1>1, <1>2, <1>3, <1>4, <1>5, <1>6, <1>7 DEF Control

LEMMA SendMapped ==
  ASSUME TypeOK, NEW t \in Senders, SendStep(t)
  PROVE  Channel!SendCompletes(t) \/ UNCHANGED Channel!vars
<1>1. call[t].op = "send" /\ t \in Threads
  BY DEF SendStep, SendWaits, SendWouldBlock, SendFails, SendSucceeds, Sending,
         Threads
<1>2. life = "live"
  BY <1>1, InCallIsLive
<1>3. CASE SendWaits(t)
  <2>1. cap' = cap /\ chan' = chan
    BY <1>3, ChanSame DEF SendWaits
  <2>2. UNCHANGED Channel!vars
    BY <1>3, <2>1 DEF SendWaits, errVars, Channel!vars, cap, chan
  <2> QED BY <2>2
<1>4. CASE SendWouldBlock(t)
  <2>1. cap' = cap /\ chan' = chan
    BY <1>4, ChanSame DEF SendWouldBlock
  <2>2. Len(chan) = cap
    BY <1>2, <1>4, ChanFacts DEF SendWouldBlock, MustWaitToSend
  <2>3. Channel!SendCompletes(t)
    BY <1>1, <1>4, <2>1, <2>2
       DEF SendWouldBlock, MustWaitToSend, Return, errVars, NoError, Idle,
           Channel!SendCompletes, Channel!Return, Channel!NoError, Channel!Idle,
           cap, chan
  <2> QED BY <2>3
<1>5. CASE SendFails(t)
  <2>1. cap' = cap /\ chan' = chan
    BY <1>5, ChanSame DEF SendFails
  <2>2. Channel!SendCompletes(t)
    BY <1>1, <1>5, <2>1
       DEF SendFails, Return, errVars, NoError, Idle,
           Channel!SendCompletes, Channel!Return, Channel!NoError, Channel!Idle,
           cap, chan
  <2> QED BY <2>2
<1>6. CASE SendSucceeds(t)
  <2>1. call[t].msg \in Msgs
    BY <1>1, CallKinds DEF TypeOK
  <2>2. Len(chan) < cap /\ Size(fifo) < fifo.end
    BY <1>2, <1>6, ChanFacts, Amounts
       DEF TypeOK, SendSucceeds, MustWaitToSend, cap
  <2>3. fifo'.end = fifo.end /\ Contents(fifo') = Append(Contents(fifo), call[t].msg)
    BY <1>6, <2>1, <2>2, WriteOne DEF TypeOK, SendSucceeds
  <2>4. cap' = cap /\ chan' = Append(chan, call[t].msg)
    BY <1>6, <2>3 DEF SendSucceeds, cap, chan
  <2>5. Channel!SendCompletes(t)
    BY <1>1, <1>6, <2>2, <2>4
       DEF SendSucceeds, Return, errVars, NoError, Idle,
           Channel!SendCompletes, Channel!Return, Channel!NoError, Channel!Idle,
           cap, chan
  <2> QED BY <2>5
<1> QED BY <1>3, <1>4, <1>5, <1>6 DEF SendStep

LEMMA RecvMapped ==
  ASSUME TypeOK, NEW t \in Receivers, RecvStep(t)
  PROVE  Channel!RecvCompletes(t) \/ UNCHANGED Channel!vars
<1>1. call[t].op = "recv" /\ t \in Threads
  BY DEF RecvStep, RecvWaits, RecvWouldBlock, RecvFails, RecvSucceeds, Receiving,
         Threads
<1>2. life = "live"
  BY <1>1, InCallIsLive
<1>3. Size(fifo) \in Nat
  BY Amounts DEF TypeOK
<1>4. CASE RecvWaits(t)
  <2>1. cap' = cap /\ chan' = chan
    BY <1>4, ChanSame DEF RecvWaits
  <2>2. UNCHANGED Channel!vars
    BY <1>4, <2>1 DEF RecvWaits, errVars, Channel!vars, cap, chan
  <2> QED BY <2>2
<1>5. CASE RecvWouldBlock(t)
  <2>1. cap' = cap /\ chan' = chan
    BY <1>5, ChanSame DEF RecvWouldBlock
  <2>2. Size(fifo) = 0
    BY <1>3, <1>5 DEF RecvWouldBlock, MustWaitToRecv
  <2>3. chan = <<>>
    BY <2>2, ChanFacts
  <2>4. Channel!RecvCompletes(t)
    BY <1>1, <1>5, <2>1, <2>3
       DEF RecvWouldBlock, MustWaitToRecv, Return, errVars, NoError, Idle,
           Channel!RecvCompletes, Channel!Return, Channel!NoError, Channel!Idle,
           cap, chan
  <2> QED BY <2>4
<1>6. CASE RecvFails(t)
  <2>1. cap' = cap /\ chan' = chan
    BY <1>6, ChanSame DEF RecvFails
  <2>2. Size(fifo) = 0 /\ err_recv # NoError
    BY <1>3, <1>6 DEF RecvFails, MustWaitToRecv
  <2>3. chan = <<>>
    BY <2>2, ChanFacts
  <2>4. Channel!RecvCompletes(t)
    BY <1>1, <1>6, <2>1, <2>2, <2>3
       DEF RecvFails, Return, errVars, NoError, Idle,
           Channel!RecvCompletes, Channel!Return, Channel!NoError, Channel!Idle,
           cap, chan
  <2> QED BY <2>4
<1>7. CASE RecvSucceeds(t)
  <2>1. Size(fifo) >= 1
    BY <1>3, <1>7 DEF RecvSucceeds
  <2>2. /\ fifo'.end = fifo.end /\ Contents(fifo') = Tail(Contents(fifo))
        /\ ReadOut(fifo, 1)[1] = Head(Contents(fifo))
    BY <1>7, <2>1, ReadOne DEF TypeOK, RecvSucceeds
  <2>3. chan # <<>>
    BY <1>3, <2>1, ChanFacts
  <2>4. cap' = cap /\ chan' = Tail(chan) /\ ReadOut(fifo, 1)[1] = Head(chan)
    BY <1>7, <2>2 DEF RecvSucceeds, cap, chan
  <2>5. Channel!RecvCompletes(t)
    BY <1>1, <1>7, <2>3, <2>4
       DEF RecvSucceeds, Return, errVars, Idle,
           Channel!RecvCompletes, Channel!Return, Channel!Idle, cap, chan
  <2> QED BY <2>5
<1> QED BY <1>4, <1>5, <1>6, <1>7 DEF RecvStep

LEMMA StepMapped ==
  ASSUME TypeOK, EmptyUnlessLive, [Next]_vars
  PROVE  Channel!Next \/ UNCHANGED Channel!vars
<1>1. CASE UNCHANGED vars
  BY <1>1, ChanSame DEF vars, errVars, Channel!vars, cap, chan
<1>2. CASE Control
  BY <1>2, ControlMapped
<1>3. ASSUME NEW t \in Senders, NEW m \in Msgs, NEW nb \in BOOLEAN,
             SendCall(t, m, nb)
      PROVE  Channel!Next
  <2>1. Channel!Call(t, [op |-> "send", msg |-> m, nonblock |-> nb])
    BY <1>3, ChanSame
       DEF SendCall, errVars, Idle, Channel!Call, Channel!Idle, cap, chan
  <2> QED BY <2>1 DEF Channel!Next
<1>4. ASSUME NEW t \in Senders, SendStep(t)
      PROVE  Channel!Next \/ UNCHANGED Channel!vars
  BY <1>4, SendMapped DEF Channel!Next
<1>5. ASSUME NEW t \in Receivers, NEW nb \in BOOLEAN, RecvCall(t, nb)
      PROVE  Channel!Next
  <2>1. Channel!Call(t, [op |-> "recv", msg |-> Garbage, nonblock |-> nb])
    BY <1>5, ChanSame
       DEF RecvCall, errVars, Idle, Channel!Call, Channel!Idle, cap, chan
  <2> QED BY <2>1 DEF Channel!Next
<1>6. ASSUME NEW t \in Receivers, RecvStep(t)
      PROVE  Channel!Next \/ UNCHANGED Channel!vars
  BY <1>6, RecvMapped DEF Channel!Next
<1>7. ASSUME NEW t \in Threads, SpuriousWakeup(t)
      PROVE  UNCHANGED Channel!vars
  BY <1>7, ChanSame DEF SpuriousWakeup, errVars, Channel!vars, cap, chan
<1> QED BY <1>1, <1>2, <1>3, <1>4, <1>5, <1>6, <1>7 DEF Next

\* What the queue does, seen through the contents of its fifo, is what a
\* bounded channel does: each message comes out once and in order, a call
\* returns what the channel says, flush and free give free_func what is left
\* (threadmessage.c:120 to 235 on top of fifo.c).
THEOREM QueueIsChannel == Spec => Channel!Init /\ [][Channel!Next]_(Channel!vars)
<1>1. Init => EmptyUnlessLive
  <2>1. 0 \in 0 .. (IndexModulus - 1)
    BY FifoAssumption
  <2> QED BY <2>1, AllocIsFifo DEF Init, EmptyUnlessLive
<1>2. TypeOK /\ EmptyUnlessLive /\ [Next]_vars => EmptyUnlessLive'
  BY NextEmptyUnlessLive
<1>3. TypeOK /\ EmptyUnlessLive /\ [Next]_vars => [Channel!Next]_(Channel!vars)
  BY StepMapped
<1> QED BY <1>1, <1>2, <1>3, InitMapped, TypeCorrect, PTL DEF Spec
=============================================================================
