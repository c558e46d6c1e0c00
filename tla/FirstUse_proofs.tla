--------------------------- MODULE FirstUse_proofs ---------------------------
(***************************************************************************)
(* The invariants of threads that use the codecs, the formats and the      *)
(* processor's flags for the first time at once, for any set of threads    *)
(* and any number of codecs, formats and devices.                          *)
(*                                                                         *)
(* The links of the lists are stored one at a time, in the order of the    *)
(* table, and a stored link is never taken back: each store gives a link   *)
(* the value it has or its final one.  So what a thread knows of the list  *)
(* (LinkedBelow for the codecs, Stored for the formats: the links before   *)
(* the place it has got to are there) is not disturbed by the others, and  *)
(* CodecMove and FormatMove leave each step only its own thread to look    *)
(* at.  A walk finds the list whole because once-flags are "done", and a   *)
(* registration of devices returns, only after such a thread is through.   *)
(*                                                                         *)
(* The parts share nothing, so that the invariants are proved one by one.  *)
(***************************************************************************)
EXTENDS FirstUse, TLAPS
-----------------------------------------------------------------------------
(* The codecs.                                                              *)

CodecCalls == [op : {"none", "iterate", "next", "register"},
               at : {"idle", "static", "init", "iterated", "next", "linked"},
               arg : Codecs \union {NULL}, i : 1 .. NbCodecs + 1, linking : BOOLEAN,
               upto : 1 .. NbCodecs + 1]

\* The links to the codecs before k are stored.
LinkedBelow(k) == \A p \in Codecs : p + 1 < k => next[p] = p + 1

CodecTypes ==
    /\ staticInit \in {"no", "running", "done"} /\ nextInit \in {"no", "running", "done"}
    /\ next \in [Codecs -> Codecs \union {NULL}]
    /\ \A p \in Codecs : next[p] \in {NULL, p + 1}
    /\ call \in [Threads -> CodecCalls]

\* What a thread inside a call can rely on.
CodecCall(t) ==
    /\ At(t, "static") \/ At(t, "init") \/ At(t, "iterated") =>
          call[t].linking \/ call[t].op = "iterate"
    /\ At(t, "init") => \A c \in Codecs : c < call[t].upto => c \in ready
    /\ At(t, "iterated") => staticInit = "done"
    /\ call[t].linking => LinkedBelow(call[t].i)
    /\ At(t, "next") => call[t].i = 1
    /\ At(t, "linked") => nextInit = "done"
    /\ call[t].op = "iterate" => ~call[t].linking /\ ~At(t, "next") /\ ~At(t, "linked")

\* The two once-flags say what is behind them; what a call has just given is
\* right because of them.
CodecInv ==
    /\ CodecTypes
    /\ staticInit = "done" => Codecs \subseteq ready
    /\ nextInit = "done" => staticInit = "done" /\ LinkedBelow(NbCodecs + 1)
    /\ \A t \in Threads : CodecCall(t)
    /\ CodecsReadyBeforeUse /\ CodecWalksAreWhole

\* What the assumptions say of the numbers used here.
LEMMA CodecConstants == NbCodecs \in Nat /\ NbCodecs >= 1 /\ NULL = 0
  BY CodecRegistryAssumption DEF NULL

\* A thread outside any call.
LEMMA CodecIdle ==
  /\ Idle \in CodecCalls
  /\ Idle.op = "none" /\ Idle.at = "idle" /\ Idle.i = 1 /\ ~Idle.linking
  BY CodecConstants DEF Idle, CodecCalls

\* Nothing is initialised, linked or called at first.
LEMMA CodecInit == Init => CodecInv
<1> SUFFICES ASSUME Init  PROVE CodecInv
  OBVIOUS
<1>1. CodecTypes
  BY CodecIdle, CodecConstants DEF Init, CodecTypes
<1>2. \A t \in Threads : CodecCall(t)
  BY CodecIdle DEF Init, CodecCall, At
<1> QED BY <1>1, <1>2 DEF Init, CodecInv, CodecsReadyBeforeUse, CodecWalksAreWhole, Nothing

\* What other threads do is never undone.
LEMMA CodecCallKept ==
  ASSUME NEW u, CodecCall(u), CodecTypes, call'[u] = call[u], ready \subseteq ready',
         staticInit = "done" => staticInit' = "done",
         nextInit = "done" => nextInit' = "done",
         \A p \in Codecs : next'[p] = next[p] \/ next'[p] = p + 1
  PROVE  CodecCall(u)'
<1>1. \A k : LinkedBelow(k) => LinkedBelow(k)'
  BY DEF LinkedBelow
<1> QED BY <1>1 DEF CodecCall, At

\* A thread changes its own call, and what all threads share only grows.
LEMMA CodecMove ==
  ASSUME CodecInv, NEW t \in Threads, NEW c \in CodecCalls, call' = [call EXCEPT ![t] = c],
         ready \subseteq ready',
         staticInit = "done" => staticInit' = "done",
         nextInit = "done" => nextInit' = "done",
         \A p \in Codecs : next'[p] = next[p] \/ next'[p] = p + 1,
         CodecTypes', CodecCall(t)',
         staticInit' = "done" => Codecs \subseteq ready',
         nextInit' = "done" => staticInit' = "done" /\ LinkedBelow(NbCodecs + 1)',
         got' = got \/ got' = Nothing
  PROVE  CodecInv'
<1>1. ASSUME NEW u \in Threads, u # t  PROVE CodecCall(u)'
  BY <1>1, CodecCallKept DEF CodecInv, CodecTypes
<1>2. CodecsReadyBeforeUse'
  BY DEF CodecInv, CodecsReadyBeforeUse, Nothing
<1>3. CodecWalksAreWhole'
  BY DEF CodecInv, CodecWalksAreWhole, Nothing
<1> QED BY <1>1, <1>2, <1>3 DEF CodecInv

\* A call begins.
LEMMA CodecCalled ==
  ASSUME CodecInv, NEW t \in Threads,
         \/ \E i \in 1 .. NbCodecs + 1 : CallIterate(t, i)
         \/ \E c \in Codecs \union {NULL} : CallNext(t, "next", c)
         \/ CallNext(t, "register", NULL)
  PROVE  CodecInv'
<1>1. UNCHANGED <<staticInit, nextInit, ready, next>> /\ got' = Nothing
  BY DEF CallIterate, CallNext
<1>2. PICK c \in CodecCalls :
         /\ call' = [call EXCEPT ![t] = c] /\ ~c.linking
         /\ \/ c.op = "iterate" /\ c.at = "static"
            \/ c.op \in {"next", "register"} /\ c.at = "next" /\ c.i = 1
  <2>1. ASSUME NEW i \in 1 .. NbCodecs + 1, CallIterate(t, i)
        PROVE  \E c \in CodecCalls : /\ call' = [call EXCEPT ![t] = c] /\ ~c.linking
                                     /\ c.op = "iterate" /\ c.at = "static"
    <3> DEFINE c == [Idle EXCEPT !.op = "iterate", !.at = "static", !.i = i]
    <3>1. c \in CodecCalls /\ ~c.linking /\ c.op = "iterate" /\ c.at = "static"
      BY CodecIdle DEF CodecCalls
    <3> QED BY <2>1, <3>1 DEF CallIterate
  <2>2. ASSUME NEW op \in {"next", "register"}, NEW arg \in Codecs \union {NULL},
               CallNext(t, op, arg)
        PROVE  \E c \in CodecCalls : /\ call' = [call EXCEPT ![t] = c] /\ ~c.linking
                                     /\ c.op \in {"next", "register"} /\ c.at = "next" /\ c.i = 1
    <3> DEFINE c == [Idle EXCEPT !.op = op, !.at = "next", !.arg = arg]
    <3>1. c \in CodecCalls /\ ~c.linking /\ c.op = op /\ c.at = "next" /\ c.i = 1
      BY CodecIdle DEF CodecCalls
    <3> QED BY <2>2, <3>1 DEF CallNext
  <2> QED BY <2>1, <2>2
<1>3. call'[t] = c
  BY <1>2 DEF CodecInv, CodecTypes
<1>4. CodecTypes'
  BY <1>1, <1>2 DEF CodecInv, CodecTypes
<1>5. CodecCall(t)'
  BY <1>2, <1>3, CodecConstants DEF CodecCall, At
<1>6. nextInit' = "done" => LinkedBelow(NbCodecs + 1)'
  BY <1>1 DEF CodecInv, LinkedBelow
<1> QED BY <1>1, <1>2, <1>4, <1>5, <1>6, CodecMove DEF CodecInv

\* The initialisation of the codecs' static data.
LEMMA CodecStatic ==
  ASSUME CodecInv, NEW t \in Threads, StaticOnce(t) \/ InitStatic(t)
  PROVE  CodecInv'
<1>1. /\ CodecTypes /\ CodecCall(t) /\ call[t] \in CodecCalls
      /\ UNCHANGED <<nextInit, next, got>>
  BY DEF CodecInv, CodecTypes, StaticOnce, InitStatic
<1>2. nextInit = "done" => staticInit = "done" /\ LinkedBelow(NbCodecs + 1)
  BY DEF CodecInv
<1>3. \A k : LinkedBelow(k)' <=> LinkedBelow(k)
  BY <1>1 DEF LinkedBelow
<1>4. PICK at \in {"init", "iterated"}, upto \in 1 .. NbCodecs + 1 :
         /\ call' = [call EXCEPT ![t].at = at, ![t].upto = upto]
         /\ ready \subseteq ready'
         /\ staticInit' \in {"no", "running", "done"}
         /\ staticInit = "done" => staticInit' = "done"
         /\ at = "init" => \A k \in Codecs : k < upto => k \in ready'
         /\ at = "iterated" => staticInit' = "done"
         /\ staticInit' = "done" => Codecs \subseteq ready'
         /\ call[t].linking \/ call[t].op = "iterate"
  <2>1. CASE StaticOnce(t)
    <3>1. CASE staticInit = "no"
      <4>1. /\ call' = [call EXCEPT ![t].at = "init", ![t].upto = 1]
            /\ staticInit' = "running" /\ ready' = ready
        BY <2>1, <3>1 DEF StaticOnce
      <4>2. call[t].linking \/ call[t].op = "iterate"
        BY <1>1, <2>1 DEF StaticOnce, CodecCall
      <4>3. 1 \in 1 .. NbCodecs + 1 /\ \A k \in Codecs : ~(k < 1)
        BY CodecConstants DEF Codecs
      <4> QED BY <3>1, <4>1, <4>2, <4>3
    <3>2. CASE staticInit = "done"
      <4>1. call' = [call EXCEPT ![t].at = "iterated", ![t].upto = call[t].upto]
        BY <1>1, <2>1, <3>2 DEF StaticOnce, Goto, CodecTypes, CodecCalls
      <4> QED BY <1>1, <2>1, <3>2, <4>1 DEF StaticOnce, CodecCall, CodecInv, CodecCalls
    <3> QED BY <2>1, <3>1, <3>2 DEF StaticOnce
  <2>2. CASE InitStatic(t)
    <3> DEFINE k == call[t].upto
    <3>1. CASE k \in Codecs
      <4>1. call' = [call EXCEPT ![t].at = "init", ![t].upto = k + 1]
            /\ ready' = ready \union {k} /\ staticInit' = staticInit
        BY <1>1, <2>2, <3>1 DEF InitStatic, At, CodecTypes, CodecCalls
      <4>2. k + 1 \in 1 .. NbCodecs + 1
        BY <3>1, CodecConstants DEF Codecs
      <4>3. \A p \in Codecs : p < k + 1 => p \in ready'
        BY <1>1, <2>2, <3>1, <4>1, CodecConstants DEF InitStatic, CodecCall, Codecs
      <4> HIDE DEF k
      <4> QED BY <1>1, <2>2, <4>1, <4>2, <4>3 DEF InitStatic, CodecCall, CodecInv, CodecTypes
    <3>2. CASE k \notin Codecs
      <4>1. call' = [call EXCEPT ![t].at = "iterated", ![t].upto = k]
            /\ ready' = ready /\ staticInit' = "done"
        BY <1>1, <2>2, <3>2 DEF InitStatic, Goto, CodecTypes, CodecCalls
      <4>2. k = NbCodecs + 1
        BY <1>1, <3>2, CodecConstants DEF CodecCalls, Codecs
      <4>3. Codecs \subseteq ready'
        BY <1>1, <2>2, <4>1, <4>2, CodecConstants DEF InitStatic, CodecCall, Codecs
      <4>4. k \in 1 .. NbCodecs + 1
        BY <4>2, CodecConstants
      <4> HIDE DEF k
      <4> QED BY <1>1, <2>2, <4>1, <4>3, <4>4 DEF InitStatic, CodecCall
    <3> QED BY <3>1, <3>2
  <2> QED BY <2>1, <2>2
<1>5. PICK c \in CodecCalls :
         /\ call' = [call EXCEPT ![t] = c] /\ c.at = at /\ c.upto = upto
         /\ c.linking = call[t].linking /\ c.op = call[t].op /\ c.i = call[t].i
  <2> DEFINE c == [call[t] EXCEPT !.at = at, !.upto = upto]
  <2>1. /\ c \in CodecCalls /\ c.at = at /\ c.upto = upto
        /\ c.linking = call[t].linking /\ c.op = call[t].op /\ c.i = call[t].i
    BY <1>1 DEF CodecCalls
  <2>2. call' = [call EXCEPT ![t] = c]
    BY <1>4
  <2> QED BY <2>1, <2>2
<1>6. call'[t] = c
  BY <1>1, <1>5 DEF CodecTypes
<1>7. CodecTypes'
  BY <1>1, <1>4, <1>5 DEF CodecTypes
<1>8. CodecCall(t)'
  BY <1>1, <1>3, <1>4, <1>5, <1>6 DEF CodecCall, At
<1> QED BY <1>1, <1>2, <1>3, <1>4, <1>5, <1>7, <1>8, CodecMove

\* Whoever comes first links the list, the others wait.
LEMMA CodecNextOnce ==
  ASSUME CodecInv, NEW t \in Threads, NextOnce(t)
  PROVE  CodecInv'
<1>1. /\ CodecTypes /\ CodecCall(t) /\ call[t] \in CodecCalls /\ At(t, "next")
      /\ UNCHANGED <<staticInit, ready, next, got>>
  BY DEF CodecInv, CodecTypes, NextOnce
<1>2. \A k : LinkedBelow(k)' <=> LinkedBelow(k)
  BY <1>1 DEF LinkedBelow
<1>3. PICK at \in {"static", "linked"}, linking \in BOOLEAN :
         /\ call' = [call EXCEPT ![t].at = at, ![t].linking = linking]
         /\ at = "static" => linking
         /\ linking => at = "static" \/ call[t].linking
         /\ at = "linked" => nextInit' = "done"
         /\ nextInit' \in {"no", "running", "done"}
         /\ nextInit' = "done" <=> nextInit = "done"
  <2>1. CASE nextInit = "no"
    BY <1>1, <2>1 DEF NextOnce
  <2>2. CASE nextInit = "done"
    <3>1. call' = [call EXCEPT ![t].at = "linked", ![t].linking = call[t].linking]
      BY <1>1, <2>2 DEF NextOnce, Goto, CodecTypes, CodecCalls
    <3> QED BY <1>1, <2>2, <3>1 DEF NextOnce, CodecCalls
  <2> QED BY <2>1, <2>2 DEF NextOnce
<1>4. PICK c \in CodecCalls :
         /\ call' = [call EXCEPT ![t] = c] /\ c.at = at /\ c.linking = linking
         /\ c.op = call[t].op /\ c.i = call[t].i
  <2> DEFINE c == [call[t] EXCEPT !.at = at, !.linking = linking]
  <2>1. /\ c \in CodecCalls /\ c.at = at /\ c.linking = linking
        /\ c.op = call[t].op /\ c.i = call[t].i
    BY <1>1 DEF CodecCalls
  <2>2. call' = [call EXCEPT ![t] = c]
    BY <1>3
  <2> QED BY <2>1, <2>2
<1>5. call'[t] = c /\ call[t].op # "iterate" /\ call[t].i = 1
  BY <1>1, <1>4 DEF CodecTypes, CodecCall, At
<1>6. CodecTypes'
  BY <1>1, <1>3, <1>4 DEF CodecTypes
<1>7. LinkedBelow(1)
  BY CodecConstants DEF LinkedBelow, Codecs
<1>8. CodecCall(t)'
  BY <1>2, <1>3, <1>4, <1>5, <1>7 DEF CodecCall, At
<1> QED BY <1>1, <1>2, <1>3, <1>4, <1>6, <1>8, CodecMove DEF CodecInv

\* One more codec is linked, or the list is whole.
LEMMA CodecLink ==
  ASSUME CodecInv, NEW t \in Threads, Link(t)
  PROVE  CodecInv'
<1>1. /\ CodecTypes /\ CodecCall(t) /\ call[t] \in CodecCalls /\ At(t, "iterated")
      /\ call[t].linking /\ staticInit = "done" /\ Codecs \subseteq ready
      /\ LinkedBelow(call[t].i)
      /\ nextInit = "done" => LinkedBelow(NbCodecs + 1)
      /\ UNCHANGED <<staticInit, ready, got>>
  BY DEF CodecInv, CodecTypes, Link, CodecCall
<1>0. PICK k \in 1 .. NbCodecs + 1 : k = call[t].i
  BY <1>1 DEF CodecCalls
<1>2. CASE k \in Codecs
  <2>1. /\ next' = [p \in Codecs |-> IF p = k - 1 THEN k ELSE next[p]]
        /\ call' = [call EXCEPT ![t].at = "static", ![t].i = k + 1]
        /\ nextInit' = nextInit
    BY <1>0, <1>2 DEF Link
  <2>2. /\ \A p \in Codecs : next'[p] = next[p] \/ next'[p] = p + 1
        /\ next' \in [Codecs -> Codecs \union {NULL}]
        /\ \A p \in Codecs : next'[p] \in {NULL, p + 1}
    BY <1>1, <1>2, <2>1, CodecConstants DEF CodecTypes, Codecs
  <2>3. LinkedBelow(k + 1)'
    BY <1>0, <1>1, <1>2, <2>1, CodecConstants DEF LinkedBelow, Codecs
  <2>4. nextInit' = "done" => LinkedBelow(NbCodecs + 1)'
    BY <1>1, <2>1, <2>2 DEF LinkedBelow
  <2>5. PICK c \in CodecCalls :
           /\ call' = [call EXCEPT ![t] = c] /\ c.at = "static" /\ c.linking
           /\ c.op = call[t].op /\ c.i = k + 1
    <3> DEFINE c == [call[t] EXCEPT !.at = "static", !.i = k + 1]
    <3>1. k + 1 \in 1 .. NbCodecs + 1
      BY <1>2, CodecConstants DEF Codecs
    <3>2. /\ c \in CodecCalls /\ c.at = "static" /\ c.linking
          /\ c.op = call[t].op /\ c.i = k + 1
      BY <1>1, <3>1 DEF CodecCalls
    <3>3. call' = [call EXCEPT ![t] = c]
      BY <2>1
    <3> QED BY <3>2, <3>3
  <2>6. call'[t] = c
    BY <1>1, <2>5 DEF CodecTypes
  <2>7. CodecTypes'
    BY <1>1, <2>1, <2>2, <2>5 DEF CodecTypes
  <2>8. CodecCall(t)'
    BY <1>1, <2>3, <2>5, <2>6 DEF CodecCall, At
  <2> QED BY <1>1, <2>1, <2>2, <2>4, <2>5, <2>7, <2>8, CodecMove
<1>3. CASE k \notin Codecs
  <2>1. /\ nextInit' = "done" /\ Goto(t, "linked") /\ UNCHANGED next
        /\ k = NbCodecs + 1
    BY <1>0, <1>3, CodecConstants DEF Link, Codecs
  <2>2. LinkedBelow(NbCodecs + 1)'
    BY <1>0, <1>1, <2>1 DEF LinkedBelow
  <2>3. PICK c \in CodecCalls :
           /\ call' = [call EXCEPT ![t] = c] /\ c.at = "linked" /\ c.linking
           /\ c.op = call[t].op /\ c.i = k
    <3> DEFINE c == [call[t] EXCEPT !.at = "linked"]
    <3>1. /\ c \in CodecCalls /\ c.at = "linked" /\ c.linking
          /\ c.op = call[t].op /\ c.i = k
      BY <1>0, <1>1 DEF CodecCalls
    <3>2. call' = [call EXCEPT ![t] = c]
      BY <2>1 DEF Goto
    <3> QED BY <3>1, <3>2
  <2>4. call'[t] = c
    BY <1>1, <2>3 DEF CodecTypes
  <2>5. CodecTypes'
    BY <1>1, <2>1, <2>3 DEF CodecTypes
  <2>6. CodecCall(t)'
    BY <1>1, <2>1, <2>2, <2>3, <2>4 DEF CodecCall, At
  <2> QED BY <1>1, <2>1, <2>2, <2>3, <2>5, <2>6, CodecMove
<1> QED BY <1>2, <1>3

\* What a call gives: a codec that is ready, and the next one in the table.
LEMMA CodecReturned ==
  ASSUME CodecInv, NEW t \in Threads, IterateReturns(t) \/ NextReturns(t)
  PROVE  CodecInv'
<1>1. /\ CodecTypes /\ CodecCall(t) /\ call[t] \in CodecCalls
      /\ call' = [call EXCEPT ![t] = Idle]
      /\ UNCHANGED <<staticInit, nextInit, ready, next>>
      /\ staticInit = "done" => Codecs \subseteq ready
      /\ nextInit = "done" => staticInit = "done" /\ LinkedBelow(NbCodecs + 1)
  BY DEF CodecInv, CodecTypes, IterateReturns, NextReturns, Returns
<1>3. call'[t] = Idle
  BY <1>1 DEF CodecTypes
<1>4. CodecTypes'
  BY <1>1, CodecIdle DEF CodecTypes
<1>5. CodecCall(t)'
  BY <1>3, CodecIdle DEF CodecCall, At
<1>6. ASSUME NEW u \in Threads, u # t  PROVE CodecCall(u)'
  <2>1. CodecCall(u) /\ call'[u] = call[u]
    BY <1>1, <1>6 DEF CodecInv, CodecTypes
  <2> QED BY <1>1, <2>1, CodecCallKept
<1>7. LinkedBelow(NbCodecs + 1)' <=> LinkedBelow(NbCodecs + 1)
  BY <1>1 DEF LinkedBelow
<1>8. CodecsReadyBeforeUse' /\ CodecWalksAreWhole'
  <2>1. CASE IterateReturns(t)
    <3>1. /\ got'.op = "iterate" /\ Codecs \subseteq ready'
          /\ got'.codec # NULL => got'.codec \in Codecs
      BY <1>1, <2>1 DEF IterateReturns, Returns, CodecCall, At
    <3> QED BY <3>1 DEF CodecsReadyBeforeUse, CodecWalksAreWhole
  <2>2. CASE NextReturns(t)
    <3>1. /\ Codecs \subseteq ready' /\ LinkedBelow(NbCodecs + 1)
          /\ got' = [op |-> call[t].op, arg |-> call[t].arg, codec |->
                IF call[t].op = "register" THEN NULL
                ELSE IF call[t].arg # NULL THEN next[call[t].arg] ELSE 1]
      BY <1>1, <2>2 DEF NextReturns, Returns, CodecCall, At
    <3>2. CASE call[t].op = "register"
      BY <3>1, <3>2 DEF CodecsReadyBeforeUse, CodecWalksAreWhole
    <3>3. CASE call[t].op # "register"
      <4>1. PICK a \in Codecs \union {NULL} : a = call[t].arg
        BY <1>1 DEF CodecCalls
      <4>2. got'.arg = a /\ got'.codec = IF a # NULL THEN next[a] ELSE 1
        BY <3>1, <3>3, <4>1
      <4>3. CASE a = NULL
        BY <3>1, <4>2, <4>3, CodecConstants DEF CodecsReadyBeforeUse, CodecWalksAreWhole, Codecs
      <4>4. CASE a \in Codecs /\ a # NULL
        <5>1. next[a] = IF a = NbCodecs THEN NULL ELSE a + 1
          BY <1>1, <3>1, <4>4, CodecConstants DEF LinkedBelow, Codecs, CodecTypes
        <5>2. next[a] # NULL => next[a] \in Codecs
          BY <1>1, <4>4 DEF CodecTypes
        <5> QED BY <3>1, <4>2, <4>4, <5>1, <5>2 DEF CodecsReadyBeforeUse, CodecWalksAreWhole
      <4> QED BY <4>3, <4>4
    <3> QED BY <3>2, <3>3
  <2> QED BY <2>1, <2>2
<1> QED BY <1>1, <1>4, <1>5, <1>6, <1>7, <1>8 DEF CodecInv

\* No step of any thread breaks the codecs' invariant.
LEMMA CodecStep ==
  ASSUME CodecInv, [Next]_vars
  PROVE  CodecInv'
<1>1. ASSUME UNCHANGED vars  PROVE CodecInv'
  BY <1>1 DEF vars, CodecInv, CodecTypes, CodecCall, At, LinkedBelow, CodecsReadyBeforeUse,
              CodecWalksAreWhole
<1> QED BY <1>1, CodecCalled, CodecStatic, CodecNextOnce, CodecLink, CodecReturned DEF Next, Step
-----------------------------------------------------------------------------
(* The formats.                                                             *)

Sides   == Formats!Sides
Table   == Formats!Formats
NbAll   == NbCodecs + NbDevices

FormatCalls ==
    [op : {"none", "devices", "next", "register", "iterate"},
     at : {"idle", "setOut", "setIn", "lock", "link", "linked", "once", "look", "read"},
     side : Sides, arg : Table \union {NULL}, pos : 1 .. 2 * NbAll + 1,
     runsOnce : BOOLEAN, late : BOOLEAN]

\* Where the linking stores the link to format k of a side.
Place(s, k) == IF s = "out" THEN k ELSE k + NbAll

\* The links stored by a run that has got to pos: those of the table, and with
\* devices all.
Stored(pos, devices) ==
    \A s \in Sides, f \in Table :
        f + 1 \in Table /\ Place(s, f + 1) < pos /\ (devices \/ f + 1 <= NbCodecs)
            => fnext[s][f] = f + 1

Whole(devices) == Stored(2 * NbAll + 1, devices)

FormatTypes ==
    /\ listed \subseteq Sides /\ registered \in BOOLEAN
    /\ fnext \in [Sides -> [Table -> Table \union {NULL}]]
    /\ \A s \in Sides, f \in Table : fnext[s][f] \in {NULL, f + 1}
    /\ fcall \in [Threads -> FormatCalls]

\* What a thread inside a call can rely on.
FormatCall(t) ==
    LET c == fcall[t] IN
    /\ c.at \in {"setOut", "setIn"} => c.op = "devices"
    /\ c.op = "devices" => c.at \in {"setOut", "setIn", "lock", "link", "linked"}
    /\ c.at = "setIn" => "out" \in listed
    /\ c.op = "devices" /\ c.at \in {"lock", "link", "linked"} => listed = Sides
    /\ c.at \in {"look", "read"} <=> c.op = "iterate"
    /\ c.at = "read" => Formats!Other(c.side) \in listed
    /\ c.at = "link" => Stored(c.pos, c.op = "devices")
    /\ c.at = "linked" => Whole(c.op = "devices")
    /\ c.late => registered

\* Devices come to the demuxers last; who has seen a registration return, or
\* the once-flag done, sees the lists whole as far as they go.
FormatInv ==
    /\ FormatTypes
    /\ "in" \in listed => "out" \in listed
    /\ registered => listed = Sides /\ Whole(TRUE)
    /\ once = "done" => Whole(FALSE)
    /\ \A t \in Threads : FormatCall(t)
    /\ Formats!FormatWalksAreWhole

\* What the assumptions say of the numbers and sides used here.
LEMMA FormatConstants ==
  /\ NbCodecs \in Nat /\ NbCodecs >= 1 /\ NbDevices \in Nat
  /\ NULL = 0 /\ Formats!NULL = 0 /\ Formats!Fault = -1
  /\ Sides = {"out", "in"} /\ Table = 1 .. NbAll /\ NbAll \in Nat /\ NbAll >= NbCodecs
  BY CodecRegistryAssumption, FirstUseAssumption
     DEF NULL, Formats!NULL, Formats!Fault, Sides, Table, NbAll, Formats!Sides, Formats!Formats

\* A thread outside any call.
LEMMA FormatIdle ==
  /\ Formats!Idle \in FormatCalls
  /\ Formats!Idle.op = "none" /\ Formats!Idle.at = "idle" /\ ~Formats!Idle.late
  BY FormatConstants DEF Formats!Idle, FormatCalls

\* No device is listed and nothing is linked at first.
LEMMA FormatInit == Formats!Init => FormatInv
<1> SUFFICES ASSUME Formats!Init  PROVE FormatInv
  OBVIOUS
<1>1. FormatTypes
  BY FormatIdle, FormatConstants DEF Formats!Init, FormatTypes, Sides, Table
<1>2. \A t \in Threads : FormatCall(t)
  BY FormatIdle DEF Formats!Init, FormatCall
<1> QED BY <1>1, <1>2
        DEF Formats!Init, FormatInv, Formats!FormatWalksAreWhole, Formats!Nothing

\* A thread changes its own call, and what all threads share only grows.
LEMMA FormatMove ==
  ASSUME FormatInv, NEW t \in Threads, NEW c \in FormatCalls,
         fcall' = [fcall EXCEPT ![t] = c],
         listed \subseteq listed', registered => registered',
         \A s \in Sides, f \in Table : fnext'[s][f] = fnext[s][f] \/ fnext'[s][f] = f + 1,
         FormatTypes', FormatCall(t)',
         "in" \in listed' => "out" \in listed',
         registered' => registered \/ (listed' = Sides /\ Whole(TRUE)),
         once' = "done" => once = "done" \/ Whole(FALSE),
         Formats!FormatWalksAreWhole'
  PROVE  FormatInv'
<1>1. \A pos, devices : Stored(pos, devices) => Stored(pos, devices)'
  BY DEF Stored
<1>2. \A devices : Whole(devices) => Whole(devices)'
  BY <1>1 DEF Whole
<1>3. listed = Sides => listed' = Sides
  BY DEF FormatTypes
<1>4. ASSUME NEW u \in Threads, u # t  PROVE FormatCall(u)'
  <2>1. FormatCall(u) /\ fcall'[u] = fcall[u]
    BY <1>4 DEF FormatInv, FormatTypes
  <2> QED BY <1>1, <1>2, <1>3, <2>1 DEF FormatCall
<1> QED BY <1>2, <1>3, <1>4 DEF FormatInv

\* A call begins.
LEMMA FormatBegins ==
  ASSUME FormatInv, NEW t \in Threads,
         NEW op \in {"devices", "next", "register", "iterate"},
         NEW where \in {"setOut", "once", "look"},
         NEW side \in Sides, NEW arg \in Table \union {NULL},
         op = "devices" <=> where = "setOut", op = "iterate" <=> where = "look",
         Formats!Begins(t, op, where, side, arg)
  PROVE  FormatInv'
<1>1. UNCHANGED <<listed, once, fnext, registered>> /\ fgot' = Formats!Nothing
  BY DEF Formats!Begins
<1>2. PICK c \in FormatCalls :
         /\ fcall' = [fcall EXCEPT ![t] = c]
         /\ c.op = op /\ c.at = where /\ c.late = registered
  <2> DEFINE c == [Formats!Idle EXCEPT !.op = op, !.at = where, !.side = side,
                                       !.arg = arg, !.late = registered]
  <2>1. c \in FormatCalls /\ c.op = op /\ c.at = where /\ c.late = registered
    BY FormatIdle DEF FormatCalls, FormatInv, FormatTypes
  <2> QED BY <2>1 DEF Formats!Begins
<1>3. fcall'[t] = c
  BY <1>2 DEF FormatInv, FormatTypes
<1>4. FormatTypes'
  BY <1>1, <1>2 DEF FormatInv, FormatTypes
<1>5. FormatCall(t)'
  BY <1>1, <1>2, <1>3 DEF FormatCall
<1>6. Formats!FormatWalksAreWhole'
  BY <1>1 DEF Formats!FormatWalksAreWhole, Formats!Nothing
<1> QED BY <1>1, <1>2, <1>4, <1>5, <1>6, FormatMove DEF FormatInv

\* The calls that may begin: a registration, a walk or an iteration from any
\* format that is known.
LEMMA FormatCalled ==
  ASSUME FormatInv, NEW t \in Threads,
         \/ Formats!RegisterDevices(t)
         \/ \E side \in Sides, f \in Formats!Known :
               Formats!CallNext(t, "next", side, f) \/ Formats!CallIterate(t, side, f)
         \/ Formats!CallNext(t, "register", "out", NULL)
  PROVE  FormatInv'
<1>1. Formats!Known \subseteq Table \union {NULL}
  BY FormatConstants DEF Formats!Known, Table, NbAll
<1>2. ASSUME Formats!RegisterDevices(t)  PROVE FormatInv'
  <2>1. Formats!Begins(t, "devices", "setOut", "out", NULL)
    BY <1>2, FormatConstants DEF Formats!RegisterDevices
  <2> QED BY <2>1, FormatBegins, FormatConstants
<1>3. ASSUME NEW side \in Sides, NEW f \in Table \union {NULL},
             Formats!CallNext(t, "next", side, f)
      PROVE  FormatInv'
  BY <1>3, FormatBegins DEF Formats!CallNext
<1>4. ASSUME NEW side \in Sides, NEW f \in Table \union {NULL}, Formats!CallIterate(t, side, f)
      PROVE  FormatInv'
  BY <1>4, FormatBegins DEF Formats!CallIterate
<1>5. ASSUME Formats!CallNext(t, "register", "out", NULL)  PROVE FormatInv'
  BY <1>5, FormatBegins, FormatConstants DEF Formats!CallNext
<1> QED BY <1>1, <1>2, <1>3, <1>4, <1>5

\* The lists of devices are set, and the formats linked again.
LEMMA FormatDevices ==
  ASSUME FormatInv, NEW t \in Threads,
         Formats!SetOutdev(t) \/ Formats!SetIndev(t) \/ Formats!Once(t) \/ Formats!Lock(t)
  PROVE  FormatInv'
<1>1. /\ FormatTypes /\ FormatCall(t) /\ fcall[t] \in FormatCalls
      /\ UNCHANGED <<fnext, registered, fgot>>
  BY DEF FormatInv, FormatTypes, Formats!SetOutdev, Formats!SetIndev, Formats!Once,
         Formats!Lock
<1>2. \A pos, devices : Stored(pos, devices)' <=> Stored(pos, devices)
  BY <1>1 DEF Stored
<1>3. \A devices : Whole(devices)' <=> Whole(devices)
  BY <1>2 DEF Whole
<1>4. Formats!FormatWalksAreWhole'
  BY <1>1 DEF FormatInv, Formats!FormatWalksAreWhole
<1>5. PICK at \in {"setIn", "lock", "link", "linked"}, pos \in 1 .. 2 * NbAll + 1,
           runsOnce \in BOOLEAN :
         /\ fcall' = [fcall EXCEPT ![t].at = at, ![t].pos = pos, ![t].runsOnce = runsOnce]
         /\ listed \subseteq listed' /\ listed' \subseteq Sides
         /\ "in" \in listed' => "out" \in listed'
         /\ fcall[t].op # "iterate"
         /\ at = "setIn" => fcall[t].op = "devices" /\ "out" \in listed'
         /\ at \in {"lock", "link", "linked"} /\ fcall[t].op = "devices" => listed' = Sides
         /\ at = "link" => pos = 1
         /\ at = "linked" => once = "done" /\ fcall[t].op # "devices"
         /\ once' = "done" => once = "done"
  <2>1. CASE Formats!SetOutdev(t)
    <3>1. fcall' = [fcall EXCEPT ![t].at = "setIn", ![t].pos = fcall[t].pos,
                                 ![t].runsOnce = fcall[t].runsOnce]
      BY <1>1, <2>1 DEF Formats!SetOutdev, Formats!Goto, FormatTypes, FormatCalls
    <3> QED BY <1>1, <2>1, <3>1, FormatConstants
            DEF Formats!SetOutdev, Formats!At, FormatCall, FormatTypes, FormatCalls, FormatInv
  <2>2. CASE Formats!SetIndev(t)
    <3>1. fcall' = [fcall EXCEPT ![t].at = "lock", ![t].pos = fcall[t].pos,
                                 ![t].runsOnce = fcall[t].runsOnce]
      BY <1>1, <2>2 DEF Formats!SetIndev, Formats!Goto, FormatTypes, FormatCalls
    <3>2. fcall[t].pos \in 1 .. 2 * NbAll + 1 /\ fcall[t].runsOnce \in BOOLEAN
      BY <1>1 DEF FormatCalls
    <3>3. listed' = Sides /\ fcall[t].op = "devices" /\ once' = once
      <4>1. fcall[t].op = "devices" /\ "out" \in listed
        BY <1>1, <2>2 DEF Formats!SetIndev, Formats!At, FormatCall
      <4>2. listed' = listed \union {"in"} /\ once' = once
        BY <2>2 DEF Formats!SetIndev
      <4>3. listed \subseteq {"out", "in"}
        BY <1>1, FormatConstants DEF FormatTypes
      <4> QED BY <4>1, <4>2, <4>3, FormatConstants
    <3>4. listed \subseteq listed' /\ "out" \in listed'
      BY <1>1, <3>3, FormatConstants DEF FormatTypes
    <3> QED BY <3>1, <3>2, <3>3, <3>4
  <2>3. CASE Formats!Once(t)
    <3>1. fcall[t].op \notin {"devices", "iterate"} /\ UNCHANGED listed
      BY <1>1, <2>3 DEF Formats!Once, Formats!At, FormatCall
    <3>2. CASE once = "no"
      <4>1. fcall' = [fcall EXCEPT ![t].at = "lock", ![t].pos = fcall[t].pos,
                                   ![t].runsOnce = TRUE]
        BY <1>1, <2>3, <3>2 DEF Formats!Once, FormatTypes, FormatCalls
      <4> QED BY <1>1, <2>3, <3>1, <3>2, <4>1
              DEF Formats!Once, FormatTypes, FormatCalls, FormatInv
    <3>3. CASE once = "done"
      <4>1. fcall' = [fcall EXCEPT ![t].at = "linked", ![t].pos = fcall[t].pos,
                                   ![t].runsOnce = fcall[t].runsOnce]
        BY <1>1, <2>3, <3>3 DEF Formats!Once, Formats!Goto, FormatTypes, FormatCalls
      <4> QED BY <1>1, <2>3, <3>1, <3>3, <4>1
              DEF Formats!Once, FormatTypes, FormatCalls, FormatInv
    <3> QED BY <2>3, <3>2, <3>3 DEF Formats!Once
  <2>4. CASE Formats!Lock(t)
    <3>1. fcall' = [fcall EXCEPT ![t].at = "link", ![t].pos = 1,
                                 ![t].runsOnce = fcall[t].runsOnce]
      BY <1>1, <2>4 DEF Formats!Lock, FormatTypes, FormatCalls
    <3>2. 1 \in 1 .. 2 * NbAll + 1 /\ fcall[t].runsOnce \in BOOLEAN
      BY <1>1, FormatConstants DEF FormatCalls
    <3>3. /\ fcall[t].op = "devices" => listed = Sides
          /\ fcall[t].op # "iterate" /\ UNCHANGED <<listed, once>>
      BY <1>1, <2>4 DEF Formats!Lock, Formats!At, FormatCall
    <3>4. listed \subseteq Sides /\ ("in" \in listed => "out" \in listed)
      BY DEF FormatInv, FormatTypes
    <3> QED BY <3>1, <3>2, <3>3, <3>4
  <2> QED BY <2>1, <2>2, <2>3, <2>4
<1>6. PICK c \in FormatCalls :
         /\ fcall' = [fcall EXCEPT ![t] = c] /\ c.at = at /\ c.pos = pos
         /\ c.op = fcall[t].op /\ c.late = fcall[t].late
  <2> DEFINE c == [fcall[t] EXCEPT !.at = at, !.pos = pos, !.runsOnce = runsOnce]
  <2>1. /\ c \in FormatCalls /\ c.at = at /\ c.pos = pos
        /\ c.op = fcall[t].op /\ c.late = fcall[t].late
    BY <1>1 DEF FormatCalls
  <2>2. fcall' = [fcall EXCEPT ![t] = c]
    BY <1>5
  <2> QED BY <2>1, <2>2
<1>7. fcall'[t] = c
  BY <1>1, <1>6 DEF FormatTypes
<1>8. FormatTypes'
  <2>1. listed' \subseteq Sides
    BY <1>5
  <2>2. fcall' \in [Threads -> FormatCalls]
    BY <1>1, <1>6 DEF FormatTypes
  <2> QED BY <1>1, <2>1, <2>2 DEF FormatTypes
<1>9. Stored(1, c.op = "devices")
  BY FormatConstants DEF Stored, Place
<1>10. at = "linked" => Whole(c.op = "devices")
  <2>1. once = "done" => Whole(FALSE)
    BY DEF FormatInv
  <2> QED BY <1>5, <1>6, <2>1 DEF Whole, Stored
<1>11. FormatCall(t)'
  BY <1>1, <1>2, <1>3, <1>5, <1>6, <1>7, <1>9, <1>10 DEF FormatCall
<1> QED BY <1>1, <1>4, <1>5, <1>6, <1>8, <1>11, FormatMove

\* One more link is stored, or all are.
LEMMA FormatLink ==
  ASSUME FormatInv, NEW t \in Threads, Formats!Link(t)
  PROVE  FormatInv'
<1>1. /\ FormatTypes /\ FormatCall(t) /\ fcall[t] \in FormatCalls /\ fcall[t].at = "link"
      /\ UNCHANGED <<listed, once, registered, fgot>>
  BY DEF FormatInv, FormatTypes, Formats!Link, Formats!At
<1>0. PICK pos \in 1 .. 2 * NbAll : pos = fcall[t].pos
  BY <1>1, FormatConstants DEF Formats!Link, FormatCalls, NbAll
<1>2. PICK s \in Sides, k \in Table :
         /\ Place(s, k) = pos
         /\ fnext' = [fnext EXCEPT ![s] =
              [f \in Table |-> IF f = k - 1 /\ k <= Formats!LastToLink(s) THEN k ELSE @[f]]]
  <2>1. CASE pos \in Table
    <3>1. Place("out", pos) = pos /\ Formats!LinkSide(t) = "out" /\ "out" \in Sides
      BY <1>0, <2>1, FormatConstants DEF Place, Formats!LinkSide, Table
    <3>2. fnext' = [fnext EXCEPT !["out"] =
            [f \in Table |-> IF f = pos - 1 /\ pos <= Formats!LastToLink("out") THEN pos ELSE @[f]]]
      BY <1>0, <3>1 DEF Formats!Link, Table
    <3> QED BY <2>1, <3>1, <3>2
  <2>2. CASE pos \notin Table
    <3> DEFINE k == pos - NbAll
    <3>1. /\ Place("in", k) = pos /\ Formats!LinkSide(t) = "in" /\ k \in Table
          /\ "in" \in Sides /\ k = pos - NbCodecs - NbDevices
      BY <1>0, <2>2, FormatConstants DEF Place, Formats!LinkSide, Table, NbAll
    <3>2. fnext' = [fnext EXCEPT !["in"] =
            [f \in Table |-> IF f = k - 1 /\ k <= Formats!LastToLink("in") THEN k ELSE @[f]]]
      BY <1>0, <3>1 DEF Formats!Link, Table
    <3> HIDE DEF k
    <3> QED BY <3>1, <3>2
  <2> QED BY <2>1, <2>2
<1>3. \A r \in Sides, f \in Table :
         fnext'[r][f] = IF r = s /\ f = k - 1 /\ k <= Formats!LastToLink(s)
                        THEN k ELSE fnext[r][f]
  BY <1>1, <1>2 DEF FormatTypes
<1>4. \A r \in Sides, f \in Table : fnext'[r][f] = fnext[r][f] \/ fnext'[r][f] = f + 1
  BY <1>3, FormatConstants
<1>5. fnext' \in [Sides -> [Table -> Table \union {NULL}]]
  BY <1>1, <1>2 DEF FormatTypes
<1>6. PICK devices \in BOOLEAN : devices = (fcall[t].op = "devices")
  OBVIOUS
<1>7. devices \/ k <= NbCodecs => k <= Formats!LastToLink(s)
  <2>1. devices => listed = Sides
    BY <1>0, <1>1, <1>6 DEF FormatCall
  <2>2. Formats!LastToLink(s) = IF s \in listed THEN NbCodecs + NbDevices ELSE NbCodecs
    BY DEF Formats!LastToLink
  <2> QED BY <1>2, <2>1, <2>2, FormatConstants DEF NbAll
<1>8. Stored(pos + 1, devices)'
  <2>1. ASSUME NEW r \in Sides, NEW f \in Table, f + 1 \in Table,
               Place(r, f + 1) < pos + 1, devices \/ f + 1 <= NbCodecs
        PROVE  fnext'[r][f] = f + 1
    <3>1. CASE Place(r, f + 1) < pos
      <4>1. Stored(pos, devices)
        BY <1>0, <1>1, <1>6 DEF FormatCall
      <4>2. fnext[r][f] = f + 1
        BY <2>1, <3>1, <4>1 DEF Stored
      <4> QED BY <1>4, <4>2
    <3>2. CASE Place(r, f + 1) = pos
      <4>1. r = s /\ f + 1 = k
        BY <1>2, <2>1, <3>2, FormatConstants DEF Place
      <4> QED BY <1>3, <1>7, <2>1, <4>1, FormatConstants
    <3> QED BY <2>1, <3>1, <3>2, FormatConstants DEF Place
  <2> QED BY <2>1 DEF Stored
<1>9. PICK c \in FormatCalls :
         /\ fcall' = [fcall EXCEPT ![t] = c] /\ c.at = "link" /\ c.pos = pos + 1
         /\ c.op = fcall[t].op /\ c.late = fcall[t].late
  <2> DEFINE c == [fcall[t] EXCEPT !.pos = pos + 1]
  <2>1. /\ c \in FormatCalls /\ c.at = "link" /\ c.pos = pos + 1
        /\ c.op = fcall[t].op /\ c.late = fcall[t].late
    <3>1. pos + 1 \in 1 .. 2 * NbAll + 1
      BY FormatConstants
    <3>2. c \in FormatCalls /\ c.pos = pos + 1
      BY <1>1, <3>1 DEF FormatCalls
    <3>3. c.at = "link" /\ c.op = fcall[t].op /\ c.late = fcall[t].late
      BY <1>1 DEF FormatCalls
    <3> QED BY <3>2, <3>3
  <2>2. fcall' = [fcall EXCEPT ![t] = c]
    BY <1>0 DEF Formats!Link
  <2> QED BY <2>1, <2>2
<1>10. fcall'[t] = c
  BY <1>1, <1>9 DEF FormatTypes
<1>11. FormatTypes'
  BY <1>1, <1>4, <1>5, <1>9 DEF FormatTypes
<1>12. FormatCall(t)'
  BY <1>1, <1>6, <1>8, <1>9, <1>10 DEF FormatCall
<1>13. Formats!FormatWalksAreWhole'
  BY <1>1 DEF FormatInv, Formats!FormatWalksAreWhole
<1> QED BY <1>1, <1>4, <1>9, <1>11, <1>12, <1>13, FormatMove DEF FormatInv

\* The linking is through: all that its thread has seen listed is linked.
LEMMA FormatUnlock ==
  ASSUME FormatInv, NEW t \in Threads, Formats!Unlock(t)
  PROVE  FormatInv'
<1>1. /\ FormatTypes /\ FormatCall(t) /\ fcall[t] \in FormatCalls /\ fcall[t].at = "link"
      /\ UNCHANGED <<listed, fnext, registered, fgot>>
  BY DEF FormatInv, FormatTypes, Formats!Unlock, Formats!At
<1>0. fcall[t].pos = 2 * NbAll + 1
  <2>1. fcall[t].pos > 2 * (NbCodecs + NbDevices)
    BY DEF Formats!Unlock
  <2>2. PICK pos \in 1 .. 2 * NbAll + 1 : pos = fcall[t].pos
    BY <1>1 DEF FormatCalls
  <2> QED BY <2>1, <2>2, FormatConstants DEF NbAll
<1>2. Whole(fcall[t].op = "devices")
  BY <1>0, <1>1 DEF FormatCall, Whole
<1>3. Whole(FALSE)
  BY <1>2 DEF Whole, Stored
<1>4. \A devices : Whole(devices)' <=> Whole(devices)
  BY <1>1 DEF Whole, Stored
<1>5. PICK c \in FormatCalls :
         /\ fcall' = [fcall EXCEPT ![t] = c] /\ c.at = "linked"
         /\ c.op = fcall[t].op /\ c.late = fcall[t].late
  <2> DEFINE c == [fcall[t] EXCEPT !.at = "linked"]
  <2>1. /\ c \in FormatCalls /\ c.at = "linked"
        /\ c.op = fcall[t].op /\ c.late = fcall[t].late
    BY <1>1 DEF FormatCalls
  <2>2. fcall' = [fcall EXCEPT ![t] = c]
    BY DEF Formats!Unlock, Formats!Goto
  <2> QED BY <2>1, <2>2
<1>6. fcall'[t] = c
  BY <1>1, <1>5 DEF FormatTypes
<1>7. FormatTypes'
  BY <1>1, <1>5 DEF FormatTypes
<1>8. FormatCall(t)'
  BY <1>1, <1>2, <1>4, <1>5, <1>6 DEF FormatCall
<1>9. Formats!FormatWalksAreWhole'
  BY <1>1 DEF FormatInv, Formats!FormatWalksAreWhole
<1> QED BY <1>1, <1>3, <1>5, <1>7, <1>8, <1>9, FormatMove DEF FormatInv

\* What a call gives is the next format, or the end if the rest is not there yet.
LEMMA FormatReturned ==
  ASSUME FormatInv, NEW t \in Threads,
         \/ Formats!DevicesReturn(t) \/ Formats!NextReturns(t)
         \/ Formats!Look(t) \/ Formats!Read(t)
  PROVE  FormatInv'
<1>1. /\ FormatTypes /\ FormatCall(t) /\ fcall[t] \in FormatCalls
      /\ UNCHANGED <<listed, once, fnext>>
      /\ registered => listed = Sides /\ Whole(TRUE)
      /\ "in" \in listed => "out" \in listed
  BY DEF FormatInv, FormatTypes, Formats!DevicesReturn, Formats!NextReturns, Formats!Look,
         Formats!Read
<1>2. \A pos, devices : Stored(pos, devices)' <=> Stored(pos, devices)
  BY <1>1 DEF Stored
<1>3. \A devices : Whole(devices)' <=> Whole(devices)
  BY <1>2 DEF Whole
<1>4. ASSUME NEW format, Formats!Returns(t, format), Formats!FormatWalksAreWhole',
             registered' = registered \/ (registered' = TRUE /\ listed = Sides /\ Whole(TRUE))
      PROVE  FormatInv'
  <2>1. fcall' = [fcall EXCEPT ![t] = Formats!Idle]
    BY <1>4 DEF Formats!Returns
  <2>2. /\ Formats!Idle \in FormatCalls /\ Formats!Idle.at = "idle" /\ Formats!Idle.op = "none"
        /\ ~Formats!Idle.late
    BY FormatIdle
  <2>3. fcall'[t] = Formats!Idle
    BY <1>1, <2>1 DEF FormatTypes
  <2>4. FormatTypes'
    BY <1>1, <1>4, <2>1, <2>2 DEF FormatTypes
  <2>5. FormatCall(t)'
    BY <2>2, <2>3 DEF FormatCall
  <2>6. \A s \in Sides, f \in Table : fnext'[s][f] = fnext[s][f]
    BY <1>1
  <2>7. registered' => registered \/ (listed' = Sides /\ Whole(TRUE))
    BY <1>1, <1>4
  <2>8. registered => registered'
    BY <1>4
  <2> QED BY <1>1, <1>4, <2>1, <2>2, <2>4, <2>5, <2>6, <2>7, <2>8, FormatMove
<1>5. CASE Formats!DevicesReturn(t)
  <2>1. fcall[t].at = "linked" /\ fcall[t].op = "devices" /\ Formats!Returns(t, Formats!NULL)
        /\ registered'
    BY <1>5 DEF Formats!DevicesReturn, Formats!At
  <2>2. listed = Sides /\ Whole(TRUE)
    BY <1>1, <2>1 DEF FormatCall, Whole, Stored
  <2>3. Formats!FormatWalksAreWhole'
    BY <2>1 DEF Formats!FormatWalksAreWhole, Formats!Returns
  <2> QED BY <1>4, <1>5, <2>1, <2>2, <2>3 DEF Formats!DevicesReturn
<1>6. CASE Formats!NextReturns(t)
  <2>1. PICK a \in Table \union {NULL}, s \in Sides : a = fcall[t].arg /\ s = fcall[t].side
    BY <1>1 DEF FormatCalls
  <2>2. PICK format :
           /\ format = IF fcall[t].op = "register" THEN NULL
                       ELSE IF a # NULL THEN fnext[s][a] ELSE 1
           /\ Formats!Returns(t, format)
    BY <1>6, <2>1, FormatConstants DEF Formats!NextReturns
  <2>3. /\ fcall[t].at = "linked" /\ fcall[t].op \notin {"devices", "iterate"}
        /\ registered' = registered
    BY <1>1, <1>6 DEF Formats!NextReturns, Formats!At, FormatCall
  <2>4. Whole(FALSE) /\ (fcall[t].late => Whole(TRUE))
    BY <1>1, <2>3 DEF FormatCall, Whole, Stored
  <2>5. fgot' = [op |-> fcall[t].op, side |-> s, arg |-> a, late |-> fcall[t].late,
                 format |-> format]
    BY <2>1, <2>2 DEF Formats!Returns
  <2>6. ASSUME fcall[t].op = "next"
        PROVE  \/ format = IF a + 1 \in Table THEN a + 1 ELSE NULL
               \/ format = NULL /\ a >= NbCodecs /\ ~fcall[t].late
    <3>1. CASE a = NULL
      BY <2>2, <2>6, <3>1, FormatConstants
    <3>2. CASE a \in Table /\ a # NULL
      <4>1. format = fnext[s][a] /\ fnext[s][a] \in {NULL, a + 1} \intersect (Table \union {NULL})
        BY <1>1, <2>2, <2>6, <3>2 DEF FormatTypes
      <4>2. ASSUME a + 1 \in Table, a < NbCodecs \/ fcall[t].late
            PROVE  fnext[s][a] = a + 1
        <5>1. Place(s, a + 1) < 2 * NbAll + 1
          BY <4>2, FormatConstants DEF Place
        <5>2. a < NbCodecs => a + 1 <= NbCodecs
          BY <3>2, FormatConstants
        <5> QED BY <2>4, <3>2, <4>2, <5>1, <5>2 DEF Whole, Stored
      <4> QED BY <3>2, <4>1, <4>2, FormatConstants
    <3> QED BY <3>1, <3>2
  <2>7. Formats!FormatWalksAreWhole'
    BY <2>3, <2>5, <2>6, FormatConstants DEF Formats!FormatWalksAreWhole, Table
  <2> QED BY <1>4, <2>2, <2>3, <2>7
<1>7. CASE Formats!Look(t) /\ fcall'[t].at # "read"
  <2>1. PICK a \in Table \union {NULL}, s \in Sides : a = fcall[t].arg /\ s = fcall[t].side
    BY <1>1 DEF FormatCalls
  <2>2. ~(a >= NbCodecs /\ Formats!Other(s) \in listed)
    BY <1>1, <1>7, <2>1, FormatConstants DEF Formats!Look, Formats!Goto, FormatTypes, FormatCalls
  <2>3. PICK format :
           /\ format = IF a < NbCodecs THEN a + 1 ELSE NULL
           /\ Formats!Returns(t, format)
    BY <1>7, <2>1, <2>2, FormatConstants DEF Formats!Look
  <2>4. a >= NbCodecs => ~fcall[t].late
    BY <1>1, <2>2, FormatConstants DEF FormatCall, Formats!Other
  <2>5. fgot' = [op |-> fcall[t].op, side |-> s, arg |-> a, late |-> fcall[t].late,
                 format |-> format]
    BY <2>1, <2>3 DEF Formats!Returns
  <2>6. Formats!FormatWalksAreWhole'
    BY <2>3, <2>4, <2>5, FormatConstants DEF Formats!FormatWalksAreWhole, Table
  <2> QED BY <1>4, <1>7, <2>3, <2>6 DEF Formats!Look
<1>8. CASE Formats!Look(t) /\ fcall'[t].at = "read"
  <2>1. Formats!Other(fcall[t].side) \in listed /\ Formats!Goto(t, "read")
        /\ UNCHANGED <<registered, fgot>> /\ fcall[t].at = "look"
    BY <1>1, <1>8, FormatConstants
       DEF Formats!Look, Formats!At, Formats!Returns, Formats!Idle, FormatTypes
  <2>2. PICK c \in FormatCalls :
           /\ fcall' = [fcall EXCEPT ![t] = c] /\ c.at = "read"
           /\ c.op = fcall[t].op /\ c.late = fcall[t].late /\ c.side = fcall[t].side
    <3> DEFINE c == [fcall[t] EXCEPT !.at = "read"]
    <3>1. /\ c \in FormatCalls /\ c.at = "read"
          /\ c.op = fcall[t].op /\ c.late = fcall[t].late /\ c.side = fcall[t].side
      BY <1>1 DEF FormatCalls
    <3>2. fcall' = [fcall EXCEPT ![t] = c]
      BY <2>1 DEF Formats!Goto
    <3> QED BY <3>1, <3>2
  <2>3. fcall'[t] = c
    BY <1>1, <2>2 DEF FormatTypes
  <2>4. FormatTypes'
    BY <1>1, <2>1, <2>2 DEF FormatTypes
  <2>5. FormatCall(t)'
    BY <1>1, <2>1, <2>2, <2>3 DEF FormatCall, Formats!Other
  <2>6. Formats!FormatWalksAreWhole'
    BY <2>1 DEF FormatInv, Formats!FormatWalksAreWhole
  <2> QED BY <1>1, <2>1, <2>2, <2>4, <2>5, <2>6, FormatMove
<1>9. CASE Formats!Read(t)
  <2>1. PICK a \in Table \union {NULL}, s \in Sides : a = fcall[t].arg /\ s = fcall[t].side
    BY <1>1 DEF FormatCalls
  <2>2. PICK format :
           /\ format = IF s \notin listed THEN Formats!Fault
                       ELSE IF a + 1 \in Table THEN a + 1 ELSE NULL
           /\ Formats!Returns(t, format)
    BY <1>9, <2>1, FormatConstants DEF Formats!Read, Table
  <2>3. fcall[t].at = "read" /\ fcall[t].op = "iterate" /\ Formats!Other(s) \in listed
        /\ registered' = registered
    BY <1>1, <1>9, <2>1 DEF Formats!Read, Formats!At, FormatCall
  <2>4. s \notin listed => s = "in" /\ ~fcall[t].late
    BY <1>1, <2>3, FormatConstants DEF Formats!Other, FormatCall
  <2>5. fgot' = [op |-> fcall[t].op, side |-> s, arg |-> a, late |-> fcall[t].late,
                 format |-> format]
    BY <2>1, <2>2 DEF Formats!Returns
  <2>6. Formats!FormatWalksAreWhole'
    BY <2>2, <2>3, <2>4, <2>5, FormatConstants DEF Formats!FormatWalksAreWhole, Table
  <2> QED BY <1>4, <2>2, <2>3, <2>6
<1> QED BY <1>5, <1>6, <1>7, <1>8, <1>9

\* No step of any thread breaks the formats' invariant.
LEMMA FormatStep ==
  ASSUME FormatInv, [Formats!Next]_formatVars
  PROVE  FormatInv'
<1>1. ASSUME UNCHANGED formatVars  PROVE FormatInv'
  BY <1>1 DEF formatVars, FormatInv, FormatTypes, FormatCall, Stored, Whole,
              Formats!FormatWalksAreWhole
<1> QED BY <1>1, FormatCalled, FormatDevices, FormatLink, FormatUnlock, FormatReturned,
           FormatConstants DEF Formats!Next, Sides
-----------------------------------------------------------------------------
(* The processor's flags.                                                   *)

\* Once flags were forced, nobody starts to detect them; the threads that were
\* detecting at that time may still store what they detected.
CpuInv ==
    /\ forced = Unset \/ forced \in SUBSET Flags
    /\ forced # Unset => /\ flags # Unset
                         /\ detecting \subseteq overtaken
                         /\ overtaken = {} => flags = forced

\* Nothing is forced at first.
LEMMA CpuInit == Cpu!Init => CpuInv
  BY DEF Cpu!Init, CpuInv

\* Every store on purpose notes who is detecting; no load begins a detection
\* while the flags are set.
LEMMA CpuStep ==
  ASSUME CpuInv, [Cpu!Next]_cpuVars
  PROVE  CpuInv'
<1>1. /\ Detected \in SUBSET Flags /\ ImplyMmx \in SUBSET Flags /\ Mmx \in Flags
      /\ \A set \in SUBSET Flags : set # Unset
  BY FirstUseAssumption
<1>2. ASSUME NEW value \in (SUBSET Flags) \union {Unset}, Cpu!Stores(value)  PROVE CpuInv'
  BY <1>1, <1>2 DEF Cpu!Stores, CpuInv
<1>3. ASSUME NEW t \in Threads, NEW arg \in SUBSET Flags,
             Cpu!Force(t, arg) \/ Cpu!SetMask(t, arg)
      PROVE  CpuInv'
  <2>1. CASE Cpu!Force(t, arg)
    <3>1. PICK value \in SUBSET Flags : Cpu!Stores(value)
      BY <1>1, <2>1 DEF Cpu!Force
    <3> QED BY <1>2, <3>1
  <2>2. CASE Cpu!SetMask(t, arg)
    <3>1. Detected \intersect arg \in SUBSET Flags
      OBVIOUS
    <3> QED BY <1>2, <2>2, <3>1 DEF Cpu!SetMask
  <2> QED BY <1>3, <2>1, <2>2
<1>4. ASSUME NEW t \in Threads, Cpu!Unforce(t)  PROVE CpuInv'
  BY <1>2, <1>4 DEF Cpu!Unforce
<1>5. ASSUME NEW t \in Threads, Cpu!GetLoad(t)  PROVE CpuInv'
  BY <1>5 DEF Cpu!GetLoad, CpuInv
<1>6. ASSUME NEW t \in Threads, Cpu!GetStore(t)  PROVE CpuInv'
  BY <1>1, <1>6 DEF Cpu!GetStore, CpuInv
<1>7. ASSUME UNCHANGED cpuVars  PROVE CpuInv'
  BY <1>7 DEF cpuVars, CpuInv
<1> QED BY <1>3, <1>4, <1>5, <1>6, <1>7 DEF Cpu!Next
-----------------------------------------------------------------------------
\* Each part's invariant is inductive, whatever the other parts do.
THEOREM FirstUseInductive == FirstUseSpec => [](CodecInv /\ FormatInv /\ CpuInv)
<1>1. FirstUseInit => CodecInv /\ FormatInv /\ CpuInv
  BY CodecInit, FormatInit, CpuInit DEF FirstUseInit
<1>2. CodecInv /\ FormatInv /\ CpuInv /\ [FirstUseNext]_firstUseVars
        => CodecInv' /\ FormatInv' /\ CpuInv'
  <2> SUFFICES ASSUME CodecInv, FormatInv, CpuInv, [FirstUseNext]_firstUseVars
               PROVE  CodecInv' /\ FormatInv' /\ CpuInv'
    OBVIOUS
  <2>1. [Next]_vars /\ [Formats!Next]_formatVars /\ [Cpu!Next]_cpuVars
    BY DEF FirstUseNext, CodecsOnly, FormatsOnly, CpuOnly, firstUseVars
  <2> QED BY <2>1, CodecStep, FormatStep, CpuStep
<1> QED BY <1>1, <1>2, PTL DEF FirstUseSpec

\* WalksAreWhole for all constants: whichever threads come first, an iteration
\* gives codecs that are initialised, and a walk through linked lists skips
\* nothing (allcodecs.c:792-849, allformats.c:485-600).
THEOREM WalksGoThroughAll == FirstUseSpec => []WalksAreWhole
<1>1. CodecInv /\ FormatInv => WalksAreWhole
  BY DEF CodecInv, FormatInv, WalksAreWhole
<1> QED BY <1>1, FirstUseInductive, PTL

\* ForcedFlagsStay for all constants: a first detection does not undo
\* av_force_cpu_flags unless it was under way (cpu.c:54-105).
THEOREM ForcedFlagsAreKept == FirstUseSpec => []ForcedFlagsStay
<1>1. CpuInv => ForcedFlagsStay
  BY DEF CpuInv, ForcedFlagsStay, Cpu!ForcedFlagsStay
<1> QED BY <1>1, FirstUseInductive, PTL
=============================================================================
