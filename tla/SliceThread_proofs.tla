------------------------- MODULE SliceThread_proofs -------------------------
(***************************************************************************)
(* The invariants of SliceThread, for any bounds on workers, jobs and      *)
(* batches.                                                                *)
(*                                                                         *)
(* None of the properties is inductive alone.  Where the caller is decides *)
(* what its locals mean and where each worker may be (CallState and        *)
(* WorkerState).  That no thread of a batch is left when ctx->done is set  *)
(* is counted: first_job says how many threads have begun to run jobs, and *)
(* current_job how many have found none left, so that the threads still to *)
(* begin (Due) and those between (Inside) have a known number (Counts).    *)
(* The fetch that reaches the last value of current_job is then made by    *)
(* the only thread inside, and by none twice (Reports); a thread number is *)
(* a value of first_job fetched by one thread (Slots).                     *)
(***************************************************************************)
EXTENDS SliceThread, FiniteSetTheorems, TLAPS

MainLabels   == {"none", "spawn", "await_start", "ready", "wake", "main_func", "await_done",
                 "run", "call", "fetch", "stop", "join", "freed"}
WorkerLabels == {"none", "lock", "loop", "wait", "run", "call", "fetch", "last", "exited"}

\* A worker that waits to be told, one that was told, and one not in a batch.
Asleep(w) == pc[w] = "wait" /\ w_done[w]
Told(w)   == pc[w] = "wait" /\ ~w_done[w]
AtRest(w) == pc[w] = "loop" \/ Asleep(w)

\* The workers create has started when it returns.
Created == IF main_func THEN nb_threads ELSE nb_threads - 1

\* What the locals of the API call in progress are, by where the caller is.
CallState ==
    /\ pc[Main] \in MainLabels /\ \A w \in Workers : pc[w] \in WorkerLabels
    /\ finished => pc[Main] \in {"stop", "join", "freed"}
    /\ pc[Main] \in {"stop", "join"} => finished
    /\ pc[Main] \in {"spawn", "await_start", "stop", "join"} =>
          nb_workers = Created /\ i <= nb_workers
    /\ pc[Main] = "await_start" => i < nb_workers
    /\ pc[Main] \in {"spawn", "await_start", "ready"} \/ Busy => nb_threads >= 1
    /\ Busy => /\ 1 <= nb_active_threads /\ nb_active_threads <= nb_threads
               /\ nb_active_threads <= nb_jobs
               /\ nb_workers = IF execute_main THEN nb_active_threads
                                               ELSE nb_active_threads - 1
               /\ execute_main => main_func
               /\ i <= nb_workers /\ (pc[Main] # "wake" => i = nb_workers)
    /\ pc[Main] \in {"run", "call", "fetch"} => ~execute_main
    /\ pc[Main] = "main_func" => execute_main

\* Where a worker may be, by where the caller is.
WorkerState(w) ==
    /\ pc[Main] = "none" => pc[w] = "none"
    /\ pc[Main] = "spawn" => IF w < i THEN Asleep(w) ELSE pc[w] = "none"
    /\ pc[Main] = "await_start" =>
          /\ w < i => Asleep(w)
          /\ w = i => (pc[w] \in {"lock", "loop"} /\ ~w_done[w]) \/ Asleep(w)
          /\ w > i => pc[w] = "none"
    /\ pc[Main] = "ready" => IF w < Created THEN AtRest(w) ELSE pc[w] = "none"
    /\ Busy => IF w >= Created THEN pc[w] = "none"
               ELSE \/ AtRest(w)
                    \/ w < i /\ (Told(w) \/ pc[w] \in {"run", "call", "fetch", "last"})
    /\ pc[Main] = "stop" => IF w >= Created THEN pc[w] = "none"
                            ELSE IF w < i THEN Told(w) \/ pc[w] = "exited" ELSE AtRest(w)
    /\ pc[Main] = "join" => IF w >= Created THEN pc[w] = "none"
                            ELSE pc[w] = "exited" \/ (w >= i /\ Told(w))
    /\ pc[Main] = "freed" => pc[w] \in {"none", "exited"}

\* Threads of the batch that have not fetched their first job, and those that
\* have and not found that there is none left.
Due == {t \in Threads : \/ pc[t] = "run"
                        \/ Busy /\ t \in Workers /\ Told(t)
                        \/ pc[Main] = "wake" /\ i <= t /\ t < nb_workers
                        \/ pc[Main] = "wake" /\ t = Main /\ ~execute_main}
Inside == {t \in Threads : pc[t] \in {"call", "fetch"}}
\* Threads of the batch that have found no job left.
Left == IF current_job > nb_jobs THEN current_job - nb_jobs ELSE 0

\* Every thread of the batch is due, inside or left, and each has taken one
\* number from first_job and, to leave, one value at or past nb_jobs.
Counts ==
    Busy => /\ nb_active_threads <= current_job
            /\ Cardinality(Due) = nb_active_threads - first_job
            /\ Cardinality(Inside) = first_job - Left

\* ctx->done is, or is about to be, set only by the thread that made the last
\* fetch from current_job.
Reports ==
    /\ ctx_done \/ (\E w \in Workers : pc[w] = "last") =>
          Busy /\ current_job = nb_jobs + nb_active_threads
    /\ \A v, w \in Workers : pc[v] = "last" /\ pc[w] = "last" => v = w
    /\ ctx_done => \A w \in Workers : pc[w] # "last"

\* No two threads inside a batch have the same thread number.
Slots ==
    /\ \A t \in Inside : slot[t] < first_job
    /\ \A t, u \in Inside : slot[t] = slot[u] => t = u

Control == /\ TypeOK /\ CallState /\ NoMissedWakeup
           /\ \A w \in Workers : WorkerState(w)

IInv == Control /\ Counts /\ Reports /\ Slots

-----------------------------------------------------------------------------
\* The caller is not a worker.
LEMMA ThreadSets ==
  /\ Main \notin Workers /\ Main \in Threads
  /\ Threads = Workers \union {Main}
  /\ Workers = 0 .. (MaxWorkers - 1) /\ MaxWorkers \in Nat \ {0}
  BY SliceThreadAssumption DEF Main, Workers, Threads

\* The assumption on the constants, as the proofs use it.
LEMMA Bounds ==
  MaxWorkers \in Nat \ {0} /\ MaxBatches \in Nat /\ JobCounts \subseteq Nat \ {0}
  BY SliceThreadAssumption

\* The numeric variables are natural numbers.
LEMMA Types ==
  ASSUME TypeOK
  PROVE  /\ i \in Nat /\ nb_workers \in Nat /\ nb_threads \in Nat
         /\ nb_active_threads \in Nat /\ nb_jobs \in Nat
         /\ first_job \in Nat /\ current_job \in Nat
         /\ nb_workers <= MaxWorkers
  BY Bounds DEF TypeOK, CounterTypes, CallTypes

\* Goto moves one thread.
LEMMA GotoMoves ==
  ASSUME TypeOK, NEW t \in Threads, NEW l, Goto(t, l)
  PROVE  pc'[t] = l /\ \A u \in Threads \ {t} : pc'[u] = pc[u]
  BY DEF TypeOK, ThreadTypes, Goto

\* Outside a batch nobody is inside run_jobs.
LEMMA QuietState ==
  TypeOK /\ CallState /\ (\A w \in Workers : WorkerState(w)) /\ ~Busy /\ ~ctx_done
    => Counts /\ Reports /\ Slots
<1> SUFFICES ASSUME TypeOK, CallState, \A w \in Workers : WorkerState(w),
                    ~Busy, ~ctx_done
             PROVE  Counts /\ Reports /\ Slots
  OBVIOUS
<1>1. ASSUME NEW w \in Workers  PROVE pc[w] \notin {"call", "fetch", "last"}
  <2>1. WorkerState(w)
    OBVIOUS
  <2>2. pc[Main] \in {"none", "spawn", "await_start", "ready", "stop", "join", "freed"}
    BY DEF CallState, MainLabels, Busy
  <2> QED BY <2>1, <2>2, ThreadSets, Types DEF WorkerState, Asleep, Told, AtRest
<1>2. Inside = {}
  BY <1>1, ThreadSets DEF Inside, Busy
<1> QED BY <1>1, <1>2 DEF Counts, Reports, Slots
-----------------------------------------------------------------------------
(* Outside a batch: create, free, and the workers they start and stop.     *)

\* The invariant holds at first.
LEMMA InitIInv == Init => IInv
<1> SUFFICES ASSUME Init PROVE IInv
  OBVIOUS
<1> USE Bounds, ThreadSets DEF Init
<1>1. CounterTypes
  BY DEF CounterTypes
<1>2. ThreadTypes
  <2>1. slot \in [Threads -> 0 .. (MaxWorkers - 1)] /\ job \in [Threads -> Nat]
    OBVIOUS
  <2> QED BY <2>1 DEF ThreadTypes
<1>3. CallTypes
  <2>1. nb_threads \in 0 .. MaxWorkers /\ i \in 0 .. MaxWorkers
        /\ nb_workers \in 0 .. MaxWorkers /\ batches \in 0 .. MaxBatches
    OBVIOUS
  <2> QED BY <2>1 DEF CallTypes
<1>4. TypeOK
  BY <1>1, <1>2, <1>3 DEF TypeOK
<1>5. CallState /\ NoMissedWakeup /\ ~Busy /\ ~ctx_done
  BY DEF CallState, MainLabels, WorkerLabels, NoMissedWakeup, Busy
<1>6. \A w \in Workers : WorkerState(w)
  BY DEF WorkerState, Busy
<1> QED BY <1>4, <1>5, <1>6, QuietState DEF IInv, Control

\* Statements that only move the calling thread.
LEMMA MainMoves ==
  ASSUME TypeOK, CallTypes', NEW l \in MainLabels \ {"call"}, Goto(Main, l),
         UNCHANGED <<counterVars, wakeVars, localVars>>
  PROVE  TypeOK'
<1> USE DEF counterVars, wakeVars, localVars, TypeOK
<1>1. CounterTypes'
  BY DEF CounterTypes
<1>2. ThreadTypes'
  BY DEF ThreadTypes, Goto, MainLabels
<1>3. ASSUME NEW t \in Threads, pc'[t] = "call"  PROVE job'[t] < nb_jobs'
  BY <1>3, GotoMoves, ThreadSets
<1> QED BY <1>1, <1>2, <1>3

\* create enters its loop: no worker exists yet.
LEMMA CreateKeeps ==
  ASSUME Control, NEW r \in Requests, NEW c \in CpuCounts, NEW m \in BOOLEAN,
         Create(r, c, m)
  PROVE  Control' /\ ~Busy'
<1>1. /\ r \in Nat /\ c \in Nat \ {0} /\ ThreadsFor(r, c) <= MaxWorkers
      /\ ThreadsFor(r, c) \in Nat \ {0}
  BY SliceThreadAssumption DEF ThreadsFor
<1>2. pc'[Main] = "spawn" /\ \A w \in Workers : pc'[w] = pc[w] /\ pc[w] = "none"
  BY GotoMoves, ThreadSets DEF Control, Create, WorkerState
<1>3. /\ nb_threads' = ThreadsFor(r, c) /\ main_func' = m /\ i' = 0
      /\ nb_workers' = IF m THEN nb_threads' ELSE nb_threads' - 1
      /\ UNCHANGED <<finished, counterVars, wakeVars, localVars, execute_main,
                     batches>>
  BY DEF Create
<1>4. TypeOK'
  <2>1. CallTypes'
    BY <1>1, <1>3, Bounds DEF Control, TypeOK, CallTypes
  <2> QED BY <2>1, MainMoves DEF Control, Create, MainLabels
<1>5. CallState'
  <2>1. nb_threads' >= 1 /\ nb_workers' = Created' /\ i' <= nb_workers'
    BY <1>1, <1>3 DEF Created
  <2>2. ~finished'
    BY <1>3 DEF Control, CallState, Create
  <2> QED BY <1>2, <2>1, <2>2 DEF CallState, MainLabels, WorkerLabels, Busy
<1>6. \A w \in Workers : WorkerState(w)'
  BY <1>2, <1>3, ThreadSets DEF WorkerState, Busy
<1>7. NoMissedWakeup'
  BY <1>2, <1>3, ThreadSets DEF Control, Create, NoMissedWakeup, wakeVars
<1> QED BY <1>2, <1>4, <1>5, <1>6, <1>7 DEF Control, Busy

\* create fails before it starts a worker.
LEMMA CreateNoMemKeeps ==
  ASSUME Control, CreateNoMem
  PROVE  Control' /\ ~Busy'
<1>1. pc'[Main] = "freed" /\ \A w \in Workers : pc'[w] = pc[w] /\ pc[w] = "none"
  BY GotoMoves, ThreadSets DEF Control, CreateNoMem, WorkerState
<1>2. UNCHANGED <<ctxVars, counterVars, wakeVars, localVars, callVars>>
  BY DEF CreateNoMem
<1> USE DEF ctxVars, counterVars, wakeVars, localVars, callVars
<1>3. TypeOK'
  <2>1. CallTypes'
    BY <1>2 DEF Control, TypeOK, CallTypes
  <2> QED BY <2>1, MainMoves DEF Control, CreateNoMem, MainLabels
<1>4. CallState'
  BY <1>1 DEF CallState, MainLabels, WorkerLabels, Busy
<1>5. \A w \in Workers : WorkerState(w)'
  BY <1>1 DEF WorkerState, Busy
<1>6. NoMissedWakeup'
  BY <1>1, <1>2, ThreadSets DEF Control, CreateNoMem, NoMissedWakeup
<1> QED BY <1>1, <1>3, <1>4, <1>5, <1>6 DEF Control, Busy

\* create starts worker i and will wait for it.
LEMMA SpawnWorkerKeeps ==
  ASSUME Control, SpawnWorker
  PROVE  Control' /\ ~Busy'
<1>1. i \in Workers /\ pc[Main] = "spawn" /\ i < nb_workers
  BY ThreadSets, Types DEF SpawnWorker, Control
<1>2. /\ pc'[Main] = "await_start" /\ pc'[i] = "lock" /\ ~w_done'[i]
      /\ \A w \in Workers : w # i => pc'[w] = pc[w] /\ w_done'[w] = w_done[w]
  BY <1>1, ThreadSets DEF SpawnWorker, Control, TypeOK, ThreadTypes
<1>3. UNCHANGED <<ctxVars, counterVars, ctx_done, localVars, callVars>>
  BY DEF SpawnWorker
<1> USE DEF ctxVars, counterVars, localVars, callVars
<1>4. TypeOK'
  <2>1. ThreadTypes'
    BY <1>1, <1>3, ThreadSets DEF SpawnWorker, Control, TypeOK, ThreadTypes
  <2>2. CounterTypes' /\ CallTypes'
    BY <1>3 DEF Control, TypeOK, CounterTypes, CallTypes
  <2> QED BY <1>1, <1>2, <1>3, <2>1, <2>2, ThreadSets DEF Control, TypeOK
<1>5. CallState'
  <2>1. nb_threads >= 1 /\ ~finished /\ nb_workers = Created
    BY <1>1 DEF Control, CallState
  <2>2. Created' = Created
    BY <1>3 DEF Created
  <2>3. \A w \in Workers : pc'[w] \in WorkerLabels
    BY <1>2 DEF Control, CallState, WorkerLabels
  <2> QED BY <1>1, <1>2, <1>3, <2>1, <2>2, <2>3, Types
          DEF Control, CallState, MainLabels, Busy
<1>6. ASSUME NEW w \in Workers  PROVE WorkerState(w)'
  <2>1. WorkerState(w)
    BY DEF Control
  <2> QED BY <1>1, <1>2, <1>3, <2>1, ThreadSets, Types
          DEF Control, WorkerState, Asleep, Told, AtRest, Busy
<1>7. NoMissedWakeup'
  <2>1. WorkerState(i) /\ NoMissedWakeup /\ sleeping' = sleeping \union {Main}
    BY <1>1 DEF Control, SpawnWorker
  <2>2. i \notin sleeping
    BY <1>1, <2>1, Types DEF NoMissedWakeup, WorkerState, Control
  <2> QED BY <1>1, <1>2, <1>3, <2>1, <2>2, ThreadSets DEF NoMissedWakeup
<1> QED BY <1>2, <1>4, <1>5, <1>6, <1>7 DEF Control, Busy

\* create frees the i workers it has started.
LEMMA SpawnFailsKeeps ==
  ASSUME Control, SpawnFails
  PROVE  Control' /\ ~Busy'
<1>1. pc[Main] = "spawn" /\ i < nb_workers
  BY DEF SpawnFails
<1>2. pc'[Main] = "stop" /\ \A w \in Workers : pc'[w] = pc[w]
  BY GotoMoves, ThreadSets DEF SpawnFails, Control
<1>3. /\ finished' /\ i' = 0 /\ main_func' = main_func
      /\ nb_threads' = IF main_func THEN i ELSE i + 1
      /\ nb_workers' = i
      /\ UNCHANGED <<counterVars, wakeVars, localVars, execute_main, batches>>
  BY Types DEF SpawnFails, Control
<1>4. Created' = i
  BY <1>3, Types DEF Created, Control
<1>5. TypeOK'
  <2>1. nb_workers = Created
    BY <1>1 DEF Control, CallState
  <2>2. CallTypes'
    BY <1>1, <1>3, <2>1, Bounds DEF Control, TypeOK, CallTypes, Created, SpawnFails
  <2> QED BY <2>2, MainMoves DEF Control, SpawnFails, MainLabels
<1>6. CallState'
  <2>1. \A w \in Workers : pc'[w] \in WorkerLabels
    BY <1>2 DEF Control, CallState
  <2> QED BY <1>2, <1>3, <1>4, <2>1, Types
          DEF Control, CallState, MainLabels, Busy
<1>7. ASSUME NEW w \in Workers  PROVE WorkerState(w)'
  <2>1. WorkerState(w)
    BY DEF Control
  <2> QED BY <1>1, <1>2, <1>3, <1>4, <2>1, ThreadSets, Types
          DEF Control, WorkerState, Asleep, Told, AtRest, Busy, wakeVars
<1>8. NoMissedWakeup'
  BY <1>1, <1>2, <1>3, ThreadSets DEF NoMissedWakeup, Control, wakeVars
<1> QED BY <1>2, <1>5, <1>6, <1>7, <1>8 DEF Control, Busy

\* The worker create waits for has started, or has not.
LEMMA AwaitStartKeeps ==
  ASSUME Control, AwaitStart
  PROVE  Control' /\ ~Busy'
<1>1. pc[Main] = "await_start" /\ i \in Workers /\ i < nb_workers
  BY ThreadSets, Types DEF AwaitStart, Control, CallState
<1>2. UNCHANGED <<ctxVars, counterVars, ctx_done, w_done, localVars,
                  nb_workers, execute_main, batches>>
  BY DEF AwaitStart
<1>3. Created' = Created /\ nb_threads >= 1 /\ ~finished /\ nb_workers = Created
  BY <1>1, <1>2 DEF Created, ctxVars, Control, CallState
<1>4. WorkerState(i)
  BY <1>1 DEF Control
<1>5. CASE w_done[i]
  <2>1. /\ pc'[Main] = "spawn" /\ \A w \in Workers : pc'[w] = pc[w]
        /\ i' = i + 1 /\ sleeping' = sleeping
    BY <1>5, GotoMoves, ThreadSets DEF AwaitStart, Control
  <2>2. Asleep(i)
    BY <1>1, <1>4, <1>5, Types DEF AwaitStart, MutexFree, WorkerState, Asleep, Control
  <2>3. TypeOK'
    <3>1. CallTypes'
      BY <1>1, <1>2, <2>1, ThreadSets DEF Control, TypeOK, CallTypes, ctxVars
    <3> QED BY <1>2, <1>5, <2>1, <3>1, MainMoves
            DEF Control, AwaitStart, MainLabels, wakeVars
  <2>4. CallState'
    <3>1. \A w \in Workers : pc'[w] \in WorkerLabels
      BY <2>1 DEF Control, CallState
    <3> QED BY <1>1, <1>2, <1>3, <2>1, <3>1, Types
            DEF Control, CallState, MainLabels, Busy, ctxVars
  <2>5. ASSUME NEW w \in Workers  PROVE WorkerState(w)'
    <3>1. WorkerState(w)
      BY DEF Control
    <3> QED BY <1>1, <1>2, <2>1, <2>2, <3>1, ThreadSets, Types
            DEF Control, WorkerState, Asleep, Told, AtRest, Busy
  <2>6. NoMissedWakeup'
    BY <1>2, <2>1, ThreadSets DEF NoMissedWakeup, Control, AwaitStart
  <2> QED BY <2>1, <2>3, <2>4, <2>5, <2>6 DEF Control, Busy
<1>6. CASE ~w_done[i]
  <2>1. pc' = pc /\ i' = i /\ sleeping' = sleeping \union {Main}
    BY <1>6 DEF AwaitStart
  <2>2. pc[i] = "lock"
    BY <1>1, <1>4, <1>6, Types
    DEF AwaitStart, MutexFree, WorkerState, Asleep, Control
  <2>3. TypeOK'
    <3>1. ThreadTypes'
      BY <1>2, <2>1, ThreadSets DEF Control, TypeOK, ThreadTypes, localVars
    <3>2. CallTypes' /\ CounterTypes'
      BY <1>2, <2>1 DEF Control, TypeOK, CallTypes, CounterTypes, ctxVars, counterVars
    <3> QED BY <1>2, <2>1, <3>1, <3>2 DEF Control, TypeOK, localVars, counterVars
  <2>4. CallState'
    BY <1>1, <1>2, <1>3, <2>1, Types
    DEF Control, CallState, MainLabels, Busy, ctxVars
  <2>5. ASSUME NEW w \in Workers  PROVE WorkerState(w)'
    <3>1. WorkerState(w)
      BY DEF Control
    <3> QED BY <1>1, <1>2, <1>3, <2>1, <3>1
            DEF WorkerState, Asleep, Told, AtRest, Busy
  <2>6. NoMissedWakeup'
    BY <1>1, <1>2, <2>1, <2>2, ThreadSets DEF NoMissedWakeup, Control
  <2> QED BY <1>1, <2>1, <2>3, <2>4, <2>5, <2>6 DEF Control, Busy
<1> QED BY <1>5, <1>6

\* create returns: its workers rest.
LEMMA CreateReturnsKeeps ==
  ASSUME Control, CreateReturns
  PROVE  Control' /\ ~Busy'
<1>1. pc[Main] = "spawn" /\ i = nb_workers
  BY DEF CreateReturns
<1>2. pc'[Main] = "ready" /\ \A w \in Workers : pc'[w] = pc[w]
  BY GotoMoves, ThreadSets DEF CreateReturns, Control
<1>3. UNCHANGED <<ctxVars, counterVars, wakeVars, localVars, callVars>>
  BY DEF CreateReturns
<1>4. Created' = Created /\ nb_threads >= 1 /\ ~finished /\ nb_workers = Created
  BY <1>1, <1>3 DEF Created, ctxVars, Control, CallState
<1>5. TypeOK'
  <2>1. CallTypes'
    BY <1>3 DEF Control, TypeOK, CallTypes, callVars, ctxVars
  <2> QED BY <1>3, <2>1, MainMoves DEF Control, CreateReturns, MainLabels
<1>6. CallState'
  <2>1. \A w \in Workers : pc'[w] \in WorkerLabels
    BY <1>2 DEF Control, CallState
  <2> QED BY <1>2, <1>3, <1>4, <2>1, Types
          DEF Control, CallState, MainLabels, Busy, ctxVars
<1>7. ASSUME NEW w \in Workers  PROVE WorkerState(w)'
  <2>1. WorkerState(w)
    BY DEF Control
  <2> QED BY <1>1, <1>2, <1>3, <1>4, <2>1, ThreadSets, Types
          DEF Control, WorkerState, Asleep, Told, AtRest, Busy, wakeVars
<1>8. NoMissedWakeup'
  BY <1>1, <1>2, <1>3, ThreadSets DEF NoMissedWakeup, Control, wakeVars
<1> QED BY <1>2, <1>5, <1>6, <1>7, <1>8 DEF Control, Busy

\* A worker starts only while create waits for it.
LEMMA WorkerStartsKeeps ==
  ASSUME Control, NEW w \in Workers, WorkerStarts(w)
  PROVE  Control' /\ ~Busy'
<1>1. pc[Main] = "await_start" /\ i = w /\ ~w_done[w]
  <2>1. WorkerState(w) /\ pc[w] = "lock"
    BY DEF Control, WorkerStarts
  <2>2. pc[Main] \in MainLabels
    BY DEF Control, CallState
  <2> QED BY <2>1, <2>2, ThreadSets, Types
          DEF WorkerState, MainLabels, Busy, Asleep, Told, AtRest, Control
<1>2. /\ pc'[w] = "loop" /\ pc'[Main] = pc[Main]
      /\ \A v \in Workers : v # w => pc'[v] = pc[v]
  BY GotoMoves, ThreadSets DEF WorkerStarts, Control
<1>3. UNCHANGED <<ctxVars, counterVars, ctx_done, w_done, localVars, callVars>>
  BY DEF WorkerStarts
<1> USE DEF ctxVars, counterVars, localVars, callVars
<1>4. w \notin sleeping
  BY DEF Control, NoMissedWakeup, WorkerStarts
<1>5. sleeping' = sleeping \ {Main}
  <2>1. WaitersOf(w) = sleeping \intersect {Main}
    BY <1>1, <1>4, ThreadSets DEF WaitersOf, Control, TypeOK, ThreadTypes
  <2> QED BY <2>1 DEF WorkerStarts, Signal
<1>6. TypeOK'
  <2>1. ThreadTypes'
    BY <1>3, <1>5 DEF Control, TypeOK, ThreadTypes, WorkerStarts, Goto
  <2>2. CallTypes' /\ CounterTypes'
    BY <1>3 DEF Control, TypeOK, CallTypes, CounterTypes
  <2> QED BY <1>2, <1>3, <2>1, <2>2, ThreadSets DEF Control, TypeOK
<1>7. CallState'
  <2>1. \A v \in Workers : pc'[v] \in WorkerLabels
    BY <1>2 DEF Control, CallState, WorkerLabels
  <2>2. nb_workers' = Created' /\ i' < nb_workers' /\ nb_threads' >= 1 /\ ~finished'
    BY <1>1, <1>3 DEF Control, CallState, Created
  <2> QED BY <1>1, <1>2, <1>3, <2>1, <2>2, Types
          DEF Control, CallState, MainLabels, Busy
<1>8. ASSUME NEW v \in Workers  PROVE WorkerState(v)'
  <2>1. WorkerState(v)
    BY DEF Control
  <2> QED BY <1>1, <1>2, <1>3, <2>1 DEF WorkerState, Asleep, Busy
<1>9. NoMissedWakeup'
  BY <1>2, <1>3, <1>4, <1>5, ThreadSets DEF NoMissedWakeup, Control
<1> QED BY <1>1, <1>2, <1>6, <1>7, <1>8, <1>9 DEF Control, Busy

\* free begins: no worker is inside a batch.
LEMMA FreeKeeps ==
  ASSUME Control, Free
  PROVE  Control' /\ ~Busy'
<1>1. pc[Main] = "ready" /\ nb_threads >= 1
  BY DEF Free, Control, CallState
<1>2. pc'[Main] = "stop" /\ \A w \in Workers : pc'[w] = pc[w]
  BY GotoMoves, ThreadSets DEF Free, Control
<1>3. /\ UNCHANGED <<main_func, nb_threads, counterVars, wakeVars, localVars,
                     execute_main, batches>>
      /\ finished' /\ i' = 0 /\ nb_workers' = Created
  BY DEF Free, Created
<1>4. Created' = Created /\ 0 <= Created /\ Created <= MaxWorkers /\ Created \in Int
  BY <1>1, <1>3, Bounds DEF Created, Control, TypeOK, CallTypes
<1>5. TypeOK'
  <2>1. CallTypes'
    BY <1>3, <1>4, Bounds DEF Control, TypeOK, CallTypes
  <2> QED BY <1>3, <2>1, MainMoves DEF Control, Free, MainLabels
<1>6. CallState'
  <2>1. \A w \in Workers : pc'[w] \in WorkerLabels
    BY <1>2 DEF Control, CallState
  <2> QED BY <1>2, <1>3, <1>4, <2>1 DEF CallState, MainLabels, Busy
<1>7. ASSUME NEW w \in Workers  PROVE WorkerState(w)'
  <2>1. WorkerState(w)
    BY DEF Control
  <2> QED BY <1>1, <1>2, <1>3, <1>4, <2>1, ThreadSets
          DEF WorkerState, Asleep, Told, AtRest, Busy, wakeVars
<1>8. NoMissedWakeup'
  BY <1>1, <1>2, <1>3, ThreadSets DEF NoMissedWakeup, Control, wakeVars
<1> QED BY <1>2, <1>5, <1>6, <1>7, <1>8 DEF Control, Busy

\* lock, w->done = 0, signal, unlock, told to a worker at rest.
LEMMA TellingMoves ==
  ASSUME Control, TellWorker(i), i \in Workers, AtRest(i),
         pc[Main] \in {"wake", "stop"}, pc' = pc
  PROVE  /\ Asleep(i) /\ ~w_done'[i]
         /\ \A v \in Workers : v # i => w_done'[v] = w_done[v]
         /\ w_done' \in [Workers -> BOOLEAN]
         /\ sleeping' = sleeping \ {i}
<1>1. Asleep(i)
  BY DEF TellWorker, MutexFree, AtRest, Asleep
<1>2. w_done' = [w_done EXCEPT ![i] = FALSE]
  BY DEF TellWorker
<1>3. sleeping' = sleeping \ {i}
  <2>1. WaitersOf(i) = sleeping \intersect {i}
    BY ThreadSets DEF WaitersOf, Control, TypeOK, ThreadTypes
  <2> QED BY <2>1 DEF TellWorker, Signal
<1>4. w_done \in [Workers -> BOOLEAN]
  BY DEF Control, TypeOK, ThreadTypes
<1> QED BY <1>1, <1>2, <1>3, <1>4

\* free tells a resting worker to return.
LEMMA StopWorkerKeeps ==
  ASSUME Control, StopWorker
  PROVE  Control' /\ ~Busy'
<1>1. pc[Main] = "stop" /\ i < nb_workers /\ i \in Workers /\ nb_workers = Created
      /\ finished
  BY ThreadSets, Types DEF StopWorker, Control, CallState
<1>2. UNCHANGED <<ctxVars, counterVars, ctx_done, localVars, nb_workers,
                   execute_main, batches, pc>> /\ i' = i + 1
  BY DEF StopWorker
<1> USE DEF ctxVars, counterVars, localVars, callVars
<1>3. /\ Asleep(i) /\ ~w_done'[i]
      /\ \A v \in Workers : v # i => w_done'[v] = w_done[v]
      /\ w_done' \in [Workers -> BOOLEAN]
      /\ sleeping' = sleeping \ {i}
  <2>1. WorkerState(i)
    BY <1>1 DEF Control
  <2>2. AtRest(i)
    BY <1>1, <2>1, Types DEF WorkerState, Control, Created
  <2> QED BY <1>1, <1>2, <2>2, TellingMoves DEF StopWorker
<1>4. TypeOK'
  <2>1. ThreadTypes'
    BY <1>2, <1>3 DEF Control, TypeOK, ThreadTypes
  <2>2. CallTypes' /\ CounterTypes'
    BY <1>1, <1>2, ThreadSets DEF Control, TypeOK, CallTypes, CounterTypes
  <2> QED BY <1>2, <2>1, <2>2 DEF Control, TypeOK
<1>5. CallState'
  BY <1>1, <1>2, Types DEF Control, CallState, MainLabels, Busy, Created
<1>6. ASSUME NEW v \in Workers  PROVE WorkerState(v)'
  <2>1. WorkerState(v)
    BY DEF Control
  <2>2. Created' = Created
    BY <1>2 DEF Created
  <2> QED BY <1>1, <1>2, <1>3, <2>1, <2>2, ThreadSets, Types
          DEF WorkerState, Asleep, Told, AtRest, Busy, Control
<1>7. NoMissedWakeup'
  BY <1>1, <1>2, <1>3, ThreadSets DEF NoMissedWakeup, Control
<1> QED BY <1>1, <1>2, <1>4, <1>5, <1>6, <1>7 DEF Control, Busy

\* Every worker has been told to return.
LEMMA StartJoiningKeeps ==
  ASSUME Control, StartJoining
  PROVE  Control' /\ ~Busy'
<1>1. pc[Main] = "stop" /\ i = nb_workers /\ nb_workers = Created /\ finished
  BY DEF StartJoining, Control, CallState
<1>2. pc'[Main] = "join" /\ \A w \in Workers : pc'[w] = pc[w]
  BY GotoMoves, ThreadSets DEF StartJoining, Control
<1>3. UNCHANGED <<ctxVars, counterVars, wakeVars, localVars, nb_workers,
                   execute_main, batches>> /\ i' = 0
  BY DEF StartJoining
<1>4. Created' = Created
  BY <1>3 DEF Created, ctxVars
<1>5. TypeOK'
  <2>1. CallTypes'
    BY <1>3, Bounds DEF Control, TypeOK, CallTypes, ctxVars
  <2> QED BY <1>3, <2>1, MainMoves DEF Control, StartJoining, MainLabels
<1>6. CallState'
  <2>1. \A w \in Workers : pc'[w] \in WorkerLabels
    BY <1>2 DEF Control, CallState
  <2> QED BY <1>1, <1>2, <1>3, <1>4, <2>1, Types
          DEF CallState, MainLabels, Busy, Control, ctxVars
<1>7. ASSUME NEW w \in Workers  PROVE WorkerState(w)'
  <2>1. WorkerState(w)
    BY DEF Control
  <2> QED BY <1>1, <1>2, <1>3, <1>4, <2>1, ThreadSets, Types
          DEF WorkerState, Asleep, Told, AtRest, Busy, wakeVars, Control
<1>8. NoMissedWakeup'
  BY <1>1, <1>2, <1>3, ThreadSets DEF NoMissedWakeup, Control, wakeVars
<1> QED BY <1>2, <1>5, <1>6, <1>7, <1>8 DEF Control, Busy

\* free joins a worker that has returned.
LEMMA JoinWorkerKeeps ==
  ASSUME Control, JoinWorker
  PROVE  Control' /\ ~Busy'
<1>1. pc[Main] = "join" /\ i < nb_workers /\ i \in Workers /\ nb_workers = Created
      /\ finished /\ pc[i] = "exited"
  BY ThreadSets, Types DEF JoinWorker, Control, CallState
<1>2. UNCHANGED <<ctxVars, counterVars, wakeVars, localVars, nb_workers,
                   execute_main, batches, pc>> /\ i' = i + 1
  BY DEF JoinWorker
<1> USE DEF ctxVars, counterVars, wakeVars, localVars
<1>3. TypeOK'
  <2>1. ThreadTypes' /\ CounterTypes'
    BY <1>2 DEF Control, TypeOK, ThreadTypes, CounterTypes
  <2>2. CallTypes'
    BY <1>1, <1>2, ThreadSets DEF Control, TypeOK, CallTypes
  <2> QED BY <1>2, <2>1, <2>2 DEF Control, TypeOK
<1>4. CallState'
  BY <1>1, <1>2, Types DEF Control, CallState, MainLabels, Busy, Created
<1>5. ASSUME NEW w \in Workers  PROVE WorkerState(w)'
  <2>1. WorkerState(w)
    BY DEF Control
  <2>2. Created' = Created
    BY <1>2 DEF Created
  <2> QED BY <1>1, <1>2, <2>1, <2>2, ThreadSets, Types
          DEF WorkerState, Told, Busy, Control
<1>6. NoMissedWakeup'
  BY <1>1, <1>2, ThreadSets DEF NoMissedWakeup, Control
<1> QED BY <1>1, <1>2, <1>3, <1>4, <1>5, <1>6 DEF Control, Busy

\* Every worker has been joined.
LEMMA FreeReturnsKeeps ==
  ASSUME Control, FreeReturns
  PROVE  Control' /\ ~Busy'
<1>1. pc[Main] = "join" /\ i = nb_workers /\ nb_workers = Created
  BY DEF FreeReturns, Control, CallState
<1>2. pc'[Main] = "freed" /\ \A w \in Workers : pc'[w] = pc[w]
  BY GotoMoves, ThreadSets DEF FreeReturns, Control
<1>3. UNCHANGED <<ctxVars, counterVars, wakeVars, localVars, callVars>>
  BY DEF FreeReturns
<1>4. TypeOK'
  <2>1. CallTypes'
    BY <1>3 DEF Control, TypeOK, CallTypes, ctxVars, callVars
  <2> QED BY <1>3, <2>1, MainMoves DEF Control, FreeReturns, MainLabels
<1>5. CallState'
  <2>1. \A w \in Workers : pc'[w] \in WorkerLabels
    BY <1>2 DEF Control, CallState
  <2> QED BY <1>2, <2>1 DEF CallState, MainLabels, Busy
<1>6. ASSUME NEW w \in Workers  PROVE WorkerState(w)'
  <2>1. WorkerState(w)
    BY DEF Control
  <2> QED BY <1>1, <1>2, <2>1, ThreadSets, Types
          DEF WorkerState, Told, Busy, Control
<1>7. NoMissedWakeup'
  BY <1>1, <1>2, <1>3, ThreadSets DEF NoMissedWakeup, Control, wakeVars
<1> QED BY <1>2, <1>4, <1>5, <1>6, <1>7 DEF Control, Busy
-----------------------------------------------------------------------------
(* Steps that leave the counters, and who is due and who is inside, alone. *)

\* The counting survives steps that move nobody in or out of a batch.
LEMMA BatchKept ==
  ASSUME Counts, Reports, Slots, Busy' <=> Busy,
         UNCHANGED <<counterVars, ctx_done, slot>>,
         Busy => Due' = Due, Inside' = Inside,
         \A w \in Workers : pc'[w] = "last" <=> pc[w] = "last"
  PROVE  Counts' /\ Reports' /\ Slots'
<1> USE DEF counterVars
<1>1. Counts'
  BY DEF Counts, Left
<1>2. Reports'
  BY DEF Reports
<1>3. Slots'
  BY DEF Slots
<1> QED BY <1>1, <1>2, <1>3

\* The type invariant survives a move of a worker.
LEMMA WorkerTypes ==
  ASSUME TypeOK, NEW w \in Workers, NEW l \in WorkerLabels \ {"call"}, Goto(w, l),
         UNCHANGED <<ctxVars, counterVars, callVars, localVars>>,
         w_done' \in [Workers -> BOOLEAN], ctx_done' \in BOOLEAN,
         sleeping' \subseteq Threads
  PROVE  TypeOK'
<1> USE DEF ctxVars, counterVars, localVars, callVars, TypeOK
<1>1. CounterTypes' /\ CallTypes'
  BY DEF CounterTypes, CallTypes
<1>2. ThreadTypes'
  BY DEF ThreadTypes, Goto, WorkerLabels
<1>3. ASSUME NEW t \in Threads, pc'[t] = "call"  PROVE job'[t] < nb_jobs'
  BY <1>3, GotoMoves, ThreadSets
<1> QED BY <1>1, <1>2, <1>3

\* The control state survives a move of a worker that keeps its own part.
LEMMA WorkerMoves ==
  ASSUME Control, NEW w \in Workers,
         UNCHANGED <<ctxVars, callVars, nb_active_threads, nb_jobs>>,
         pc'[w] \in WorkerLabels, \A u \in Threads \ {w} : pc'[u] = pc[u],
         \A v \in Workers \ {w} : w_done'[v] = w_done[v],
         TypeOK', NoMissedWakeup', WorkerState(w)'
  PROVE  Control' /\ (Busy' <=> Busy)
<1> USE DEF ctxVars, callVars
<1>1. pc'[Main] = pc[Main] /\ Created' = Created
  BY ThreadSets DEF Created
<1>2. CallState'
  <2>1. \A v \in Workers : pc'[v] \in WorkerLabels
    BY ThreadSets DEF Control, CallState
  <2> QED BY <1>1, <2>1 DEF Control, CallState, Busy
<1>3. ASSUME NEW v \in Workers  PROVE WorkerState(v)'
  <2>1. CASE v # w
    <3>1. WorkerState(v) /\ pc'[v] = pc[v] /\ w_done'[v] = w_done[v]
      BY <2>1, ThreadSets DEF Control
    <3> QED BY <1>1, <3>1 DEF WorkerState, Asleep, Told, AtRest, Busy
  <2> QED BY <2>1
<1> QED BY <1>1, <1>2, <1>3 DEF Control, Busy

\* A worker told to go on is told so by execute or by free.
LEMMA ToldWhen ==
  ASSUME Control, NEW w \in Workers, Told(w)
  PROVE  w < Created /\ ((w < i /\ Busy) \/ pc[Main] \in {"stop", "join"})
<1>1. WorkerState(w)
  BY DEF Control
<1>2. pc[Main] \in MainLabels
  BY DEF Control, CallState
<1>3. i \in Int /\ Created \in Int /\ w \in Int
  BY ThreadSets, Types DEF Control, Created
<1> QED BY <1>1, <1>2, <1>3
        DEF WorkerState, Told, Asleep, AtRest, MainLabels, Busy

\* A step of a worker that leaves the caller asleep, or not, as it was.
LEMMA MainStillAwaits ==
  ASSUME Control, NEW w \in Workers, \A u \in Threads \ {w} : pc'[u] = pc[u],
         pc[w] # "lock", UNCHANGED <<callVars, ctx_done>>,
         Main \in sleeping' => Main \in sleeping
  PROVE  Main \in sleeping' => \/ pc'[Main] = "await_done" /\ ~ctx_done'
                               \/ pc'[Main] = "await_start" /\ pc'[i'] = "lock"
<1>1. pc'[Main] = pc[Main] /\ i' = i
  BY ThreadSets DEF callVars
<1>2. pc[Main] = "await_start" => i \in Workers
  BY ThreadSets, Types DEF Control, CallState
<1>3. pc[Main] = "await_start" /\ pc[i] = "lock" => pc'[i] = "lock"
  BY <1>2, ThreadSets
<1> QED BY <1>1, <1>3 DEF Control, NoMissedWakeup

\* A worker that goes to sleep is in no batch.
LEMMA WorkerIdlesKeeps ==
  ASSUME IInv, NEW w \in Workers, WorkerIdles(w)
  PROVE  IInv'
<1>1. /\ pc[w] = "loop" /\ pc'[w] = "wait" /\ \A u \in Threads \ {w} : pc'[u] = pc[u]
  BY GotoMoves, ThreadSets DEF WorkerIdles, IInv, Control
<1>2. /\ w_done' = [w_done EXCEPT ![w] = TRUE] /\ sleeping' = sleeping \union {w}
      /\ UNCHANGED <<ctxVars, counterVars, ctx_done, localVars, callVars>>
  BY DEF WorkerIdles
<1>3. /\ w_done'[w] /\ \A v \in Workers \ {w} : w_done'[v] = w_done[v]
      /\ w_done' \in [Workers -> BOOLEAN]
  BY <1>2 DEF IInv, Control, TypeOK, ThreadTypes
<1>4. TypeOK'
  <2>1. ctx_done' \in BOOLEAN /\ sleeping' \subseteq Threads
    BY <1>2, ThreadSets DEF IInv, Control, TypeOK, ThreadTypes
  <2> QED BY <1>2, <1>3, <2>1, WorkerTypes
          DEF IInv, Control, WorkerIdles, WorkerLabels
<1>5. NoMissedWakeup'
  BY <1>1, <1>2, <1>3, ThreadSets, MainStillAwaits DEF IInv, Control, NoMissedWakeup
<1>6. WorkerState(w)'
  <2>1. WorkerState(w)
    BY DEF IInv, Control
  <2> QED BY <1>1, <1>2, <1>3, <2>1, ThreadSets
          DEF WorkerState, Asleep, Told, AtRest, Busy, Created, callVars, ctxVars
<1>7. Control' /\ (Busy' <=> Busy)
  BY <1>1, <1>2, <1>3, <1>4, <1>5, <1>6, WorkerMoves
  DEF IInv, counterVars, WorkerLabels
<1>8. Due' = Due /\ Inside' = Inside
  BY <1>1, <1>2, <1>3, <1>7, ThreadSets DEF Due, Inside, Told, callVars
<1> QED BY <1>1, <1>2, <1>7, <1>8, ThreadSets, BatchKept DEF IInv, localVars

\* A worker wakes: it joins the batch it was due in, returns, or sleeps again.
LEMMA WorkerWakesKeeps ==
  ASSUME IInv, NEW w \in Workers, WorkerWakes(w)
  PROVE  IInv'
<1>1. UNCHANGED <<ctxVars, counterVars, ctx_done, w_done, localVars, callVars>>
      /\ pc[w] = "wait"
  BY DEF WorkerWakes
<1>2. ctx_done' \in BOOLEAN /\ w_done' \in [Workers -> BOOLEAN]
  BY <1>1 DEF IInv, Control, TypeOK, ThreadTypes
<1>3. CASE w_done[w]
  <2>1. sleeping' = sleeping \union {w} /\ pc' = pc
    BY <1>3 DEF WorkerWakes
  <2>2. TypeOK'
    <3>1. ThreadTypes'
      BY <1>1, <2>1, ThreadSets DEF IInv, Control, TypeOK, ThreadTypes, localVars
    <3>2. CounterTypes' /\ CallTypes'
      BY <1>1 DEF IInv, Control, TypeOK, CounterTypes, CallTypes,
                  ctxVars, counterVars, callVars
    <3> QED BY <1>1, <2>1, <3>1, <3>2 DEF IInv, Control, TypeOK, localVars, counterVars
  <2>3. NoMissedWakeup'
    BY <1>1, <1>3, <2>1, ThreadSets DEF IInv, Control, NoMissedWakeup, callVars
  <2>4. WorkerState(w)'
    <3>1. WorkerState(w)
      BY DEF IInv, Control
    <3> QED BY <1>1, <2>1, <3>1
            DEF WorkerState, Asleep, Told, AtRest, Busy, Created, callVars, ctxVars
  <2>5. Control' /\ (Busy' <=> Busy)
    <3>1. pc'[w] \in WorkerLabels
      BY <1>1, <2>1 DEF WorkerLabels
    <3> QED BY <1>1, <2>1, <2>2, <2>3, <2>4, <3>1, WorkerMoves DEF IInv, counterVars
  <2>6. Due' = Due /\ Inside' = Inside
    BY <1>1, <2>1, <2>5 DEF Due, Inside, Told, callVars, Busy
  <2> QED BY <1>1, <2>1, <2>5, <2>6, BatchKept DEF IInv, localVars
<1>4. CASE ~w_done[w]
  <2> DEFINE l == IF finished THEN "exited" ELSE "run"
  <2>1. Goto(w, l) /\ sleeping' = sleeping
    BY <1>4 DEF WorkerWakes
  <2>2. pc'[w] = l /\ \A u \in Threads \ {w} : pc'[u] = pc[u]
    BY <2>1, GotoMoves, ThreadSets DEF IInv, Control
  <2>3. Told(w) /\ WorkerState(w)
    BY <1>1, <1>4 DEF Told, IInv, Control
  <2>4. TypeOK'
    <3>1. l \in WorkerLabels \ {"call"} /\ sleeping' \subseteq Threads
      BY <2>1 DEF IInv, Control, TypeOK, ThreadTypes, WorkerLabels
    <3> QED BY <1>1, <1>2, <2>1, <3>1, WorkerTypes DEF IInv, Control
  <2>5. NoMissedWakeup'
    BY <1>1, <1>4, <2>1, <2>2, ThreadSets, MainStillAwaits
    DEF IInv, Control, NoMissedWakeup
  <2>6. WorkerState(w)'
    <3>1. w < Created /\ ((w < i /\ Busy) \/ pc[Main] \in {"stop", "join"})
      BY <2>3, ToldWhen DEF IInv
    <3>2. Busy => ~finished
      BY DEF IInv, Control, CallState, Busy
    <3>3. pc[Main] \in {"stop", "join"} => finished
      BY DEF IInv, Control, CallState
    <3>4. UNCHANGED <<pc[Main], i, Created>> /\ i \in Int /\ w \in Int /\ Created \in Int
      BY <1>1, <2>2, ThreadSets, Types
      DEF callVars, ctxVars, Created, IInv, Control
    <3> QED BY <2>2, <2>3, <3>1, <3>2, <3>3, <3>4
            DEF WorkerState, Told, Asleep, AtRest, Busy
  <2>7. Control' /\ (Busy' <=> Busy)
    <3>1. pc'[w] \in WorkerLabels
      BY <2>2 DEF WorkerLabels
    <3> QED BY <1>1, <2>2, <2>4, <2>5, <2>6, <3>1, WorkerMoves DEF IInv, counterVars
  <2>8. Inside' = Inside
    BY <1>1, <2>2 DEF Inside
  <2>9. ASSUME Busy  PROVE Due' = Due
    <3>1. pc'[w] = "run"
      BY <2>2, <2>9 DEF IInv, Control, CallState, Busy
    <3> QED BY <1>1, <2>2, <2>3, <2>7, <2>9, <3>1, ThreadSets
            DEF Due, Told, callVars
  <2> QED BY <1>1, <2>2, <2>7, <2>8, <2>9, ThreadSets, BatchKept DEF IInv, localVars
<1> QED BY <1>3, <1>4

\* A stutter keeps the invariant.
LEMMA UnchangedKeeps ==
  ASSUME IInv, UNCHANGED vars
  PROVE  IInv'
<1> USE DEF vars, ctxVars, counterVars, wakeVars, localVars, callVars
<1>1. TypeOK'
  BY DEF IInv, Control, TypeOK, CounterTypes, ThreadTypes, CallTypes
<1>2. CallState' /\ (Busy' <=> Busy) /\ NoMissedWakeup'
  BY DEF IInv, Control, CallState, Busy, Created, NoMissedWakeup
<1>3. ASSUME NEW w \in Workers  PROVE WorkerState(w)'
  <2>1. WorkerState(w)
    BY DEF IInv, Control
  <2> QED BY <2>1 DEF WorkerState, Asleep, Told, AtRest, Busy, Created
<1>4. Due' = Due /\ Inside' = Inside
  BY <1>2 DEF Due, Inside, Told
<1> QED BY <1>1, <1>2, <1>3, <1>4, BatchKept DEF IInv, Control
-----------------------------------------------------------------------------
(* The threads of a batch.                                                 *)

\* Threads are inside run_jobs only during a batch, the caller only without main_func.
LEMMA InBatch ==
  ASSUME Control, NEW t \in Threads, pc[t] \in {"run", "call", "fetch", "last"}
  PROVE  Busy /\ (t \in Workers => t < i /\ t < Created)
<1>1. CASE t = Main
  BY <1>1, ThreadSets DEF Busy, Control, CallState, MainLabels
<1>2. CASE t \in Workers
  <2>1. WorkerState(t) /\ pc[Main] \in MainLabels
    BY <1>2 DEF Control, CallState
  <2>2. i \in Int /\ Created \in Int /\ t \in Int
    BY <1>2, ThreadSets, Types DEF Control, Created
  <2> QED BY <2>1, <2>2
          DEF WorkerState, Asleep, Told, AtRest, MainLabels, Busy
<1> QED BY <1>1, <1>2, ThreadSets

\* The two sets that Counts counts are finite.
LEMMA Counting ==
  ASSUME TypeOK, Counts, Busy
  PROVE  /\ IsFiniteSet(Due) /\ IsFiniteSet(Inside)
         /\ Cardinality(Due) \in Nat /\ Cardinality(Inside) \in Nat
         /\ Cardinality(Due) = nb_active_threads - first_job
         /\ Cardinality(Inside) = first_job - Left
         /\ Left \in Nat
<1>1. IsFiniteSet(Threads)
  <2>1. 0 \in Int /\ MaxWorkers - 1 \in Int
    BY Bounds
  <2>2. IsFiniteSet(Workers)
    BY <2>1, ThreadSets, FS_Interval
  <2> QED BY <2>2, ThreadSets, FS_AddElement
<1>2. Due \in SUBSET Threads /\ Inside \in SUBSET Threads
  BY DEF Due, Inside
<1>3. Left \in Nat
  BY Types DEF Left
<1> QED BY <1>1, <1>2, <1>3, FS_Subset, FS_CardinalityType DEF Counts

\* While a thread is due, first_job is below the number of threads.
LEMMA SomeDue ==
  ASSUME TypeOK, Counts, Busy, NEW t \in Due
  PROVE  first_job < nb_active_threads
  BY Counting, FS_EmptySet, Types

\* While a thread is inside, current_job is not at its last value.
LEMMA SomeInside ==
  ASSUME TypeOK, Counts, Busy, NEW t \in Inside
  PROVE  Left < first_job /\ first_job <= nb_active_threads
         /\ current_job < nb_jobs + nb_active_threads
<1>1. Left < first_job
  BY Counting, FS_EmptySet, Types
<1>2. first_job <= nb_active_threads
  BY Counting, Types
<1> QED BY <1>1, <1>2, Types DEF Left

\* Every thread has made its last fetch.
LEMMA AllOver ==
  ASSUME TypeOK, Counts, Busy, current_job = nb_jobs + nb_active_threads
  PROVE  Due = {} /\ Inside = {} /\ first_job = nb_active_threads
<1>1. current_job > nb_jobs => Left = nb_active_threads
  BY Types DEF Left
<1>2. current_job = nb_jobs => nb_active_threads = 0
  BY Types
<1>3. Left = nb_active_threads
  BY <1>1, <1>2, Types DEF Left
<1>4. Cardinality(Due) = 0 /\ Cardinality(Inside) = 0
  BY <1>3, Counting, Types
<1> QED BY <1>3, <1>4, Counting, FS_EmptySet, Types

\* All threads but the caller have left run_jobs: the workers are at rest.
LEMMA WorkersAtRest ==
  ASSUME Control, Busy, Due = {}, Inside \subseteq {Main},
         \A w \in Workers : pc[w] # "last"
  PROVE  \A w \in Workers : IF w < Created THEN AtRest(w) ELSE pc[w] = "none"
<1> SUFFICES ASSUME NEW w \in Workers
             PROVE  IF w < Created THEN AtRest(w) ELSE pc[w] = "none"
  OBVIOUS
<1>1. WorkerState(w) /\ w \in Threads /\ w # Main
  BY ThreadSets DEF Control
<1>2. ~Told(w) /\ pc[w] \notin {"run", "call", "fetch", "last"}
  BY <1>1 DEF Due, Inside
<1>3. w \in Int /\ Created \in Int
  BY ThreadSets, Types DEF Control, Created
<1>4. pc[Main] \notin {"none", "spawn", "await_start", "ready", "stop", "join", "freed"}
  BY DEF Busy
<1> QED BY <1>1, <1>2, <1>3, <1>4 DEF WorkerState

\* The caller goes on with the batch.
LEMMA MainGoesOn ==
  ASSUME Control, Busy, TypeOK', NoMissedWakeup', i = nb_workers,
         UNCHANGED <<ctxVars, callVars, w_done, nb_active_threads, nb_jobs>>,
         \A w \in Workers : pc'[w] = pc[w],
         \/ pc'[Main] \in {"run", "call", "fetch"} /\ ~execute_main
         \/ pc'[Main] = "main_func" /\ execute_main
         \/ pc'[Main] = "await_done"
  PROVE  Control' /\ Busy'
<1> USE DEF ctxVars, callVars
<1>1. Busy'
  BY DEF Busy
<1>2. CallState'
  <2>1. pc'[Main] \in MainLabels /\ \A w \in Workers : pc'[w] \in WorkerLabels
    BY DEF Control, CallState, MainLabels
  <2> QED BY <1>1, <2>1 DEF Control, CallState, Busy
<1>3. ASSUME NEW w \in Workers  PROVE WorkerState(w)'
  <2>1. WorkerState(w) /\ Created' = Created
    BY DEF Control, Created
  <2> QED BY <1>1, <2>1 DEF WorkerState, Asleep, Told, AtRest, Busy
<1> QED BY <1>1, <1>2, <1>3 DEF Control

\* The call of execute returns, the workers being at rest.
LEMMA MainReturns ==
  ASSUME Control, Busy, TypeOK', NoMissedWakeup', ~ctx_done', pc'[Main] = "ready",
         UNCHANGED <<ctxVars, callVars, w_done>>,
         \A w \in Workers : pc'[w] = pc[w],
         \A w \in Workers : IF w < Created THEN AtRest(w) ELSE pc[w] = "none"
  PROVE  IInv' /\ ~Busy'
<1> USE DEF ctxVars, callVars
<1>1. ~Busy'
  BY DEF Busy
<1>2. CallState'
  <2>1. ~finished /\ nb_threads >= 1 /\ \A w \in Workers : pc[w] \in WorkerLabels
    BY DEF Control, CallState, Busy
  <2> QED BY <1>1, <2>1 DEF CallState, MainLabels, Busy
<1>3. ASSUME NEW w \in Workers  PROVE WorkerState(w)'
  <2>1. Created' = Created
    BY DEF Created
  <2> QED BY <1>1, <2>1 DEF WorkerState, Asleep, AtRest, Busy
<1>4. (TypeOK /\ CallState /\ (\A w \in Workers : WorkerState(w)) /\ ~Busy /\ ~ctx_done
         => Counts /\ Reports /\ Slots)'
  BY QuietState, PTL
<1> QED BY <1>1, <1>2, <1>3, <1>4 DEF IInv, Control
-----------------------------------------------------------------------------
(* Inside a batch.                                                         *)

\* No invariant relies on a thread staying asleep.
LEMMA SpuriousWakeupKeeps ==
  ASSUME IInv, NEW t \in Threads, SpuriousWakeup(t)
  PROVE  IInv'
<1>1. UNCHANGED <<ctxVars, counterVars, ctx_done, w_done, localVars, callVars, pc>>
      /\ sleeping' = sleeping \ {t}
  BY DEF SpuriousWakeup
<1> USE DEF ctxVars, counterVars, localVars, callVars
<1>2. TypeOK'
  <2>1. ThreadTypes'
    BY <1>1 DEF IInv, Control, TypeOK, ThreadTypes
  <2>2. CounterTypes' /\ CallTypes'
    BY <1>1 DEF IInv, Control, TypeOK, CounterTypes, CallTypes
  <2> QED BY <1>1, <2>1, <2>2 DEF IInv, Control, TypeOK
<1>3. CallState' /\ (Busy' <=> Busy)
  BY <1>1 DEF IInv, Control, CallState, Busy, Created
<1>4. ASSUME NEW w \in Workers  PROVE WorkerState(w)'
  <2>1. WorkerState(w)
    BY DEF IInv, Control
  <2> QED BY <1>1, <2>1 DEF WorkerState, Asleep, Told, AtRest, Busy, Created
<1>5. NoMissedWakeup'
  BY <1>1 DEF IInv, Control, NoMissedWakeup
<1>6. Due' = Due /\ Inside' = Inside
  BY <1>1, <1>3 DEF Due, Inside, Told
<1> QED BY <1>1, <1>2, <1>3, <1>4, <1>5, <1>6, BatchKept DEF IInv, Control

\* A batch begins with every thread of it due.
LEMMA ExecuteKeeps ==
  ASSUME IInv, NEW n \in JobCounts, NEW m \in BOOLEAN, Execute(n, m)
  PROVE  IInv'
<1>1. pc[Main] = "ready" /\ nb_threads >= 1 /\ ~finished /\ ~Busy /\ ~ctx_done
      /\ n \in Nat \ {0} /\ nb_threads \in Nat /\ nb_threads <= MaxWorkers
  BY Bounds DEF Execute, IInv, Control, CallState, Busy, Reports, TypeOK, CallTypes
<1>2. /\ pc'[Main] = "wake" /\ \A w \in Workers : pc'[w] = pc[w]
  BY GotoMoves, ThreadSets DEF Execute, IInv, Control
<1> DEFINE k == MinOf(n, nb_threads)
           e == main_func /\ m
           r == IF e THEN k ELSE k - 1
<1>3. /\ nb_jobs' = n /\ nb_active_threads' = k /\ first_job' = 0
      /\ current_job' = k /\ execute_main' = e /\ nb_workers' = r
      /\ i' = 0 /\ batches < MaxBatches /\ batches' = batches + 1
      /\ UNCHANGED <<ctxVars, wakeVars, localVars>>
  BY DEF Execute
<1>4. k \in Nat \ {0} /\ k <= n /\ k <= nb_threads /\ k <= MaxWorkers
  BY <1>1, Bounds DEF MinOf
<1>5. r \in Nat /\ r <= k /\ r <= Created /\ Created \in Nat /\ Created <= MaxWorkers
  BY <1>1, <1>4, Bounds DEF Created
<1>c. Created' = Created /\ e \in BOOLEAN /\ (e => main_func)
  BY <1>3 DEF Created, ctxVars
<1>b. r = IF e THEN k ELSE k - 1
  OBVIOUS
<1> HIDE DEF k, e, r
<1>6. TypeOK'
  <2>1. CounterTypes'
    BY <1>1, <1>3, <1>4, Bounds DEF CounterTypes
  <2>2. ThreadTypes'
    BY <1>3 DEF IInv, Control, TypeOK, ThreadTypes, wakeVars, localVars, Execute, Goto
  <2>3. CallTypes'
    <3>1. i' \in 0 .. MaxWorkers /\ nb_workers' \in 0 .. MaxWorkers
          /\ batches' \in 0 .. MaxBatches
      BY <1>3, <1>5, Bounds DEF IInv, Control, TypeOK, CallTypes
    <3> QED BY <1>3, <1>c, <3>1 DEF IInv, Control, TypeOK, CallTypes, ctxVars
  <2>4. \A t \in Threads : pc'[t] # "call"
    <3>1. \A w \in Workers : WorkerState(w)
      BY DEF IInv, Control
    <3> QED BY <1>1, <1>2, <3>1, ThreadSets DEF WorkerState, AtRest, Asleep
  <2> QED BY <2>1, <2>2, <2>3, <2>4 DEF TypeOK
<1>7. Busy'
  BY <1>2 DEF Busy
<1>8. CallState'
  <2>1. \A w \in Workers : pc'[w] \in WorkerLabels
    BY <1>2 DEF IInv, Control, CallState
  <2>2. ~finished' /\ nb_threads' = nb_threads /\ (execute_main' => main_func')
    BY <1>1, <1>3, <1>c DEF ctxVars
  <2> QED BY <1>1, <1>2, <1>3, <1>4, <1>5, <1>7, <1>c, <1>b, <2>1, <2>2 DEF CallState, MainLabels
<1>9. ASSUME NEW w \in Workers
      PROVE  WorkerState(w)' /\ ~Told(w)' /\ pc'[w] \notin {"run", "call", "fetch", "last"}
  <2>1. WorkerState(w)
    BY DEF IInv, Control
  <2>2. IF w < Created THEN AtRest(w) ELSE pc[w] = "none"
    BY <1>1, <2>1 DEF WorkerState
  <2>3. AtRest(w)' <=> AtRest(w)
    BY <1>2, <1>3 DEF AtRest, Asleep, wakeVars
  <2>4. w \in Int /\ Created \in Int
    BY <1>5, ThreadSets
  <2> QED BY <1>2, <1>3, <1>5, <1>7, <1>c, <2>2, <2>3, <2>4
          DEF WorkerState, Told, AtRest, Asleep, wakeVars
<1>10. NoMissedWakeup'
  BY <1>1, <1>2, <1>3, ThreadSets DEF IInv, Control, NoMissedWakeup, wakeVars
<1>11. Counts'
  <2>1. Inside' = {}
    BY <1>2, <1>9, ThreadSets DEF Inside
  <2>2. Cardinality(Due') = k
    <3>1. CASE e
      <4>1. Due' = 0 .. (k - 1)
        BY <1>2, <1>3, <1>4, <1>5, <1>9, <1>b, <3>1, ThreadSets, Bounds DEF Due, Main
      <4> QED BY <1>4, <4>1, FS_Interval
    <3>2. CASE ~e
      <4>1. Due' = -1 .. (k - 2)
        BY <1>2, <1>3, <1>4, <1>5, <1>9, <1>b, <3>2, ThreadSets, Bounds DEF Due, Main
      <4> QED BY <1>4, <4>1, FS_Interval
    <3> QED BY <3>1, <3>2
  <2>3. Left' = 0
    BY <1>1, <1>3, <1>4 DEF Left
  <2> QED BY <1>3, <1>4, <2>1, <2>2, <2>3, FS_EmptySet DEF Counts
<1>12. Reports'
  BY <1>1, <1>3, <1>9 DEF Reports, wakeVars
<1>13. Slots'
  BY <1>2, <1>9, ThreadSets DEF Slots, Inside
<1> QED BY <1>6, <1>8, <1>9, <1>10, <1>11, <1>12, <1>13 DEF IInv, Control

\* A worker told to go on stays due, now by its own w->done.
LEMMA WakeWorkerKeeps ==
  ASSUME IInv, WakeWorker
  PROVE  IInv'
<1>1. pc[Main] = "wake" /\ i < nb_workers /\ i \in Workers /\ i \in Threads
      /\ i \in Int /\ nb_workers <= Created /\ Created \in Int
      /\ nb_workers \in Int
  <2>1. pc[Main] = "wake" /\ i < nb_workers
    BY DEF WakeWorker
  <2>2. i \in Workers
    BY <2>1, ThreadSets, Types DEF IInv, Control
  <2>3. nb_workers <= Created /\ Created \in Int
    BY <2>1, Types DEF IInv, Control, CallState, Busy, Created
  <2> QED BY <2>1, <2>2, <2>3, ThreadSets, Types DEF IInv, Control
<1>2. UNCHANGED <<ctxVars, counterVars, ctx_done, localVars, nb_workers,
                   execute_main, batches, pc>> /\ i' = i + 1
  BY DEF WakeWorker
<1> USE DEF ctxVars, counterVars, localVars, callVars
<1>3. /\ Asleep(i) /\ ~w_done'[i]
      /\ \A v \in Workers : v # i => w_done'[v] = w_done[v]
      /\ w_done' \in [Workers -> BOOLEAN]
      /\ sleeping' = sleeping \ {i}
  <2>1. WorkerState(i)
    BY <1>1 DEF IInv, Control
  <2>2. AtRest(i)
    BY <1>1, <2>1 DEF WorkerState, Busy
  <2> QED BY <1>1, <1>2, <2>2, TellingMoves DEF IInv, WakeWorker
<1>4. TypeOK'
  <2>1. ThreadTypes'
    BY <1>2, <1>3 DEF IInv, Control, TypeOK, ThreadTypes
  <2>2. CallTypes' /\ CounterTypes'
    BY <1>1, <1>2, ThreadSets DEF IInv, Control, TypeOK, CallTypes, CounterTypes
  <2> QED BY <1>2, <2>1, <2>2 DEF IInv, Control, TypeOK
<1>5. CallState' /\ Busy /\ Busy'
  BY <1>1, <1>2, Types DEF IInv, Control, CallState, MainLabels, Busy, Created
<1>6. ASSUME NEW v \in Workers  PROVE WorkerState(v)'
  <2>1. WorkerState(v)
    BY DEF IInv, Control
  <2>2. Created' = Created /\ v \in Int
    BY <1>2, ThreadSets DEF Created
  <2> QED BY <1>1, <1>2, <1>3, <1>5, <2>1, <2>2
          DEF WorkerState, Asleep, Told, AtRest
<1>7. NoMissedWakeup'
  BY <1>1, <1>2, <1>3, ThreadSets DEF NoMissedWakeup, IInv, Control
<1>8. Due' = Due
  <2>1. ASSUME NEW t \in Threads  PROVE t \in Due' <=> t \in Due
    BY <1>1, <1>2, <1>3, <1>5, ThreadSets DEF Due, Told, Asleep
  <2> QED BY <2>1 DEF Due
<1>9. Inside' = Inside
  BY <1>2 DEF Inside
<1> QED BY <1>2, <1>4, <1>5, <1>6, <1>7, <1>8, <1>9, BatchKept DEF IInv, Control

\* The caller runs main_func or stays due.
LEMMA EnterBatchKeeps ==
  ASSUME IInv, EnterBatch
  PROVE  IInv'
<1>1. pc[Main] = "wake" /\ i = nb_workers /\ Busy
  BY DEF EnterBatch, Busy
<1>2. pc'[Main] = (IF execute_main THEN "main_func" ELSE "run")
      /\ \A w \in Workers : pc'[w] = pc[w]
  BY GotoMoves, ThreadSets DEF EnterBatch, IInv, Control
<1>3. UNCHANGED <<ctxVars, counterVars, wakeVars, localVars, callVars>>
  BY DEF EnterBatch
<1>4. TypeOK'
  <2>1. CallTypes'
    BY <1>3 DEF IInv, Control, TypeOK, CallTypes, ctxVars, callVars
  <2> QED BY <1>3, <2>1, MainMoves DEF IInv, Control, EnterBatch, MainLabels
<1>5. NoMissedWakeup'
  BY <1>1, <1>2, <1>3, ThreadSets DEF IInv, Control, NoMissedWakeup, wakeVars
<1>6. Control' /\ Busy'
  BY <1>1, <1>2, <1>3, <1>4, <1>5, MainGoesOn DEF IInv, counterVars, wakeVars
<1>7. Due' = Due
  <2>1. \A w \in Workers : Told(w)' <=> Told(w)
    BY <1>2, <1>3 DEF Told, wakeVars
  <2> QED BY <1>1, <1>2, <1>3, <1>6, <2>1, ThreadSets, Types
          DEF Due, callVars, IInv, Control
<1>8. Inside' = Inside
  BY <1>1, <1>2, ThreadSets DEF Inside
<1> QED BY <1>1, <1>2, <1>3, <1>6, <1>7, <1>8, BatchKept DEF IInv, wakeVars, localVars

\* The caller waits for the batch after main_func.
LEMMA MainFuncReturnsKeeps ==
  ASSUME IInv, MainFuncReturns
  PROVE  IInv'
<1>1. pc[Main] = "main_func" /\ Busy /\ i = nb_workers
  BY DEF MainFuncReturns, Busy, IInv, Control, CallState
<1>2. pc'[Main] = "await_done" /\ \A w \in Workers : pc'[w] = pc[w]
  BY GotoMoves, ThreadSets DEF MainFuncReturns, IInv, Control
<1>3. UNCHANGED <<ctxVars, counterVars, wakeVars, localVars, callVars>>
  BY DEF MainFuncReturns
<1>4. TypeOK'
  <2>1. CallTypes'
    BY <1>3 DEF IInv, Control, TypeOK, CallTypes, ctxVars, callVars
  <2> QED BY <1>3, <2>1, MainMoves DEF IInv, Control, MainFuncReturns, MainLabels
<1>5. NoMissedWakeup'
  BY <1>1, <1>2, <1>3, ThreadSets DEF IInv, Control, NoMissedWakeup, wakeVars
<1>6. Control' /\ Busy'
  BY <1>1, <1>2, <1>3, <1>4, <1>5, MainGoesOn DEF IInv, counterVars, wakeVars
<1>7. Due' = Due
  <2>1. \A w \in Workers : Told(w)' <=> Told(w)
    BY <1>2, <1>3 DEF Told, wakeVars
  <2> QED BY <1>1, <1>2, <1>3, <1>6, <2>1, ThreadSets DEF Due
<1>8. Inside' = Inside
  BY <1>1, <1>2, ThreadSets DEF Inside
<1> QED BY <1>1, <1>2, <1>3, <1>6, <1>7, <1>8, BatchKept DEF IInv, wakeVars, localVars

\* The caller consumes ctx->done, or sleeps.
LEMMA AwaitDoneKeeps ==
  ASSUME IInv, AwaitDone
  PROVE  IInv'
<1>1. pc[Main] = "await_done" /\ Main \notin sleeping /\ Busy
      /\ i = nb_workers
      /\ UNCHANGED <<ctxVars, counterVars, w_done, localVars, callVars>>
  BY DEF AwaitDone, Busy, IInv, Control, CallState
<1>2. CASE ctx_done
  <2>1. ctx_done' = FALSE /\ Goto(Main, "ready") /\ sleeping' = sleeping
    BY <1>2 DEF AwaitDone
  <2>2. pc'[Main] = "ready" /\ \A w \in Workers : pc'[w] = pc[w]
    BY <2>1, GotoMoves, ThreadSets DEF IInv, Control
  <2>3. current_job = nb_jobs + nb_active_threads /\ \A w \in Workers : pc[w] # "last"
    BY <1>2 DEF IInv, Reports
  <2>4. \A w \in Workers : IF w < Created THEN AtRest(w) ELSE pc[w] = "none"
    BY <1>1, <2>3, AllOver, WorkersAtRest DEF IInv, Control
  <2>5. TypeOK'
    <3>1. CounterTypes' /\ CallTypes'
      BY <1>1 DEF IInv, Control, TypeOK, CounterTypes, CallTypes,
                  ctxVars, counterVars, callVars
    <3>2. ThreadTypes'
      <4>1. ctx_done' \in BOOLEAN /\ UNCHANGED <<w_done, sleeping, slot, job>>
        BY <1>1, <2>1 DEF localVars
      <4> QED BY <2>1, <4>1 DEF IInv, Control, TypeOK, ThreadTypes, Goto
    <3> QED BY <1>1, <2>2, <3>1, <3>2, ThreadSets
            DEF IInv, Control, TypeOK, localVars, counterVars
  <2>6. NoMissedWakeup'
    BY <1>1, <2>1, <2>2, ThreadSets DEF IInv, Control, NoMissedWakeup
  <2> QED BY <1>1, <2>1, <2>2, <2>4, <2>5, <2>6, MainReturns DEF IInv
<1>3. CASE ~ctx_done
  <2>1. sleeping' = sleeping \union {Main} /\ UNCHANGED <<ctx_done, pc>>
    BY <1>3 DEF AwaitDone
  <2>2. TypeOK'
    <3>1. CounterTypes' /\ CallTypes'
      BY <1>1 DEF IInv, Control, TypeOK, CounterTypes, CallTypes,
                  ctxVars, counterVars, callVars
    <3>2. ThreadTypes'
      BY <1>1, <2>1, ThreadSets DEF IInv, Control, TypeOK, ThreadTypes, localVars
    <3> QED BY <1>1, <2>1, <3>1, <3>2
            DEF IInv, Control, TypeOK, localVars, counterVars
  <2>3. NoMissedWakeup'
    BY <1>1, <1>3, <2>1, ThreadSets DEF IInv, Control, NoMissedWakeup
  <2>4. Control' /\ Busy'
    BY <1>1, <2>1, <2>2, <2>3, MainGoesOn DEF IInv, counterVars
  <2>5. Due' = Due /\ Inside' = Inside
    BY <1>1, <2>1, <2>4 DEF Due, Inside, Told, callVars
  <2> QED BY <1>1, <2>1, <2>4, <2>5, BatchKept DEF IInv, localVars
<1> QED BY <1>2, <1>3

\* The control of a step of run_jobs: thread t moves to label l, still inside.
LEMMA RunnerMoves ==
  ASSUME Control, NEW t \in Threads, NEW l \in {"call", "fetch"}, Goto(t, l),
         pc[t] \in {"run", "call", "fetch"},
         UNCHANGED <<ctxVars, nb_active_threads, nb_jobs, wakeVars, callVars>>,
         TypeOK'
  PROVE  Control' /\ Busy'
<1> USE DEF wakeVars
<1>1. pc'[t] = l /\ \A u \in Threads \ {t} : pc'[u] = pc[u]
  BY GotoMoves DEF Control
<1>2. Busy /\ (t \in Workers => t < i /\ t < Created)
  BY InBatch
<1>3. CASE t = Main
  <2>1. pc[Main] \in {"run", "call", "fetch"} /\ \A w \in Workers : pc'[w] = pc[w]
    BY <1>1, <1>3, ThreadSets
  <2>2. ~execute_main /\ i = nb_workers
    BY <1>2, <2>1 DEF Control, CallState
  <2>3. NoMissedWakeup'
    BY <1>1, <1>3, <2>1, ThreadSets DEF Control, NoMissedWakeup
  <2> QED BY <1>1, <1>2, <1>3, <2>1, <2>2, <2>3, MainGoesOn
<1>4. CASE t \in Workers
  <2>1. pc[t] # "lock" /\ pc[t] # "wait"
    OBVIOUS
  <2>2. NoMissedWakeup'
    BY <1>1, <1>4, <2>1, ThreadSets, MainStillAwaits DEF Control, NoMissedWakeup
  <2>3. WorkerState(t)'
    <3>1. pc'[Main] = pc[Main] /\ i' = i /\ Created' = Created
      BY <1>1, <1>4, ThreadSets DEF callVars, ctxVars, Created
    <3>2. t \in Int /\ Created \in Int
      BY <1>4, ThreadSets, Types DEF Control, Created
    <3> QED BY <1>1, <1>2, <1>4, <3>1, <3>2 DEF WorkerState, Busy
  <2>4. pc'[t] \in WorkerLabels
    BY <1>1 DEF WorkerLabels
  <2> QED BY <1>1, <1>2, <1>4, <2>2, <2>3, <2>4, WorkerMoves
<1> QED BY <1>3, <1>4, ThreadSets

\* A due thread comes inside with a new thread number.
LEMMA FirstJobKeeps ==
  ASSUME IInv, NEW t \in Threads, FirstJob(t)
  PROVE  IInv'
<1>1. /\ pc[t] = "run" /\ Goto(t, "call") /\ first_job' = first_job + 1
      /\ slot' = [slot EXCEPT ![t] = first_job] /\ job' = [job EXCEPT ![t] = first_job]
      /\ UNCHANGED <<ctxVars, nb_active_threads, nb_jobs, current_job, wakeVars,
                     callVars>>
  BY DEF FirstJob
<1>2. pc'[t] = "call" /\ \A u \in Threads \ {t} : pc'[u] = pc[u]
  BY <1>1, GotoMoves DEF IInv, Control
<1>3. Busy /\ t \in Due /\ t \notin Inside
  BY <1>1, InBatch DEF IInv, Due, Inside
<1>4. first_job < nb_active_threads /\ nb_active_threads <= nb_jobs
      /\ nb_active_threads <= MaxWorkers
  BY <1>3, SomeDue DEF IInv, Control, CallState, TypeOK, CounterTypes
<1>5. slot'[t] = first_job /\ job'[t] = first_job
      /\ \A u \in Threads \ {t} : slot'[u] = slot[u] /\ job'[u] = job[u]
  BY <1>1 DEF IInv, Control, TypeOK, ThreadTypes
<1>6. TypeOK'
  <2>1. CounterTypes'
    BY <1>1, <1>4, Bounds DEF IInv, Control, TypeOK, CounterTypes
  <2>2. CallTypes'
    BY <1>1 DEF IInv, Control, TypeOK, CallTypes, ctxVars, callVars
  <2>3. ThreadTypes'
    <3>1. first_job \in 0 .. (MaxWorkers - 1) /\ first_job \in Nat
      BY <1>4, Types, Bounds DEF IInv, Control, TypeOK, CounterTypes
    <3>2. slot' \in [Threads -> 0 .. (MaxWorkers - 1)] /\ job' \in [Threads -> Nat]
      BY <1>1, <3>1 DEF IInv, Control, TypeOK, ThreadTypes
    <3> QED BY <1>1, <3>2
            DEF IInv, Control, TypeOK, ThreadTypes, Goto, wakeVars
  <2>4. ASSUME NEW u \in Threads, pc'[u] = "call"  PROVE job'[u] < nb_jobs'
    <3>1. CASE u = t
      BY <1>1, <1>4, <1>5, <3>1, Types DEF IInv, Control
    <3>2. CASE u # t
      BY <1>1, <1>2, <1>5, <2>4, <3>2 DEF IInv, Control, TypeOK
    <3> QED BY <3>1, <3>2
  <2> QED BY <2>1, <2>2, <2>3, <2>4 DEF TypeOK
<1>7. Control' /\ Busy'
  BY <1>1, <1>6, RunnerMoves DEF IInv
<1>8. Due' = Due \ {t}
  <2>1. ASSUME NEW u \in Threads  PROVE Told(u)' <=> Told(u) /\ u # t
    BY <1>1, <1>2 DEF Told, wakeVars
  <2>2. pc'[Main] = "wake" <=> pc[Main] = "wake"
    BY <1>1, <1>2, ThreadSets
  <2>3. pc[Main] = "wake" => t < i /\ t \in Workers /\ i \in Nat
    BY <1>1, InBatch, ThreadSets, Types DEF IInv, Control
  <2>4. ASSUME NEW u \in Threads  PROVE u \in Due' <=> u \in Due /\ u # t
    <3>1. UNCHANGED <<i, nb_workers, execute_main>>
      BY <1>1 DEF callVars
    <3>2. CASE u = t
      BY <1>1, <1>2, <2>1, <2>2, <2>3, <3>1, <3>2, ThreadSets DEF Due
    <3>3. CASE u # t
      BY <1>2, <1>3, <1>7, <2>1, <2>2, <3>1, <3>3 DEF Due
    <3> QED BY <3>2, <3>3
  <2> QED BY <2>4 DEF Due
<1>9. Inside' = Inside \union {t}
  BY <1>2 DEF Inside
<1>10. Counts'
  <2>1. Left' = Left
    BY <1>1 DEF Left
  <2>2. Cardinality(Due') = Cardinality(Due) - 1
    BY <1>3, <1>8, Counting, FS_RemoveElement DEF IInv, Control
  <2>3. Cardinality(Inside') = Cardinality(Inside) + 1
    BY <1>3, <1>9, Counting, FS_AddElement DEF IInv, Control
  <2> QED BY <1>1, <1>3, <1>4, <2>1, <2>2, <2>3, Counting, Types DEF IInv, Control, Counts
<1>11. Reports'
  <2>1. ASSUME NEW w \in Workers  PROVE pc'[w] = "last" <=> pc[w] = "last"
    BY <1>1, <1>2, ThreadSets
  <2> QED BY <1>1, <1>3, <1>7, <2>1 DEF IInv, Reports, wakeVars
<1>12. Slots'
  <2>1. first_job \in Nat /\ \A u \in Inside : slot[u] \in Nat /\ u # t /\ u \in Threads
    BY <1>3, Types DEF IInv, Control, TypeOK, ThreadTypes, Inside
  <2>2. ASSUME NEW u \in Inside  PROVE slot'[u] = slot[u] /\ slot'[u] < first_job
    BY <1>5, <2>1, <2>2 DEF IInv, Slots
  <2> QED BY <1>1, <1>5, <1>9, <2>1, <2>2 DEF IInv, Slots
<1> QED BY <1>7, <1>10, <1>11, <1>12 DEF IInv

\* A thread stays inside when worker_func returns.
LEMMA JobReturnsKeeps ==
  ASSUME IInv, NEW t \in Threads, JobReturns(t)
  PROVE  IInv'
<1>1. /\ pc[t] = "call" /\ Goto(t, "fetch")
      /\ UNCHANGED <<ctxVars, counterVars, wakeVars, localVars, callVars>>
  BY DEF JobReturns
<1>2. pc'[t] = "fetch" /\ \A u \in Threads \ {t} : pc'[u] = pc[u]
  BY <1>1, GotoMoves DEF IInv, Control
<1>3. TypeOK'
  <2>1. CounterTypes' /\ CallTypes'
    BY <1>1 DEF IInv, Control, TypeOK, CounterTypes, CallTypes,
                ctxVars, counterVars, callVars
  <2>2. ThreadTypes'
    BY <1>1 DEF IInv, Control, TypeOK, ThreadTypes, Goto, localVars, wakeVars
  <2> QED BY <1>1, <1>2, <2>1, <2>2 DEF IInv, Control, TypeOK, localVars, counterVars
<1>4. Control' /\ Busy' /\ Busy
  BY <1>1, <1>3, RunnerMoves, InBatch DEF IInv, counterVars
<1>5. Due' = Due
  <2>1. ASSUME NEW u \in Threads  PROVE Told(u)' <=> Told(u)
    BY <1>1, <1>2 DEF Told, wakeVars
  <2>2. pc'[Main] = "wake" <=> pc[Main] = "wake"
    BY <1>1, <1>2, ThreadSets
  <2>3. ASSUME NEW u \in Threads  PROVE u \in Due' <=> u \in Due
    BY <1>1, <1>2, <1>4, <2>1, <2>2 DEF Due, callVars
  <2> QED BY <2>3 DEF Due
<1>6. Inside' = Inside
  BY <1>1, <1>2 DEF Inside
<1>7. \A w \in Workers : pc'[w] = "last" <=> pc[w] = "last"
  BY <1>1, <1>2, ThreadSets
<1> QED BY <1>1, <1>4, <1>5, <1>6, <1>7, BatchKept DEF IInv, wakeVars, localVars

\* atomic_fetch_add(&ctx->current_job, 1) that finds a job.
LEMMA NextJobTakes ==
  ASSUME IInv, NEW t \in Threads, NextJob(t), HasJob(current_job)
  PROVE  IInv'
<1>1. /\ pc[t] = "fetch" /\ current_job' = current_job + 1 /\ current_job < nb_jobs
      /\ job' = [job EXCEPT ![t] = current_job] /\ Goto(t, "call")
      /\ UNCHANGED <<ctxVars, nb_active_threads, nb_jobs, first_job, wakeVars,
                     slot, callVars>>
  BY DEF NextJob, HasJob
<1>2. pc'[t] = "call" /\ \A u \in Threads \ {t} : pc'[u] = pc[u]
  BY <1>1, GotoMoves DEF IInv, Control
<1>3. Busy
  BY <1>1, InBatch DEF IInv
<1>4. TypeOK'
  <2>1. CounterTypes'
    BY <1>1, Types, Bounds DEF IInv, Control, TypeOK, CounterTypes
  <2>2. CallTypes'
    BY <1>1 DEF IInv, Control, TypeOK, CallTypes, ctxVars, callVars
  <2>3. ThreadTypes'
    <3>1. job' \in [Threads -> Nat]
      BY <1>1, Types DEF IInv, Control, TypeOK, ThreadTypes
    <3> QED BY <1>1, <3>1 DEF IInv, Control, TypeOK, ThreadTypes, Goto, wakeVars
  <2>4. ASSUME NEW u \in Threads, pc'[u] = "call"  PROVE job'[u] < nb_jobs'
    <3>1. job'[t] = current_job /\ (u # t => job'[u] = job[u] /\ pc'[u] = pc[u])
      BY <1>1, <1>2 DEF IInv, Control, TypeOK, ThreadTypes
    <3> QED BY <1>1, <2>4, <3>1 DEF IInv, Control, TypeOK
  <2> QED BY <2>1, <2>2, <2>3, <2>4 DEF TypeOK
<1>5. Control' /\ Busy'
  BY <1>1, <1>4, RunnerMoves DEF IInv
<1>6. Due' = Due
  <2>1. ASSUME NEW u \in Threads  PROVE Told(u)' <=> Told(u)
    BY <1>1, <1>2 DEF Told, wakeVars
  <2>2. pc'[Main] = "wake" <=> pc[Main] = "wake"
    BY <1>1, <1>2, ThreadSets
  <2>3. ASSUME NEW u \in Threads  PROVE u \in Due' <=> u \in Due
    BY <1>1, <1>2, <1>3, <1>5, <2>1, <2>2 DEF Due, callVars
  <2> QED BY <2>3 DEF Due
<1>7. Inside' = Inside
  BY <1>1, <1>2 DEF Inside
<1>8. Counts'
  <2>1. Left' = 0 /\ Left = 0
    BY <1>1, Types DEF Left, IInv, Control
  <2> QED BY <1>1, <1>3, <1>6, <1>7, <2>1, Types DEF IInv, Control, Counts
<1>9. Reports'
  <2>1. ASSUME NEW w \in Workers  PROVE pc'[w] = "last" <=> pc[w] = "last"
    BY <1>1, <1>2, ThreadSets
  <2>2. current_job # nb_jobs + nb_active_threads
    BY <1>1, Types DEF IInv, Control
  <2>3. ~ctx_done /\ \A w \in Workers : pc[w] # "last"
    BY <2>2 DEF IInv, Reports
  <2> QED BY <1>1, <2>1, <2>3 DEF Reports, wakeVars
<1>10. Slots'
  BY <1>1, <1>7 DEF IInv, Slots
<1> QED BY <1>5, <1>8, <1>9, <1>10 DEF IInv

\* atomic_fetch_add(&ctx->current_job, 1) that finds none: t leaves run_jobs.
LEMMA Leaving ==
  ASSUME IInv, NEW t \in Threads, NextJob(t), ~HasJob(current_job)
  PROVE  /\ pc[t] = "fetch" /\ Busy /\ t \in Inside /\ t \notin Due
         /\ current_job' = current_job + 1 /\ nb_jobs <= current_job
         /\ current_job < nb_jobs + nb_active_threads
         /\ UNCHANGED <<ctxVars, nb_active_threads, nb_jobs, first_job, wakeVars,
                        slot, job, callVars>>
         /\ ~ctx_done /\ \A w \in Workers : pc[w] # "last"
<1>1. /\ pc[t] = "fetch" /\ current_job' = current_job + 1 /\ nb_jobs <= current_job
      /\ UNCHANGED <<ctxVars, nb_active_threads, nb_jobs, first_job, wakeVars,
                     slot, job, callVars>>
  BY Types DEF NextJob, HasJob, IInv, Control
<1>2. Busy /\ t \in Inside /\ t \notin Due
  <2>1. Busy /\ t \in Inside
    BY <1>1, InBatch DEF IInv, Inside
  <2> QED BY <1>1, <2>1, ThreadSets, InBatch, Types DEF Due, Told, IInv, Control
<1>3. current_job < nb_jobs + nb_active_threads
  BY <1>2, SomeInside DEF IInv, Control
<1>4. current_job # nb_jobs + nb_active_threads
  BY <1>3, Types DEF IInv, Control
<1>5. ~ctx_done /\ \A w \in Workers : pc[w] # "last"
  BY <1>4 DEF IInv, Reports
<1> QED BY <1>1, <1>2, <1>3, <1>5

\* The type invariant survives a fetch that finds no job.
LEMMA LeavingTypes ==
  ASSUME IInv, NEW t \in Threads, NextJob(t), ~HasJob(current_job),
         NEW l \in {"ready", "await_done", "last", "loop"}, Goto(t, l)
  PROVE  TypeOK'
<1>1. CounterTypes'
  BY Leaving, Types, Bounds DEF IInv, Control, TypeOK, CounterTypes
<1>2. CallTypes'
  BY Leaving DEF IInv, Control, TypeOK, CallTypes, ctxVars, callVars
<1>3. ThreadTypes'
  BY Leaving DEF IInv, Control, TypeOK, ThreadTypes, Goto, wakeVars
<1>4. ASSUME NEW u \in Threads, pc'[u] = "call"  PROVE job'[u] < nb_jobs'
  BY <1>4, Leaving, GotoMoves DEF IInv, Control, TypeOK
<1> QED BY <1>1, <1>2, <1>3, <1>4 DEF TypeOK

\* Counting, when t has left run_jobs and the batch goes on.
LEMMA LeavingCounts ==
  ASSUME IInv, NEW t \in Threads, NextJob(t), ~HasJob(current_job),
         Due' = Due, Inside' = Inside \ {t}, Busy'
  PROVE  Counts' /\ Slots'
<1>1. Left' = Left + 1
  BY Leaving, Types DEF Left, IInv, Control
<1>2. Cardinality(Inside') = Cardinality(Inside) - 1
  BY Leaving, Counting, FS_RemoveElement DEF IInv, Control
<1>3. Counts'
  BY <1>1, <1>2, Leaving, Counting, Types DEF IInv, Control, Counts
<1>4. Slots'
  BY Leaving DEF IInv, Slots
<1> QED BY <1>3, <1>4

\* The last to leave is the only one who was left.
LEMMA LastIsAlone ==
  ASSUME IInv, NEW t \in Inside, Busy, current_job = nb_jobs + nb_active_threads - 1
  PROVE  Due = {} /\ Inside = {t} /\ first_job = nb_active_threads
<1>1. nb_active_threads >= 1
  BY DEF IInv, Control, CallState
<1>2. Left = nb_active_threads - 1
  BY <1>1, Types DEF Left, IInv, Control
<1>3. first_job = nb_active_threads
  BY <1>1, <1>2, SomeInside, Types DEF IInv, Control
<1>4. Cardinality(Due) = 0 /\ Cardinality(Inside) = 1
  BY <1>2, <1>3, Counting, Types DEF IInv, Control
<1> QED BY <1>3, <1>4, Counting, FS_EmptySet, FS_Singleton DEF IInv, Control

\* The caller finds no job left: it returns if it is the last, else waits.
LEMMA MainLeaves ==
  ASSUME IInv, NextJob(Main), ~HasJob(current_job)
  PROVE  IInv'
<1> DEFINE l == IF IsLast(current_job) THEN "ready" ELSE "await_done"
<1>1. Goto(Main, l)
  BY DEF NextJob
<1>2. pc'[Main] = l /\ \A w \in Workers : pc'[w] = pc[w]
  BY <1>1, GotoMoves, ThreadSets DEF IInv, Control
<1>3. TypeOK'
  BY <1>1, LeavingTypes, ThreadSets
<1>4. pc[Main] = "fetch" /\ Busy /\ Main \in Inside /\ Main \notin Due
      /\ ~ctx_done /\ ~ctx_done' /\ \A w \in Workers : pc[w] # "last"
  BY Leaving, ThreadSets DEF wakeVars
<1>5. NoMissedWakeup'
  BY <1>2, <1>4, Leaving, ThreadSets DEF IInv, Control, NoMissedWakeup, wakeVars
<1>6. CASE IsLast(current_job)
  <2>1. Due = {} /\ Inside = {Main}
    BY <1>4, <1>6, LastIsAlone DEF IsLast
  <2>2. \A w \in Workers : IF w < Created THEN AtRest(w) ELSE pc[w] = "none"
    BY <1>4, <2>1, WorkersAtRest DEF IInv
  <2> QED BY <1>2, <1>3, <1>4, <1>5, <1>6, <2>2, Leaving, ThreadSets, MainReturns
          DEF IInv, wakeVars
<1>7. CASE ~IsLast(current_job)
  <2>1. i = nb_workers
    BY <1>4 DEF IInv, Control, CallState
  <2>2. Control' /\ Busy'
    BY <1>2, <1>3, <1>4, <1>5, <1>7, <2>1, Leaving, ThreadSets, MainGoesOn
    DEF IInv, wakeVars
  <2>3. Due' = Due
    <3>1. \A w \in Workers : Told(w)' <=> Told(w)
      BY <1>2, Leaving, ThreadSets DEF Told, wakeVars
    <3>2. UNCHANGED <<i, nb_workers, execute_main>>
      BY Leaving, ThreadSets DEF callVars
    <3> QED BY <1>2, <1>4, <1>7, <2>2, <3>1, <3>2, ThreadSets DEF Due
  <2>4. Inside' = Inside \ {Main}
    BY <1>2, <1>7, ThreadSets DEF Inside
  <2>5. Counts' /\ Slots'
    BY <2>2, <2>3, <2>4, LeavingCounts, ThreadSets
  <2>6. Reports'
    BY <1>2, <1>4 DEF Reports
  <2> QED BY <2>2, <2>5, <2>6 DEF IInv
<1> QED BY <1>6, <1>7

\* A worker finds no job left: it reports if it is the last, else rests.
LEMMA WorkerLeaves ==
  ASSUME IInv, NEW w \in Workers, NextJob(w), ~HasJob(current_job)
  PROVE  IInv'
<1> DEFINE l == IF IsLast(current_job) THEN "last" ELSE "loop"
<1> w \in Threads /\ w # Main
  BY ThreadSets
<1>1. Goto(w, l)
  BY DEF NextJob
<1>2. pc'[w] = l /\ \A u \in Threads \ {w} : pc'[u] = pc[u]
  BY <1>1, GotoMoves DEF IInv, Control
<1>3. TypeOK'
  BY <1>1, LeavingTypes
<1>4. pc[w] = "fetch" /\ Busy /\ w \in Inside /\ w \notin Due
      /\ ~ctx_done /\ ~ctx_done' /\ \A v \in Workers : pc[v] # "last"
  BY Leaving DEF wakeVars
<1>5. UNCHANGED <<ctxVars, callVars, nb_active_threads, nb_jobs, sleeping, w_done, ctx_done>>
  BY Leaving DEF wakeVars
<1>6. NoMissedWakeup'
  BY <1>2, <1>4, <1>5, ThreadSets, MainStillAwaits DEF IInv, Control, NoMissedWakeup
<1>7. WorkerState(w)'
  <2>1. pc'[Main] = pc[Main] /\ i' = i /\ Created' = Created /\ w < i /\ w < Created
    BY <1>2, <1>4, <1>5, ThreadSets, InBatch DEF callVars, ctxVars, Created, IInv
  <2>2. w \in Int /\ Created \in Int
    BY ThreadSets, Types DEF IInv, Control, Created
  <2> QED BY <1>2, <1>4, <2>1, <2>2 DEF WorkerState, Busy, AtRest
<1>8. Control' /\ Busy'
  <2>1. pc'[w] \in WorkerLabels
    BY <1>2 DEF WorkerLabels
  <2> QED BY <1>2, <1>3, <1>4, <1>5, <1>6, <1>7, <2>1, WorkerMoves DEF IInv
<1>9. Due' = Due
  <2>1. ASSUME NEW u \in Threads  PROVE Told(u)' <=> Told(u)
    BY <1>2, <1>4, <1>5 DEF Told
  <2>2. pc'[Main] = pc[Main]
    BY <1>2, ThreadSets
  <2>3. ASSUME NEW u \in Threads  PROVE u \in Due' <=> u \in Due
    BY <1>2, <1>4, <1>5, <1>8, <2>1, <2>2 DEF Due, callVars
  <2> QED BY <2>3 DEF Due
<1>10. Inside' = Inside \ {w}
  BY <1>2 DEF Inside
<1>11. Counts' /\ Slots'
  BY <1>8, <1>9, <1>10, LeavingCounts
<1>12. Reports'
  <2>1. ASSUME NEW v \in Workers, pc'[v] = "last"  PROVE v = w /\ IsLast(current_job)
    BY <1>2, <1>4, <2>1, ThreadSets
  <2>2. IsLast(current_job) => current_job' = nb_jobs' + nb_active_threads'
    <3>1. /\ current_job' = current_job + 1 /\ nb_jobs' = nb_jobs
          /\ nb_active_threads' = nb_active_threads
      BY Leaving
    <3> QED BY <3>1, Types DEF IsLast, IInv, Control
  <2> QED BY <1>4, <1>8, <2>1, <2>2 DEF Reports
<1> QED BY <1>8, <1>11, <1>12 DEF IInv

\* The last worker sets ctx->done.
LEMMA WorkerReportsDoneKeeps ==
  ASSUME IInv, NEW w \in Workers, WorkerReportsDone(w)
  PROVE  IInv'
<1>1. /\ pc[w] = "last" /\ ctx_done' = TRUE /\ Goto(w, "loop")
      /\ sleeping' = IF pc[Main] = "await_done" THEN sleeping \ {Main} ELSE sleeping
      /\ UNCHANGED <<ctxVars, counterVars, w_done, localVars, callVars>>
  BY DEF WorkerReportsDone
<1>2. w \in Threads /\ w # Main
  BY ThreadSets
<1>3. pc'[w] = "loop" /\ \A u \in Threads \ {w} : pc'[u] = pc[u]
  BY <1>1, <1>2, GotoMoves DEF IInv, Control
<1>4. Busy /\ w < i /\ w < Created
  BY <1>1, <1>2, InBatch DEF IInv
<1>5. TypeOK'
  <2>1. sleeping' \subseteq Threads /\ w_done' \in [Workers -> BOOLEAN]
    BY <1>1 DEF IInv, Control, TypeOK, ThreadTypes
  <2> QED BY <1>1, <2>1, WorkerTypes DEF IInv, Control, WorkerLabels
<1>6. NoMissedWakeup'
  <2>1. pc'[Main] = pc[Main] /\ pc[Main] # "await_start"
    BY <1>3, <1>4, ThreadSets DEF Busy
  <2>2. Main \notin sleeping'
    BY <1>1, <2>1 DEF IInv, Control, NoMissedWakeup
  <2> QED BY <1>1, <1>3, <2>2, ThreadSets DEF IInv, Control, NoMissedWakeup
<1>7. WorkerState(w)'
  <2>1. pc'[Main] = pc[Main] /\ i' = i /\ Created' = Created
    BY <1>1, <1>3, ThreadSets DEF callVars, ctxVars, Created
  <2>2. w \in Int /\ Created \in Int
    BY ThreadSets, Types DEF IInv, Control, Created
  <2> QED BY <1>3, <1>4, <2>1, <2>2 DEF WorkerState, Busy, AtRest
<1>8. Control' /\ (Busy' <=> Busy)
  <2>1. pc'[w] \in WorkerLabels
    BY <1>3 DEF WorkerLabels
  <2> QED BY <1>1, <1>3, <1>5, <1>6, <1>7, <2>1, WorkerMoves DEF IInv, counterVars
<1>9. Due' = Due
  <2>1. ASSUME NEW u \in Threads  PROVE Told(u)' <=> Told(u)
    BY <1>1, <1>3 DEF Told
  <2>2. pc'[Main] = pc[Main]
    BY <1>3, ThreadSets
  <2>3. ASSUME NEW u \in Threads  PROVE u \in Due' <=> u \in Due
    BY <1>1, <1>3, <1>8, <2>1, <2>2 DEF Due, callVars
  <2> QED BY <2>3 DEF Due
<1>10. Inside' = Inside
  BY <1>1, <1>3 DEF Inside
<1>11. Counts' /\ Slots'
  BY <1>1, <1>4, <1>8, <1>9, <1>10 DEF IInv, Counts, Slots, Left, counterVars, localVars
<1>12. Reports'
  <2>1. current_job = nb_jobs + nb_active_threads /\ \A v \in Workers \ {w} : pc[v] # "last"
    BY <1>1 DEF IInv, Reports
  <2>2. \A v \in Workers : pc'[v] # "last"
    BY <1>3, <2>1, ThreadSets
  <2> QED BY <1>1, <1>4, <1>8, <2>1, <2>2 DEF Reports, counterVars
<1> QED BY <1>8, <1>11, <1>12 DEF IInv
-----------------------------------------------------------------------------
(* Every step keeps the invariant.                                         *)

\* Between batches the invariant is its control part.
LEMMA QuietlyKept ==
  ASSUME IInv, ~Busy, Control', ~Busy', ctx_done' = ctx_done
  PROVE  IInv'
<1>1. ~ctx_done
  BY DEF IInv, Reports
<1>2. (TypeOK /\ CallState /\ (\A w \in Workers : WorkerState(w)) /\ ~Busy /\ ~ctx_done
         => Counts /\ Reports /\ Slots)'
  BY QuietState, PTL
<1> QED BY <1>1, <1>2 DEF IInv, Control

\* What the calling program decides to do keeps the invariant.
LEMMA CallerKeeps ==
  ASSUME IInv, Caller
  PROVE  IInv'
<1>1. ASSUME NEW r \in Requests, NEW c \in CpuCounts, NEW m \in BOOLEAN,
             Create(r, c, m)
      PROVE  IInv'
  BY <1>1, CreateKeeps, QuietlyKept DEF Create, wakeVars, Busy, IInv
<1>2. CASE CreateNoMem
  BY <1>2, CreateNoMemKeeps, QuietlyKept DEF CreateNoMem, wakeVars, Busy, IInv
<1>3. ASSUME NEW n \in JobCounts, NEW m \in BOOLEAN, Execute(n, m)  PROVE IInv'
  BY <1>3, ExecuteKeeps
<1>4. CASE Free
  BY <1>4, FreeKeeps, QuietlyKept DEF Free, wakeVars, Busy, IInv
<1>5. CASE FreeNull
  BY <1>5, UnchangedKeeps DEF FreeNull
<1> QED BY <1>1, <1>2, <1>3, <1>4, <1>5 DEF Caller

\* A fetch from current_job keeps the invariant.
LEMMA NextJobKeeps ==
  ASSUME IInv, NEW t \in Threads, NextJob(t)
  PROVE  IInv'
  BY NextJobTakes, MainLeaves, WorkerLeaves, ThreadSets

\* The steps of API calls keep the invariant.
LEMMA MainStepKeeps ==
  ASSUME IInv, MainStep
  PROVE  IInv'
<1> USE DEF IInv, Busy, wakeVars
<1>1. CASE SpawnWorker
  BY <1>1, SpawnWorkerKeeps, QuietlyKept DEF SpawnWorker
<1>2. CASE SpawnFails
  BY <1>2, SpawnFailsKeeps, QuietlyKept DEF SpawnFails
<1>3. CASE AwaitStart
  BY <1>3, AwaitStartKeeps, QuietlyKept DEF AwaitStart
<1>4. CASE CreateReturns
  BY <1>4, CreateReturnsKeeps, QuietlyKept DEF CreateReturns
<1>5. CASE WakeWorker \/ EnterBatch \/ MainFuncReturns \/ AwaitDone
  BY <1>5, WakeWorkerKeeps, EnterBatchKeeps, MainFuncReturnsKeeps, AwaitDoneKeeps
<1>6. CASE FirstJob(Main) \/ JobReturns(Main) \/ NextJob(Main)
  BY <1>6, ThreadSets, FirstJobKeeps, JobReturnsKeeps, NextJobKeeps
<1>7. CASE StopWorker
  BY <1>7, StopWorkerKeeps, QuietlyKept DEF StopWorker
<1>8. CASE StartJoining
  BY <1>8, StartJoiningKeeps, QuietlyKept DEF StartJoining
<1>9. CASE JoinWorker
  BY <1>9, JoinWorkerKeeps, QuietlyKept DEF JoinWorker
<1>10. CASE FreeReturns
  BY <1>10, FreeReturnsKeeps, QuietlyKept DEF FreeReturns
<1> QED BY <1>1, <1>2, <1>3, <1>4, <1>5, <1>6, <1>7, <1>8, <1>9, <1>10 DEF MainStep

\* The steps of workers keep the invariant.
LEMMA WorkerStepKeeps ==
  ASSUME IInv, NEW w \in Workers, WorkerStep(w)
  PROVE  IInv'
<1>1. CASE WorkerStarts(w)
  <2>1. ~Busy
    <3>1. pc[w] = "lock" /\ WorkerState(w)
      BY <1>1 DEF WorkerStarts, IInv, Control
    <3> QED BY <3>1 DEF WorkerState, Busy, AtRest, Asleep, Told
  <2> QED BY <1>1, <2>1, WorkerStartsKeeps, QuietlyKept DEF WorkerStarts, IInv
<1>2. CASE WorkerIdles(w) \/ WorkerWakes(w) \/ WorkerReportsDone(w)
  BY <1>2, WorkerIdlesKeeps, WorkerWakesKeeps, WorkerReportsDoneKeeps
<1>3. CASE FirstJob(w) \/ JobReturns(w) \/ NextJob(w)
  BY <1>3, ThreadSets, FirstJobKeeps, JobReturnsKeeps, NextJobKeeps
<1> QED BY <1>1, <1>2, <1>3 DEF WorkerStep

\* IInv is inductive: for any numbers of threads, processors and jobs, no step
\* of the pool, of its callers or of the scheduler leaves it.
THEOREM InductiveInvariant == Spec => []IInv
<1>1. IInv /\ [Next]_vars => IInv'
  <2> SUFFICES ASSUME IInv, [Next]_vars PROVE IInv'
    OBVIOUS
  <2>1. ASSUME NEW w \in Workers, WorkerStep(w)  PROVE IInv'
    BY <2>1, WorkerStepKeeps
  <2>2. ASSUME NEW t \in Threads, SpuriousWakeup(t)  PROVE IInv'
    BY <2>2, SpuriousWakeupKeeps
  <2>3. CASE UNCHANGED vars
    BY <2>3, UnchangedKeeps
  <2> QED BY <2>1, <2>2, <2>3, CallerKeeps, MainStepKeeps DEF Next
<1> QED BY <1>1, InitIInv, PTL DEF Spec

\* TypeOK for all constants; no job number at or past nb_jobs is ever handed
\* to worker_func (slicethread.c:60-62).
THEOREM TypeCorrect == Spec => []TypeOK
<1>1. IInv => TypeOK
  BY DEF IInv, Control
<1> QED BY <1>1, InductiveInvariant, PTL

\* NoMissedWakeup for all constants: no thread sleeps on past what it waits for.
THEOREM WakeupsAreNotMissed == Spec => []NoMissedWakeup
<1>1. IInv => NoMissedWakeup
  BY DEF IInv, Control
<1> QED BY <1>1, InductiveInvariant, PTL

\* DoneMeansOver for all constants: ctx->done is set only when every thread of
\* the batch has left run_jobs, and by one thread only.
THEOREM DoneIsOver == Spec => []DoneMeansOver
<1>1. ASSUME IInv, ctx_done
      PROVE  /\ current_job = nb_jobs + nb_active_threads
             /\ InRunJobs = {}
             /\ pc[Main] \in {"main_func", "await_done", "wake"}
  <2>1. Busy /\ current_job = nb_jobs + nb_active_threads
        /\ \A w \in Workers : pc[w] # "last"
    BY <1>1 DEF IInv, Reports
  <2>2. Due = {} /\ Inside = {}
    BY <1>1, <2>1, AllOver DEF IInv, Control
  <2>3. ASSUME NEW t \in Threads, pc[t] \in {"run", "call", "fetch", "last"}
        PROVE  FALSE
    <3>1. t = Main
      BY <2>1, <2>2, <2>3, ThreadSets DEF Due, Inside
    <3> QED BY <2>1, <2>2, <2>3, <3>1, ThreadSets DEF Due, Inside, Busy
  <2> QED BY <2>1, <2>3, ThreadSets DEF InRunJobs, Busy
<1>2. ASSUME IInv  PROVE Cardinality({t \in Threads : pc[t] = "last"}) <= 1
  <2> DEFINE L == {t \in Threads : pc[t] = "last"}
  <2>1. pc[Main] # "last"
    BY <1>2 DEF IInv, Control, CallState, MainLabels
  <2>2. \A t, u \in L : t = u
    BY <1>2, <2>1, ThreadSets DEF IInv, Reports
  <2>3. L = {} \/ \E t : L = {t}
    BY <2>2
  <2>4. L = {} => Cardinality(L) = 0
    BY FS_EmptySet
  <2>5. ASSUME NEW t, L = {t}  PROVE Cardinality(L) = 1
    BY <2>5, FS_Singleton
  <2> QED BY <2>3, <2>4, <2>5
<1>3. IInv => DoneMeansOver
  BY <1>1, <1>2 DEF DoneMeansOver
<1> QED BY <1>3, InductiveInvariant, PTL

\* TeardownAfterExit for all constants: what free destroys, no thread uses.
THEOREM TeardownIsAfterExit == Spec => []TeardownAfterExit
<1>1. ASSUME IInv  PROVE TeardownAfterExit
  <2>1. ASSUME pc[Main] = "join", NEW w \in 0 .. (i - 1)  PROVE pc[w] = "exited"
    <3>1. w \in Workers /\ w < i /\ w < Created /\ w \in Int /\ i \in Int
      BY <1>1, <2>1, ThreadSets, Types, Bounds DEF IInv, Control, CallState
    <3>2. WorkerState(w)
      BY <1>1, <3>1 DEF IInv, Control
    <3> QED BY <1>1, <2>1, <3>1, <3>2, Types DEF WorkerState, IInv, Control, Created
  <2>2. ASSUME pc[Main] = "freed", NEW w \in Workers  PROVE pc[w] \in {"none", "exited"}
    BY <1>1, <2>2 DEF IInv, Control, WorkerState
  <2> QED BY <2>1, <2>2 DEF TeardownAfterExit
<1> QED BY <1>1, InductiveInvariant, PTL

\* CountersReusedWhenIdle for all constants: no step rewrites the counters of a
\* batch while a thread is inside run_jobs.
THEOREM CountersAreReusedWhenIdle == Spec => CountersReusedWhenIdle
<1>1. ASSUME IInv, [Next]_vars
      PROVE  [(current_job' < current_job \/ nb_jobs' # nb_jobs) => InRunJobs = {}]_vars
  <2>1. ASSUME NEW n \in JobCounts, NEW m \in BOOLEAN, Execute(n, m)
        PROVE  InRunJobs = {}
    <3>1. pc[Main] = "ready"
      BY <2>1 DEF Execute
    <3>2. \A w \in Workers : WorkerState(w)
      BY <1>1 DEF IInv, Control
    <3> QED BY <3>1, <3>2, ThreadSets DEF InRunJobs, WorkerState, AtRest, Asleep
  <2>2. ASSUME NEW t \in Threads, NextJob(t)
        PROVE  nb_jobs' = nb_jobs /\ ~(current_job' < current_job)
    BY <1>1, <2>2, Types DEF NextJob, IInv, Control
  <2>3. ASSUME NEW t \in Threads, FirstJob(t) \/ JobReturns(t)
        PROVE  nb_jobs' = nb_jobs /\ current_job' = current_job
    BY <2>3 DEF FirstJob, JobReturns, counterVars
  <2>4. CASE \E n \in JobCounts, m \in BOOLEAN : Execute(n, m)
    BY <2>1, <2>4
  <2>5. CASE UNCHANGED <<nb_jobs, current_job>>
    BY <1>1, <2>5, Types DEF IInv, Control
  <2>6. CASE \E t \in Threads : NextJob(t) \/ FirstJob(t) \/ JobReturns(t)
    BY <1>1, <2>2, <2>3, <2>6, Types DEF IInv, Control
  <2>7. CASE UNCHANGED vars
    BY <2>7
  <2>8. Next => \/ \E n \in JobCounts, m \in BOOLEAN : Execute(n, m)
                \/ \E t \in Threads : NextJob(t) \/ FirstJob(t) \/ JobReturns(t)
                \/ UNCHANGED <<nb_jobs, current_job>>
    <3> USE DEF counterVars
    <3>1. Caller => \/ \E n \in JobCounts, m \in BOOLEAN : Execute(n, m)
                    \/ UNCHANGED <<nb_jobs, current_job>>
      BY DEF Caller, Create, CreateNoMem, Free, FreeNull, vars
    <3>2. MainStep => \/ NextJob(Main) \/ FirstJob(Main) \/ JobReturns(Main)
                      \/ UNCHANGED <<nb_jobs, current_job>>
      BY DEF MainStep, SpawnWorker, SpawnFails, AwaitStart, CreateReturns, WakeWorker,
             EnterBatch, MainFuncReturns, AwaitDone, StopWorker, StartJoining,
             JoinWorker, FreeReturns
    <3>3. ASSUME NEW w \in Workers, WorkerStep(w)
          PROVE  \/ NextJob(w) \/ FirstJob(w) \/ JobReturns(w)
                 \/ UNCHANGED <<nb_jobs, current_job>>
      BY <3>3 DEF WorkerStep, WorkerStarts, WorkerIdles, WorkerWakes, WorkerReportsDone
    <3>4. ASSUME NEW t \in Threads, SpuriousWakeup(t)
          PROVE  UNCHANGED <<nb_jobs, current_job>>
      BY <3>4 DEF SpuriousWakeup
    <3> QED BY <3>1, <3>2, <3>3, <3>4, ThreadSets DEF Next
  <2> QED BY <1>1, <2>4, <2>5, <2>6, <2>7, <2>8
<1> QED BY <1>1, InductiveInvariant, PTL DEF Spec, CountersReusedWhenIdle
-----------------------------------------------------------------------------
(***************************************************************************)
(* Every step of SliceThread is a step of ParallelFor or changes nothing   *)
(* of it, for all values of the constants: the safety half of              *)
(* ImplementsParallelFor.  Its fairness half is left to TLC.               *)
(***************************************************************************)

\* A step of ParallelFor, or one that changes nothing of it.
PFStep == PF!Next \/ UNCHANGED PF!vars

\* Between batches ParallelFor is in its initial state.
LEMMA QuietView ==
  IInv /\ ~Busy =>
      PF!vars = <<"idle", 0, {}, {}, "no">>
<1> SUFFICES ASSUME IInv, ~Busy  PROVE PF!vars = <<"idle", 0, {}, {}, "no">>
  OBVIOUS
<1>1. ASSUME NEW t \in Threads  PROVE pc[t] # "call"
  BY InBatch DEF IInv
<1>2. {<<slot[t], job[t]>> : t \in {u \in Threads : pc[u] = "call"}} = {}
  BY <1>1
<1> QED BY <1>2 DEF PF!vars

\* A step between batches is none of ParallelFor.
LEMMA QuietStutters ==
  ASSUME IInv, IInv', ~Busy, ~Busy'
  PROVE  UNCHANGED PF!vars
<1>1. (IInv /\ ~Busy => PF!vars = <<"idle", 0, {}, {}, "no">>)'
  BY QuietView, PTL
<1> QED BY <1>1, QuietView

\* A step that changes neither who runs which job nor the view of the call.
LEMMA Stutters ==
  ASSUME UNCHANGED <<nb_active_threads, nb_jobs, first_job, slot, job, execute_main>>,
         Busy, Busy',
         current_job' = current_job \/ (nb_jobs <= current_job /\ nb_jobs <= current_job'),
         nb_jobs \in Nat, current_job \in Nat, current_job' \in Nat,
         \A t \in Threads : pc'[t] = "call" <=> pc[t] = "call",
         execute_main => (pc'[Main] = "wake" <=> pc[Main] = "wake")
                         /\ (pc'[Main] = "main_func" <=> pc[Main] = "main_func")
  PROVE  UNCHANGED PF!vars
<1>1. {u \in Threads : pc'[u] = "call"} = {u \in Threads : pc[u] = "call"}
  OBVIOUS
<1>2. current_job' .. (nb_jobs' - 1) = current_job .. (nb_jobs - 1)
  OBVIOUS
<1> QED BY <1>1, <1>2 DEF PF!vars

\* A thread calls worker_func: it did not run a job, and now runs one.
LEMMA RunningGrows ==
  ASSUME IInv, NEW t \in Threads, pc[t] # "call", pc'[t] = "call",
         \A u \in Threads \ {t} : pc'[u] = pc[u] /\ slot'[u] = slot[u] /\ job'[u] = job[u]
  PROVE  {<<slot'[u], job'[u]>> : u \in {v \in Threads : pc'[v] = "call"}}
           = {<<slot[u], job[u]>> : u \in {v \in Threads : pc[v] = "call"}}
                \union {<<slot'[t], job'[t]>>}
<1>1. {v \in Threads : pc'[v] = "call"} = {v \in Threads : pc[v] = "call"} \union {t}
  OBVIOUS
<1>2. t \notin {v \in Threads : pc[v] = "call"}
  OBVIOUS
<1> QED BY <1>1, <1>2

\* execute begins a call of ParallelFor.
LEMMA ExecuteBegins ==
  ASSUME IInv, IInv', NEW n \in JobCounts, NEW m \in BOOLEAN, Execute(n, m)
  PROVE  PF!Next
<1> DEFINE k == MinOf(n, nb_threads)
           d == IF execute_main' THEN "due" ELSE "no"
<1>1. /\ pc[Main] = "ready" /\ ~Busy /\ nb_threads \in Nat /\ nb_threads >= 1
      /\ n \in Nat \ {0}
  BY Bounds DEF Execute, Busy, IInv, Control, CallState, TypeOK, CallTypes
<1>2. k \in 1 .. n /\ k \in Nat
  BY <1>1 DEF MinOf
<1>3. pc'[Main] = "wake" /\ \A u \in Threads \ {Main} : pc'[u] = pc[u]
  BY GotoMoves, ThreadSets DEF Execute, IInv, Control
<1>4. nb_active_threads' = k /\ nb_jobs' = n /\ first_job' = 0 /\ current_job' = k
      /\ slot' = slot /\ job' = job
  BY DEF Execute, localVars
<1>5. Busy'
  BY <1>3 DEF Busy
<1>6. (first_job' .. (nb_active_threads' - 1)) \union (current_job' .. (nb_jobs' - 1))
        = 0 .. (n - 1)
  BY <1>1, <1>2, <1>4
<1>7. ASSUME NEW t \in Threads  PROVE pc[t] # "call" /\ pc'[t] # "call"
  BY <1>1, <1>3, InBatch DEF IInv
<1>8. {<<slot[t], job[t]>> : t \in {u \in Threads : pc[u] = "call"}} = {}
      /\ {<<slot'[t], job'[t]>> : t \in {u \in Threads : pc'[u] = "call"}} = {}
  BY <1>7
<1>9. d \in {"no", "due"}
  OBVIOUS
<1> HIDE DEF k
<1>10. PF!Begin(n, k, d)
  BY <1>1, <1>3, <1>4, <1>5, <1>6, <1>8 DEF PF!Begin
<1> QED BY <1>2, <1>9, <1>10 DEF PF!Next

\* Starting a pending job is a step of ParallelFor.
LEMMA StartsAJob ==
  ASSUME NEW s \in Workers, Busy,
         NEW j \in (first_job .. (nb_active_threads - 1)) \union (current_job .. (nb_jobs - 1)),
         PF!StartJob(s, j)
  PROVE  PF!Next
<1>1. PF!Work
  BY DEF PF!Work
<1> QED BY <1>1 DEF PF!Next

\* The first job of a thread starts a job of ParallelFor.
LEMMA FirstJobStarts ==
  ASSUME IInv, IInv', NEW t \in Threads, FirstJob(t)
  PROVE  PF!Next
<1>1. /\ pc[t] = "run" /\ Goto(t, "call") /\ first_job' = first_job + 1
      /\ slot' = [slot EXCEPT ![t] = first_job] /\ job' = [job EXCEPT ![t] = first_job]
      /\ UNCHANGED <<nb_active_threads, nb_jobs, current_job, execute_main>>
  BY DEF FirstJob, callVars
<1>2. pc'[t] = "call" /\ \A u \in Threads \ {t} : pc'[u] = pc[u]
  BY <1>1, GotoMoves DEF IInv, Control
<1>3. Busy /\ Busy' /\ t \in Due
  BY <1>1, <1>2, ThreadSets, InBatch DEF IInv, Due, Busy
<1>4. first_job < nb_active_threads /\ nb_active_threads <= current_job
      /\ first_job \in Workers /\ first_job \in Nat /\ nb_active_threads \in Nat
      /\ current_job \in Nat /\ nb_jobs \in Nat
  <2>1. TypeOK /\ Counts /\ Busy
    BY <1>3 DEF IInv, Control
  <2>2. /\ first_job \in Nat /\ nb_active_threads \in Nat /\ current_job \in Nat /\ nb_jobs \in Nat
        /\ nb_active_threads \in 0 .. MaxWorkers
    BY <2>1, Types DEF TypeOK, CounterTypes
  <2>3. first_job < nb_active_threads
    BY <1>3, <2>1, SomeDue, Zenon
  <2>4. nb_active_threads <= current_job
    BY <2>1 DEF Counts
  <2>5. first_job \in Workers
    BY <2>2, <2>3, ThreadSets
  <2> QED BY <2>2, <2>3, <2>4, <2>5
<1>5. slot'[t] = first_job /\ job'[t] = first_job
      /\ \A u \in Threads \ {t} : slot'[u] = slot[u] /\ job'[u] = job[u]
  BY <1>1 DEF IInv, Control, TypeOK, ThreadTypes
<1> DEFINE running == {<<slot[u], job[u]>> : u \in {v \in Threads : pc[v] = "call"}}
           pending == (first_job .. (nb_active_threads - 1))
                        \union (current_job .. (nb_jobs - 1))
<1>6. running' = running \union {<<first_job, first_job>>}
  BY <1>1, <1>2, <1>5, RunningGrows
<1>7. pending' = pending \ {first_job} /\ first_job \in pending
  BY <1>1, <1>4
<1>8. \A r \in running : r[1] # first_job
  <2>1. ASSUME NEW u \in Threads, pc[u] = "call"  PROVE slot[u] # first_job
    BY <1>4, <2>1 DEF IInv, Slots, Inside, Control, TypeOK, ThreadTypes
  <2> QED BY <2>1
<1>9. \/ ~execute_main
      \/ /\ pc'[Main] # "wake" /\ pc[Main] # "wake"
         /\ pc'[Main] = "main_func" <=> pc[Main] = "main_func"
      \/ pc'[Main] = pc[Main]
  BY <1>1, <1>2, <1>3, ThreadSets DEF IInv, Control, CallState
<1>10. PICK s \in Workers, j \in pending : s = first_job /\ j = first_job
  BY <1>4, <1>7
<1> HIDE DEF running, pending
<1>11. PF!StartJob(s, j)
  BY <1>1, <1>3, <1>4, <1>6, <1>7, <1>8, <1>9, <1>10 DEF PF!StartJob, running, pending
<1> QED BY <1>3, <1>11, StartsAJob DEF pending

\* A later job of a thread starts a job of ParallelFor.
LEMMA NextJobStarts ==
  ASSUME IInv, IInv', NEW t \in Threads, NextJob(t), HasJob(current_job)
  PROVE  PF!Next
<1>1. /\ pc[t] = "fetch" /\ Goto(t, "call") /\ current_job' = current_job + 1
      /\ current_job < nb_jobs /\ job' = [job EXCEPT ![t] = current_job]
      /\ UNCHANGED <<nb_active_threads, nb_jobs, first_job, slot, execute_main>>
  BY DEF NextJob, HasJob, callVars
<1>2. pc'[t] = "call" /\ \A u \in Threads \ {t} : pc'[u] = pc[u]
  BY <1>1, GotoMoves DEF IInv, Control
<1>3. Busy /\ Busy' /\ t \in Inside
  BY <1>1, <1>2, ThreadSets, InBatch DEF IInv, Inside, Busy
<1>4. first_job <= nb_active_threads /\ nb_active_threads <= current_job
      /\ first_job \in Nat /\ nb_active_threads \in Nat
      /\ current_job \in Nat /\ nb_jobs \in Nat
  BY <1>3, SomeInside, Types DEF IInv, Control, Counts
<1>5. slot[t] \in Workers /\ slot[t] < nb_active_threads
  <2>1. slot[t] \in Workers
    BY ThreadSets DEF IInv, Control, TypeOK, ThreadTypes
  <2>2. slot[t] < first_job
    BY <1>3 DEF IInv, Slots
  <2> QED BY <1>4, <2>1, <2>2, ThreadSets
<1>6. job'[t] = current_job /\ slot'[t] = slot[t]
      /\ \A u \in Threads \ {t} : slot'[u] = slot[u] /\ job'[u] = job[u]
  BY <1>1 DEF IInv, Control, TypeOK, ThreadTypes
<1> DEFINE running == {<<slot[u], job[u]>> : u \in {v \in Threads : pc[v] = "call"}}
           pending == (first_job .. (nb_active_threads - 1))
                        \union (current_job .. (nb_jobs - 1))
<1>7. running' = running \union {<<slot[t], current_job>>}
  BY <1>1, <1>2, <1>6, RunningGrows
<1>8. pending' = pending \ {current_job} /\ current_job \in pending
  BY <1>1, <1>4
<1>9. \A r \in running : r[1] # slot[t]
  <2>1. ASSUME NEW u \in Threads, pc[u] = "call"  PROVE slot[u] # slot[t]
    BY <1>1, <1>3, <2>1 DEF IInv, Slots, Inside
  <2> QED BY <2>1
<1>10. ~execute_main \/ pc'[Main] = pc[Main]
  BY <1>1, <1>2, <1>3, ThreadSets DEF IInv, Control, CallState
<1>11. PICK s \in Workers, j \in pending : s = slot[t] /\ j = current_job
  BY <1>5, <1>8
<1> HIDE DEF running, pending
<1>12. PF!StartJob(s, j)
  BY <1>1, <1>3, <1>4, <1>5, <1>7, <1>8, <1>9, <1>10, <1>11
  DEF PF!StartJob, running, pending
<1> QED BY <1>3, <1>12, StartsAJob DEF pending

\* worker_func returns: a job of ParallelFor is finished.
LEMMA JobReturnsFinishes ==
  ASSUME IInv, IInv', NEW t \in Threads, JobReturns(t)
  PROVE  PF!Next
<1>1. /\ pc[t] = "call" /\ Goto(t, "fetch")
      /\ UNCHANGED <<nb_active_threads, nb_jobs, first_job, current_job, slot, job,
                     execute_main>>
  BY DEF JobReturns, counterVars, localVars, callVars
<1>2. pc'[t] = "fetch" /\ \A u \in Threads \ {t} : pc'[u] = pc[u]
  BY <1>1, GotoMoves DEF IInv, Control
<1>3. Busy /\ Busy' /\ t \in Inside
  BY <1>1, <1>2, ThreadSets, InBatch DEF IInv, Inside, Busy
<1> DEFINE running == {<<slot[u], job[u]>> : u \in {v \in Threads : pc[v] = "call"}}
<1>4. PICK r \in running : r = <<slot[t], job[t]>>
  BY <1>1
<1>5. ASSUME NEW u \in Threads, pc[u] = "call", u # t  PROVE <<slot[u], job[u]>> # r
  BY <1>1, <1>4, <1>5 DEF IInv, Slots, Inside
<1>6. running' = running \ {r}
  <2>1. ASSUME NEW x \in running'  PROVE x \in running \ {r}
    <3>1. PICK u \in Threads : pc'[u] = "call" /\ x = <<slot[u], job[u]>>
      BY <1>1, <2>1
    <3>2. u # t /\ pc[u] = "call"
      BY <1>2, <3>1
    <3> QED BY <1>5, <3>1, <3>2
  <2>2. ASSUME NEW x \in running \ {r}  PROVE x \in running'
    <3>1. PICK u \in Threads : pc[u] = "call" /\ x = <<slot[u], job[u]>>
      BY <2>2
    <3>2. u # t
      BY <1>4, <2>2, <3>1
    <3>3. pc'[u] = "call" /\ x = <<slot'[u], job'[u]>>
      BY <1>1, <1>2, <3>1, <3>2
    <3> QED BY <3>3
  <2> QED BY <2>1, <2>2
<1>7. ~execute_main \/ pc'[Main] = pc[Main]
  BY <1>1, <1>2, <1>3, ThreadSets DEF IInv, Control, CallState
<1> HIDE DEF running
<1>8. PF!FinishJob(r)
  BY <1>1, <1>3, <1>4, <1>6, <1>7 DEF PF!FinishJob, running
<1>9. PF!Work
  BY <1>4, <1>8 DEF PF!Work, running
<1> QED BY <1>9 DEF PF!Next

\* execute returns: the call of ParallelFor ends.
LEMMA CallEnds ==
  ASSUME IInv, IInv', Busy, ~Busy', Due = {}, Inside \subseteq {Main},
         \A t \in Threads : pc[t] # "call",
         first_job = nb_active_threads, nb_jobs <= current_job,
         pc[Main] \notin {"wake", "main_func"}
  PROVE  PF!Next
<1>1. (IInv /\ ~Busy => PF!vars = <<"idle", 0, {}, {}, "no">>)'
  BY QuietView, PTL
<1>2. first_job .. (nb_active_threads - 1) = {} /\ current_job .. (nb_jobs - 1) = {}
  BY Types DEF IInv, Control
<1>3. {<<slot[t], job[t]>> : t \in {u \in Threads : pc[u] = "call"}} = {}
  OBVIOUS
<1>4. PF!End
  BY <1>1, <1>2, <1>3 DEF PF!End, PF!vars
<1> QED BY <1>4 DEF PF!Next, PF!Work

\* A step of the caller between calls of worker_func, before main_func or after.
LEMMA MainTurns ==
  ASSUME UNCHANGED <<nb_active_threads, nb_jobs, first_job, current_job, slot, job,
                     execute_main>>,
         Busy, Busy', \A t \in Threads : pc'[t] = "call" <=> pc[t] = "call"
  PROVE  /\ ~execute_main \/ pc'[Main] = pc[Main] => UNCHANGED PF!vars
         /\ execute_main /\ pc[Main] = "wake" /\ pc'[Main] = "main_func" => PF!StartMain
         /\ execute_main /\ pc[Main] = "main_func" /\ pc'[Main] = "await_done" => PF!FinishMain
<1> DEFINE running == {<<slot[u], job[u]>> : u \in {v \in Threads : pc[v] = "call"}}
           pending == (first_job .. (nb_active_threads - 1))
                        \union (current_job .. (nb_jobs - 1))
<1>1. {u \in Threads : pc'[u] = "call"} = {u \in Threads : pc[u] = "call"}
  OBVIOUS
<1>2. running' = running /\ pending' = pending
  BY <1>1
<1>3. UNCHANGED <<nb_active_threads, execute_main>>
  OBVIOUS
<1> HIDE DEF running, pending
<1>4. ~execute_main \/ pc'[Main] = pc[Main] => UNCHANGED PF!vars
  BY <1>2, <1>3 DEF PF!vars, running, pending
<1>5. execute_main /\ pc[Main] = "wake" /\ pc'[Main] = "main_func" => PF!StartMain
  BY <1>2, <1>3 DEF PF!StartMain, running, pending
<1>6. execute_main /\ pc[Main] = "main_func" /\ pc'[Main] = "await_done" => PF!FinishMain
  BY <1>2, <1>3 DEF PF!FinishMain, running, pending
<1> QED BY <1>4, <1>5, <1>6

\* main_func is called and returns.
LEMMA MainFuncSteps ==
  ASSUME IInv, IInv', EnterBatch \/ MainFuncReturns
  PROVE  PFStep
<1>1. UNCHANGED <<nb_active_threads, nb_jobs, first_job, current_job, slot, job,
                  execute_main>>
  BY DEF EnterBatch, MainFuncReturns, counterVars, localVars, callVars
<1>2. CASE EnterBatch
  <2>1. pc[Main] = "wake" /\ \A u \in Threads \ {Main} : pc'[u] = pc[u]
    BY <1>2, GotoMoves, ThreadSets DEF EnterBatch, IInv, Control
  <2>2. pc'[Main] = IF execute_main THEN "main_func" ELSE "run"
    BY <1>2, GotoMoves, ThreadSets DEF EnterBatch, IInv, Control
  <2>3. Busy /\ Busy' /\ \A t \in Threads : pc'[t] = "call" <=> pc[t] = "call"
    BY <2>1, <2>2, ThreadSets DEF Busy
  <2>4. PF!StartMain \/ UNCHANGED PF!vars
    BY <1>1, <2>1, <2>2, <2>3, MainTurns
  <2> QED BY <2>4 DEF PFStep, PF!Next, PF!Work
<1>3. CASE MainFuncReturns
  <2>1. /\ pc[Main] = "main_func" /\ pc'[Main] = "await_done" /\ execute_main
        /\ \A u \in Threads \ {Main} : pc'[u] = pc[u]
    BY <1>3, GotoMoves, ThreadSets DEF MainFuncReturns, IInv, Control, CallState
  <2>2. Busy /\ Busy' /\ \A t \in Threads : pc'[t] = "call" <=> pc[t] = "call"
    BY <2>1, ThreadSets DEF Busy
  <2>3. PF!FinishMain
    BY <1>1, <2>1, <2>2, MainTurns
  <2> QED BY <2>3 DEF PFStep, PF!Next, PF!Work
<1> QED BY <1>2, <1>3

\* Steps that neither take nor finish a job, nor begin or end the call.
LEMMA PassiveSteps ==
  ASSUME IInv, IInv', Busy, Busy',
         UNCHANGED <<nb_active_threads, nb_jobs, first_job, current_job, slot, job,
                     execute_main>>,
         pc'[Main] = pc[Main], \A t \in Threads : pc'[t] = "call" <=> pc[t] = "call"
  PROVE  PFStep
  BY MainTurns DEF PFStep

\* The caller waits on done_cond, or leaves execute once ctx->done is set.
LEMMA AwaitDoneSteps ==
  ASSUME IInv, IInv', AwaitDone
  PROVE  PFStep
<1>1. /\ pc[Main] = "await_done" /\ Busy
      /\ UNCHANGED <<nb_active_threads, nb_jobs, first_job, current_job, slot, job,
                     execute_main>>
  BY DEF AwaitDone, counterVars, localVars, callVars, Busy
<1>2. CASE ctx_done
  <2>1. pc'[Main] = "ready" /\ \A u \in Threads \ {Main} : pc'[u] = pc[u]
    BY <1>2, GotoMoves, ThreadSets DEF AwaitDone, IInv, Control
  <2>2. Due = {} /\ Inside = {} /\ first_job = nb_active_threads
        /\ current_job = nb_jobs + nb_active_threads
    BY <1>1, <1>2, AllOver DEF IInv, Control, Reports
  <2>3. nb_jobs <= current_job
    BY <2>2, Types DEF IInv, Control
  <2>4. ~Busy'
    BY <2>1 DEF Busy
  <2>5. \A t \in Threads : pc[t] # "call"
    BY <2>2 DEF Inside
  <2> QED BY <1>1, <2>2, <2>3, <2>4, <2>5, CallEnds DEF PFStep
<1>3. CASE ~ctx_done
  <2>1. pc' = pc
    BY <1>3 DEF AwaitDone
  <2>2. Busy' /\ \A t \in Threads : pc'[t] = "call" <=> pc[t] = "call"
    BY <1>1, <2>1 DEF Busy
  <2> QED BY <1>1, <2>1, <2>2, PassiveSteps
<1> QED BY <1>2, <1>3

\* A thread finds no job left: the call of ParallelFor ends if it is the caller
\* and the last; otherwise nothing is seen of it.
LEMMA LastFetch ==
  ASSUME IInv, IInv', NEW t \in Threads, NextJob(t), ~HasJob(current_job)
  PROVE  PFStep
<1>1. /\ pc[t] = "fetch" /\ Busy /\ t \in Inside /\ nb_jobs <= current_job
      /\ current_job' = current_job + 1
      /\ UNCHANGED <<nb_active_threads, nb_jobs, first_job, slot, job, execute_main>>
      /\ nb_jobs \in Nat /\ current_job \in Nat
  BY Leaving, Types DEF NextJob, HasJob, IInv, Control, callVars
<1>2. PICK l \in {"ready", "await_done", "last", "loop"} :
        /\ Goto(t, l)
        /\ l = "ready" <=> t = Main /\ IsLast(current_job)
        /\ l = "await_done" => t = Main
        /\ l \in {"last", "loop"} => t # Main
  BY DEF NextJob
<1>3. pc'[t] = l /\ \A u \in Threads \ {t} : pc'[u] = pc[u]
  BY <1>2, GotoMoves DEF IInv, Control
<1>4. CASE l = "ready"
  <2>1. t = Main /\ current_job = nb_jobs + nb_active_threads - 1
    BY <1>2, <1>4 DEF IsLast
  <2>2. Due = {} /\ Inside = {t} /\ first_job = nb_active_threads
    BY <1>1, <2>1, LastIsAlone
  <2>3. ~Busy'
    BY <1>3, <1>4, <2>1 DEF Busy
  <2>4. \A u \in Threads : pc[u] # "call"
    BY <1>1, <2>2 DEF Inside
  <2> QED BY <1>1, <2>1, <2>2, <2>3, <2>4, CallEnds DEF PFStep
<1>5. CASE l # "ready"
  <2>1. Busy'
    BY <1>1, <1>2, <1>3, <1>5, ThreadSets DEF Busy
  <2>2. \A u \in Threads : pc'[u] = "call" <=> pc[u] = "call"
    BY <1>1, <1>3, <1>2
  <2>3. execute_main => (pc'[Main] = "wake" <=> pc[Main] = "wake")
                        /\ (pc'[Main] = "main_func" <=> pc[Main] = "main_func")
    BY <1>1, <1>2, <1>3, ThreadSets
  <2>4. nb_jobs <= current_job' /\ current_job' \in Nat
    BY <1>1
  <2>5. UNCHANGED PF!vars
    BY <1>1, <2>1, <2>2, <2>3, <2>4, Stutters
  <2> QED BY <2>5 DEF PFStep
<1> QED BY <1>4, <1>5

\* A worker that starts, sleeps, wakes or reports is not seen.
LEMMA WorkerPasses ==
  ASSUME IInv, IInv', NEW w \in Workers,
         WorkerStarts(w) \/ WorkerIdles(w) \/ WorkerWakes(w) \/ WorkerReportsDone(w)
  PROVE  PFStep
<1>1. /\ UNCHANGED <<nb_active_threads, nb_jobs, first_job, current_job, slot, job,
                     execute_main>>
      /\ pc[w] # "call"
  BY DEF WorkerStarts, WorkerIdles, WorkerWakes, WorkerReportsDone, counterVars,
         localVars, callVars
<1>2. PICK l \in WorkerLabels \ {"call"} : pc' = pc \/ Goto(w, l)
  <2>1. CASE WorkerStarts(w) \/ WorkerIdles(w) \/ WorkerReportsDone(w)
    BY <2>1 DEF WorkerStarts, WorkerIdles, WorkerReportsDone, WorkerLabels
  <2>2. CASE WorkerWakes(w)
    BY <2>2 DEF WorkerWakes, WorkerLabels
  <2> QED BY <2>1, <2>2
<1>3. /\ pc'[w] # "call"
      /\ \A u \in Threads \ {w} : pc'[u] = pc[u]
  BY <1>1, <1>2, GotoMoves, ThreadSets DEF IInv, Control
<1>4. pc'[Main] = pc[Main] /\ \A t \in Threads : pc'[t] = "call" <=> pc[t] = "call"
  BY <1>1, <1>3, ThreadSets
<1>5. Busy' = Busy
  BY <1>4 DEF Busy
<1>6. CASE Busy
  BY <1>1, <1>4, <1>5, <1>6, PassiveSteps
<1>7. CASE ~Busy
  <2>1. ~Busy'
    BY <1>5, <1>7
  <2> QED BY <1>7, <2>1, QuietStutters DEF PFStep
<1> QED BY <1>6, <1>7

\* A step that moves no thread is not seen.
LEMMA PlacesKept ==
  ASSUME IInv, IInv', pc' = pc,
         UNCHANGED <<nb_active_threads, nb_jobs, first_job, current_job, slot, job,
                     execute_main>>
  PROVE  PFStep
<1>1. Busy' = Busy
  BY DEF Busy
<1>2. CASE Busy
  BY <1>1, <1>2, PassiveSteps
<1>3. CASE ~Busy
  <2>1. ~Busy'
    BY <1>1, <1>3
  <2> QED BY <1>3, <2>1, QuietStutters DEF PFStep
<1> QED BY <1>2, <1>3

\* Steps of create and of free: there is no batch before or after.
LEMMA QuietSteps ==
  ASSUME IInv, IInv', NEW l \in {"none", "spawn", "await_start", "ready", "stop",
                                 "join", "freed"},
         pc[Main] = l, ~Busy'
  PROVE  PFStep
<1>1. ~Busy
  BY DEF Busy
<1> QED BY <1>1, QuietStutters DEF PFStep

\* One step of the pool is one step of ParallelFor, or none.
LEMMA StepRefines ==
  ASSUME IInv, IInv', [Next]_vars
  PROVE  PFStep
<1>1. CASE Caller
  <2>1. ASSUME NEW n \in JobCounts, NEW m \in BOOLEAN, Execute(n, m)  PROVE PFStep
    BY <2>1, ExecuteBegins DEF PFStep
  <2>2. ASSUME NEW r \in Requests, NEW c \in CpuCounts, NEW m \in BOOLEAN,
               Create(r, c, m)
        PROVE  PFStep
    <3>1. ~Busy'
      BY <2>2, CreateKeeps DEF IInv
    <3>2. pc[Main] = "none"
      BY <2>2 DEF Create
    <3> QED BY <3>1, <3>2, QuietSteps
  <2>3. CASE CreateNoMem
    <3>1. ~Busy' /\ pc[Main] = "none"
      BY <2>3, CreateNoMemKeeps DEF IInv, CreateNoMem
    <3> QED BY <3>1, QuietSteps
  <2>4. CASE Free
    <3>1. ~Busy' /\ pc[Main] = "ready"
      BY <2>4, FreeKeeps DEF IInv, Free
    <3> QED BY <3>1, QuietSteps
  <2>5. CASE FreeNull
    BY <2>5, PlacesKept DEF FreeNull, vars, counterVars, localVars, callVars
  <2> QED BY <1>1, <2>1, <2>2, <2>3, <2>4, <2>5 DEF Caller
<1>2. CASE MainStep
  <2>1. CASE SpawnWorker \/ SpawnFails \/ AwaitStart \/ CreateReturns
    <3>1. ~Busy'
      BY <2>1, SpawnWorkerKeeps, SpawnFailsKeeps, AwaitStartKeeps, CreateReturnsKeeps
      DEF IInv
    <3>2. pc[Main] \in {"spawn", "await_start"}
      BY <2>1 DEF SpawnWorker, SpawnFails, AwaitStart, CreateReturns
    <3> QED BY <3>1, <3>2, QuietSteps
  <2>2. CASE StopWorker \/ StartJoining \/ JoinWorker \/ FreeReturns
    <3>1. ~Busy'
      BY <2>2, StopWorkerKeeps, StartJoiningKeeps, JoinWorkerKeeps, FreeReturnsKeeps
      DEF IInv
    <3>2. pc[Main] \in {"stop", "join"}
      BY <2>2 DEF StopWorker, StartJoining, JoinWorker, FreeReturns
    <3> QED BY <3>1, <3>2, QuietSteps
  <2>3. CASE WakeWorker
    BY <2>3, PlacesKept DEF WakeWorker, counterVars, localVars
  <2>4. CASE EnterBatch \/ MainFuncReturns
    BY <2>4, MainFuncSteps
  <2>5. CASE FirstJob(Main) \/ JobReturns(Main)
    BY <2>5, ThreadSets, FirstJobStarts, JobReturnsFinishes DEF PFStep
  <2>6. CASE NextJob(Main)
    BY <2>6, ThreadSets, NextJobStarts, LastFetch DEF PFStep
  <2>7. CASE AwaitDone
    BY <2>7, AwaitDoneSteps
  <2> QED BY <1>2, <2>1, <2>2, <2>3, <2>4, <2>5, <2>6, <2>7 DEF MainStep
<1>3. ASSUME NEW w \in Workers, WorkerStep(w)  PROVE PFStep
  <2>1. CASE FirstJob(w) \/ JobReturns(w)
    BY <2>1, ThreadSets, FirstJobStarts, JobReturnsFinishes DEF PFStep
  <2>2. CASE NextJob(w)
    BY <2>2, ThreadSets, NextJobStarts, LastFetch DEF PFStep
  <2> QED BY <1>3, <2>1, <2>2, WorkerPasses DEF WorkerStep
<1>4. ASSUME NEW t \in Threads, SpuriousWakeup(t)  PROVE PFStep
  BY <1>4, PlacesKept DEF SpuriousWakeup, counterVars, localVars, callVars
<1>5. CASE UNCHANGED vars
  BY <1>5, PlacesKept DEF vars, counterVars, localVars, callVars
<1> QED BY <1>1, <1>2, <1>3, <1>4, <1>5 DEF Next

\* The safety half of ImplementsParallelFor, for all constants: however the
\* threads of the pool interleave, each job of a batch is begun once, by one
\* thread, under a number no other running job has, and execute returns only
\* when every job and main_func are over (slicethread.c:52-97, 160-200).
THEOREM PoolIsParallelFor == Spec => PF!Init /\ [][PF!Next]_(PF!vars)
<1>1. Init => PF!Init
  <2> SUFFICES ASSUME Init  PROVE PF!Init
    OBVIOUS
  <2>1. ~Busy /\ \A t \in Threads : pc[t] # "call"
    BY ThreadSets DEF Init, Busy
  <2>2. {<<slot[t], job[t]>> : t \in {u \in Threads : pc[u] = "call"}} = {}
    BY <2>1
  <2> QED BY <2>1, <2>2 DEF PF!Init
<1>2. IInv /\ IInv' /\ [Next]_vars => [PF!Next]_(PF!vars)
  BY StepRefines DEF PFStep
<1> QED BY <1>1, <1>2, InductiveInvariant, PTL DEF Spec
=============================================================================
