---------------------------- MODULE SliceThread ----------------------------
(***************************************************************************)
(* libavutil/slicethread.c: a pool of worker threads that runs a caller's  *)
(* jobs, one batch per avpriv_slicethread_execute.                         *)
(*                                                                         *)
(* One action is one critical section, one atomic operation on first_job   *)
(* or current_job, one entry to or return from a caller's callback, or a   *)
(* run of statements that touch no state another thread may touch.         *)
(* A worker keeps its own mutex except while it waits (lines 71 to 90), so *)
(* that the mutexes are functions of pc; see MutexFree.                    *)
(***************************************************************************)
EXTENDS Integers, FiniteSets

CONSTANTS Requests,    \* nb_threads arguments, 0 asks for the CPU count
          CpuCounts,   \* what av_cpu_count may return
          MaxWorkers,  \* bound: length of ctx->workers
          JobCounts,   \* nb_jobs arguments
          MaxBatches   \* bound: calls of execute in one life of the context

ThreadsFor(request, cpus) ==
    IF request # 0 THEN request ELSE IF cpus > 1 THEN cpus + 1 ELSE 1

ASSUME SliceThreadAssumption ==
    /\ MaxWorkers \in Nat \ {0} /\ MaxBatches \in Nat
    /\ JobCounts \subseteq Nat \ {0}
    /\ Requests \subseteq Nat /\ CpuCounts \subseteq Nat \ {0}
    /\ \A r \in Requests, c \in CpuCounts : ThreadsFor(r, c) <= MaxWorkers

Main    == -1                      \* the thread that calls the API
Workers == 0 .. (MaxWorkers - 1)   \* indices of ctx->workers
Threads == Workers \union {Main}

VARIABLES
    main_func,          \* was the context created with a main_func?
    nb_threads, nb_active_threads, nb_jobs, first_job, current_job,
    finished,
    ctx_done,           \* ctx->done
    w_done,             \* w->done of every worker
    sleeping,           \* threads blocked in pthread_cond_wait, not signalled
    pc,                 \* where each thread is
    slot,               \* first_job, the local of run_jobs
    job,                \* current_job, the local of run_jobs
    i, nb_workers,      \* locals of the thread that calls the API
    execute_main,       \* its argument: does main_func run in this batch?
    batches             \* calls of execute so far (only for the bound)

counterVars == <<nb_active_threads, nb_jobs, first_job, current_job>>
wakeVars    == <<ctx_done, w_done, sleeping>>
localVars   == <<slot, job>>
callVars    == <<i, nb_workers, execute_main, batches>>
ctxVars     == <<main_func, nb_threads, finished>>
vars == <<ctxVars, counterVars, wakeVars, localVars, callVars, pc>>

MinOf(a, b) == IF a < b THEN a ELSE b

\* w->mutex can be locked by another thread: its worker is not started, waits
\* for the mutex, waits on w->cond, or has returned.
MutexFree(w) == pc[w] \in {"none", "lock", "wait", "exited"}

\* Threads that pthread_cond_signal(&w->cond) may wake: the worker, or the
\* caller of create that waits for the worker to start.
WaitersOf(w) ==
    {t \in sleeping : \/ t = w
                      \/ t = Main /\ pc[Main] = "await_start" /\ i = w}

Signal(waiters) ==
    IF waiters = {} THEN sleeping' = sleeping
    ELSE \E t \in waiters : sleeping' = sleeping \ {t}

Goto(t, label) == pc' = [pc EXCEPT ![t] = label]
-----------------------------------------------------------------------------
Init ==
    /\ main_func = FALSE
    /\ nb_threads = 0
    /\ finished = FALSE
    /\ nb_active_threads = 0 /\ nb_jobs = 0
    /\ first_job = 0 /\ current_job = 0
    /\ ctx_done = FALSE
    /\ w_done = [w \in Workers |-> FALSE]
    /\ sleeping = {}
    /\ pc = [t \in Threads |-> "none"]
    /\ slot = [t \in Threads |-> 0] /\ job = [t \in Threads |-> 0]
    /\ i = 0 /\ nb_workers = 0 /\ execute_main = FALSE /\ batches = 0

\* avpriv_slicethread_create up to its loop, once both allocations succeeded.
Create(request, cpus, m) ==
    /\ pc[Main] = "none"
    /\ main_func' = m
    /\ nb_threads' = ThreadsFor(request, cpus)
    /\ nb_workers' = IF m THEN nb_threads' ELSE nb_threads' - 1
    /\ i' = 0
    /\ Goto(Main, "spawn")
    /\ UNCHANGED <<finished, counterVars, wakeVars, localVars, execute_main,
                   batches>>

\* One of the two allocations failed: *pctx is NULL.
CreateNoMem ==
    /\ pc[Main] = "none"
    /\ Goto(Main, "freed")
    /\ UNCHANGED <<ctxVars, counterVars, wakeVars, localVars, callVars>>

\* The body of the loop up to its wait.  The new worker cannot pass its first
\* lock before the wait releases w->mutex, so w->done is still 0.
SpawnWorker ==
    /\ pc[Main] = "spawn" /\ i < nb_workers
    /\ w_done' = [w_done EXCEPT ![i] = FALSE]
    /\ pc' = [pc EXCEPT ![Main] = "await_start", ![i] = "lock"]
    /\ sleeping' = sleeping \union {Main}
    /\ UNCHANGED <<ctxVars, counterVars, ctx_done, localVars, callVars>>

\* pthread_create failed: only the workers before i exist; free the context.
SpawnFails ==
    /\ pc[Main] = "spawn" /\ i < nb_workers
    /\ nb_threads' = IF main_func THEN i ELSE i + 1
    /\ nb_workers' = IF main_func THEN nb_threads' ELSE nb_threads' - 1
    /\ finished' = TRUE
    /\ i' = 0
    /\ Goto(Main, "stop")
    /\ UNCHANGED <<main_func, counterVars, wakeVars, localVars, execute_main,
                   batches>>

\* while (!w->done) pthread_cond_wait(&w->cond, &w->mutex)
AwaitStart ==
    /\ pc[Main] = "await_start" /\ Main \notin sleeping /\ MutexFree(i)
    /\ IF w_done[i]
         THEN i' = i + 1 /\ Goto(Main, "spawn") /\ UNCHANGED sleeping
         ELSE sleeping' = sleeping \union {Main} /\ UNCHANGED <<i, pc>>
    /\ UNCHANGED <<ctxVars, counterVars, ctx_done, w_done, localVars,
                   nb_workers, execute_main, batches>>

CreateReturns ==
    /\ pc[Main] = "spawn" /\ i = nb_workers
    /\ Goto(Main, "ready")
    /\ UNCHANGED <<ctxVars, counterVars, wakeVars, localVars, callVars>>
-----------------------------------------------------------------------------
\* avpriv_slicethread_execute: the stores before the workers are woken.
Execute(n, m) ==
    /\ pc[Main] = "ready" /\ batches < MaxBatches
    /\ nb_jobs' = n
    /\ nb_active_threads' = MinOf(n, nb_threads)
    /\ first_job' = 0
    /\ current_job' = nb_active_threads'
    /\ execute_main' = (main_func /\ m)
    /\ nb_workers' = IF execute_main' THEN nb_active_threads'
                                      ELSE nb_active_threads' - 1
    /\ i' = 0
    /\ batches' = batches + 1
    /\ Goto(Main, "wake")
    /\ UNCHANGED <<ctxVars, wakeVars, localVars>>

\* Variant for mutation: the worker's condition is not signalled.
TellWorkerNoSignal(w) ==
    /\ MutexFree(w)
    /\ w_done' = [w_done EXCEPT ![w] = FALSE]
    /\ UNCHANGED sleeping

\* lock(w); w->done = 0; signal(w->cond); unlock(w), in execute and in free.
TellWorker(w) ==
    /\ MutexFree(w)
    /\ w_done' = [w_done EXCEPT ![w] = FALSE]
    /\ Signal(WaitersOf(w))

WakeWorker ==
    /\ pc[Main] = "wake" /\ i < nb_workers
    /\ TellWorker(i)
    /\ i' = i + 1
    /\ UNCHANGED <<ctxVars, counterVars, ctx_done, localVars, nb_workers,
                   execute_main, batches, pc>>

\* After the loop the caller runs main_func or joins in run_jobs.
EnterBatch ==
    /\ pc[Main] = "wake" /\ i = nb_workers
    /\ Goto(Main, IF execute_main THEN "main_func" ELSE "run")
    /\ UNCHANGED <<ctxVars, counterVars, wakeVars, localVars, callVars>>

\* Variant for mutation: execute returns with main_func, without waiting.
MainFuncReturnsNoWait ==
    /\ pc[Main] = "main_func"
    /\ Goto(Main, "ready")
    /\ UNCHANGED <<ctxVars, counterVars, wakeVars, localVars, callVars>>

MainFuncReturns ==
    /\ pc[Main] = "main_func"
    /\ Goto(Main, "await_done")
    /\ UNCHANGED <<ctxVars, counterVars, wakeVars, localVars, callVars>>

\* Variant for mutation: ctx->done is not reset.
AwaitDoneNoReset ==
    /\ pc[Main] = "await_done" /\ Main \notin sleeping
    /\ IF ctx_done
         THEN Goto(Main, "ready") /\ UNCHANGED sleeping
         ELSE sleeping' = sleeping \union {Main} /\ UNCHANGED pc
    /\ UNCHANGED <<ctxVars, counterVars, ctx_done, w_done, localVars, callVars>>

\* while (!ctx->done) pthread_cond_wait(&ctx->done_cond, &ctx->done_mutex);
\* ctx->done = 0
AwaitDone ==
    /\ pc[Main] = "await_done" /\ Main \notin sleeping
    /\ IF ctx_done
         THEN ctx_done' = FALSE /\ Goto(Main, "ready") /\ UNCHANGED sleeping
         ELSE sleeping' = sleeping \union {Main} /\ UNCHANGED <<ctx_done, pc>>
    /\ UNCHANGED <<ctxVars, counterVars, w_done, localVars, callVars>>
-----------------------------------------------------------------------------
(* run_jobs, executed by workers and, without main_func, by the caller.    *)

\* atomic_fetch_add(&ctx->first_job, 1), then worker_func is called with it.
\* nb_jobs and nb_active_threads are read into locals here; that these stay
\* the batch's values until run_jobs returns is CountersReusedWhenIdle.
FirstJob(t) ==
    /\ pc[t] = "run"
    /\ slot' = [slot EXCEPT ![t] = first_job]
    /\ job' = [job EXCEPT ![t] = first_job]
    /\ first_job' = first_job + 1
    /\ Goto(t, "call")
    /\ UNCHANGED <<ctxVars, nb_active_threads, nb_jobs, current_job, wakeVars,
                   callVars>>

JobReturns(t) ==
    /\ pc[t] = "call"
    /\ Goto(t, "fetch")
    /\ UNCHANGED <<ctxVars, counterVars, wakeVars, localVars, callVars>>

\* Variant for mutation: the number of threads is forgotten, so that the first
\* thread to leave is taken for the last.
IsLastFirstOut(fetched) == fetched = nb_jobs

\* return current_job == nb_jobs + nb_active_threads - 1
IsLast(fetched) == fetched = nb_jobs + nb_active_threads - 1

\* Variant for mutation: `<= nb_jobs'.
HasJobOffByOne(fetched) == fetched <= nb_jobs

\* The condition of the loop of run_jobs.
HasJob(fetched) == fetched < nb_jobs

\* atomic_fetch_add(&ctx->current_job, 1): another job, or the result of
\* run_jobs, on which the caller and the workers branch.
NextJob(t) ==
    /\ pc[t] = "fetch"
    /\ current_job' = current_job + 1
    /\ IF HasJob(current_job)
         THEN job' = [job EXCEPT ![t] = current_job] /\ Goto(t, "call")
         ELSE /\ UNCHANGED job
              /\ Goto(t, CASE t = Main /\ IsLast(current_job)    -> "ready"
                           [] t = Main /\ ~IsLast(current_job)   -> "await_done"
                           [] t # Main /\ IsLast(current_job)    -> "last"
                           [] t # Main /\ ~IsLast(current_job)   -> "loop")
    /\ UNCHANGED <<ctxVars, nb_active_threads, nb_jobs, first_job, wakeVars,
                   slot, callVars>>
-----------------------------------------------------------------------------
(* thread_worker.                                                          *)

\* pthread_mutex_lock(&w->mutex); pthread_cond_signal(&w->cond)
WorkerStarts(w) ==
    /\ pc[w] = "lock"
    /\ Signal(WaitersOf(w))
    /\ Goto(w, "loop")
    /\ UNCHANGED <<ctxVars, counterVars, ctx_done, w_done, localVars, callVars>>

\* w->done = 1, and the first pthread_cond_wait
WorkerIdles(w) ==
    /\ pc[w] = "loop"
    /\ w_done' = [w_done EXCEPT ![w] = TRUE]
    /\ sleeping' = sleeping \union {w}
    /\ Goto(w, "wait")
    /\ UNCHANGED <<ctxVars, counterVars, ctx_done, localVars, callVars>>

\* Back from pthread_cond_wait: wait again, return, or run jobs.
WorkerWakes(w) ==
    /\ pc[w] = "wait" /\ w \notin sleeping
    /\ IF w_done[w]
         THEN sleeping' = sleeping \union {w} /\ UNCHANGED pc
         ELSE /\ UNCHANGED sleeping
              /\ Goto(w, IF finished THEN "exited" ELSE "run")
    /\ UNCHANGED <<ctxVars, counterVars, ctx_done, w_done, localVars, callVars>>

\* The last thread out of run_jobs sets ctx->done under done_mutex.
WorkerReportsDone(w) ==
    /\ pc[w] = "last"
    /\ ctx_done' = TRUE
    /\ sleeping' = IF pc[Main] = "await_done" THEN sleeping \ {Main}
                                              ELSE sleeping
    /\ Goto(w, "loop")
    /\ UNCHANGED <<ctxVars, counterVars, w_done, localVars, callVars>>
-----------------------------------------------------------------------------
(* avpriv_slicethread_free.                                                *)

\* Variant for mutation: finished is not set before the workers are woken.
FreeUnfinished ==
    /\ pc[Main] = "ready"
    /\ nb_workers' = IF main_func THEN nb_threads ELSE nb_threads - 1
    /\ i' = 0
    /\ Goto(Main, "stop")
    /\ UNCHANGED <<ctxVars, counterVars, wakeVars, localVars, execute_main,
                   batches>>

Free ==
    /\ pc[Main] = "ready"
    /\ nb_workers' = IF main_func THEN nb_threads ELSE nb_threads - 1
    /\ finished' = TRUE
    /\ i' = 0
    /\ Goto(Main, "stop")
    /\ UNCHANGED <<main_func, nb_threads, counterVars, wakeVars, localVars,
                   execute_main, batches>>

\* *pctx is NULL: the call returns at once.
FreeNull == pc[Main] = "freed" /\ UNCHANGED vars

StopWorker ==
    /\ pc[Main] = "stop" /\ i < nb_workers
    /\ TellWorker(i)
    /\ i' = i + 1
    /\ UNCHANGED <<ctxVars, counterVars, ctx_done, localVars, nb_workers,
                   execute_main, batches, pc>>

StartJoining ==
    /\ pc[Main] = "stop" /\ i = nb_workers
    /\ i' = 0
    /\ Goto(Main, "join")
    /\ UNCHANGED <<ctxVars, counterVars, wakeVars, localVars, nb_workers,
                   execute_main, batches>>

\* Variant for mutation: the threads are not joined.
JoinWorkerNoWait ==
    /\ pc[Main] = "join" /\ i < nb_workers
    /\ i' = i + 1
    /\ UNCHANGED <<ctxVars, counterVars, wakeVars, localVars, nb_workers,
                   execute_main, batches, pc>>

\* pthread_join, then the worker's condition and mutex are destroyed.
JoinWorker ==
    /\ pc[Main] = "join" /\ i < nb_workers
    /\ pc[i] = "exited"
    /\ i' = i + 1
    /\ UNCHANGED <<ctxVars, counterVars, wakeVars, localVars, nb_workers,
                   execute_main, batches, pc>>

FreeReturns ==
    /\ pc[Main] = "join" /\ i = nb_workers
    /\ Goto(Main, "freed")
    /\ UNCHANGED <<ctxVars, counterVars, wakeVars, localVars, callVars>>
-----------------------------------------------------------------------------
\* POSIX lets pthread_cond_wait return without a signal.
SpuriousWakeup(t) ==
    /\ t \in sleeping
    /\ sleeping' = sleeping \ {t}
    /\ UNCHANGED <<ctxVars, counterVars, ctx_done, w_done, localVars, callVars,
                   pc>>

\* What the calling program decides to do.
Caller == \/ \E r \in Requests, c \in CpuCounts, m \in BOOLEAN : Create(r, c, m)
          \/ CreateNoMem
          \/ \E n \in JobCounts, m \in BOOLEAN : Execute(n, m)
          \/ Free
          \/ FreeNull

\* Steps of the API calls once made.
MainStep == \/ SpawnWorker \/ SpawnFails \/ AwaitStart \/ CreateReturns
            \/ WakeWorker \/ EnterBatch \/ MainFuncReturns
            \/ FirstJob(Main) \/ JobReturns(Main) \/ NextJob(Main)
            \/ AwaitDone
            \/ StopWorker \/ StartJoining \/ JoinWorker \/ FreeReturns

WorkerStep(w) == \/ WorkerStarts(w) \/ WorkerIdles(w) \/ WorkerWakes(w)
                 \/ FirstJob(w) \/ JobReturns(w) \/ NextJob(w)
                 \/ WorkerReportsDone(w)

Next == \/ Caller
        \/ MainStep
        \/ \E w \in Workers : WorkerStep(w)
        \/ \E t \in Threads : SpuriousWakeup(t)

\* Threads are scheduled, callbacks return and a free mutex is granted; the
\* caller may stop calling and nothing wakes without a signal for ever.
Fairness == WF_vars(MainStep) /\ \A w \in Workers : WF_vars(WorkerStep(w))

Spec == Init /\ [][Next]_vars /\ Fairness
-----------------------------------------------------------------------------
InRunJobs == {t \in Threads : pc[t] \in {"run", "call", "fetch", "last"}}

CounterTypes ==
    /\ nb_active_threads \in 0 .. MaxWorkers
    /\ nb_jobs \in JobCounts \union {0}
    /\ first_job \in 0 .. nb_active_threads
    /\ current_job \in 0 .. (nb_jobs + nb_active_threads)

ThreadTypes ==
    /\ w_done \in [Workers -> BOOLEAN] /\ ctx_done \in BOOLEAN
    /\ sleeping \subseteq Threads
    /\ pc \in [Threads -> {"none", "spawn", "await_start", "ready", "wake",
                           "main_func", "await_done", "stop", "join", "freed",
                           "lock", "loop", "wait", "last", "exited",
                           "run", "call", "fetch"}]
    /\ slot \in [Threads -> 0 .. (MaxWorkers - 1)]
    /\ job \in [Threads -> Nat]

CallTypes ==
    /\ main_func \in BOOLEAN /\ finished \in BOOLEAN
    /\ nb_threads \in 0 .. MaxWorkers
    /\ i \in 0 .. MaxWorkers /\ nb_workers \in 0 .. MaxWorkers
    /\ execute_main \in BOOLEAN /\ batches \in 0 .. MaxBatches

\* Every variable has its type; a job number handed to worker_func is below
\* the nb_jobs of the batch (run_jobs, lines 60 to 62).
TypeOK ==
    /\ CounterTypes /\ ThreadTypes /\ CallTypes
    /\ \A t \in Threads : pc[t] = "call" => job[t] < nb_jobs

\* ctx->done is set only when every thread of the batch has made its last
\* fetch from current_job, while execute is still to consume it: no stale
\* done can end a later batch early, and two threads never both report
\* (lines 64, 85 to 90, 190 to 196).
DoneMeansOver ==
    /\ ctx_done =>
          /\ current_job = nb_jobs + nb_active_threads
          /\ InRunJobs = {}
          /\ pc[Main] \in {"main_func", "await_done", "wake"}
    /\ Cardinality({t \in Threads : pc[t] = "last"}) <= 1

\* A thread is never left asleep after what it waits for has happened: a
\* worker told to run or to return, the caller whose batch is done, or the
\* caller of create whose worker has started (lines 77, 156, 181, 192, 217).
NoMissedWakeup ==
    /\ \A w \in Workers :
          w \in sleeping => pc[w] = "wait" /\ w_done[w]
    /\ Main \in sleeping =>
          \/ pc[Main] = "await_done" /\ ~ctx_done
          \/ pc[Main] = "await_start" /\ pc[i] = "lock"

\* Once free has destroyed a worker's condition and mutex the worker has
\* returned, and no thread is left when the context is freed (lines 221 to
\* 231); this covers the context of a create that failed half way.
TeardownAfterExit ==
    /\ pc[Main] = "join" => \A w \in 0 .. (i - 1) : pc[w] = "exited"
    /\ pc[Main] = "freed" => \A w \in Workers : pc[w] \in {"none", "exited"}

\* execute rewrites nb_jobs, nb_active_threads, first_job and current_job
\* only while no thread is inside run_jobs, so that a slow thread of one
\* batch cannot take a job number of the next (lines 169 to 172).
CountersReusedWhenIdle ==
    [][(current_job' < current_job \/ nb_jobs' # nb_jobs) => InRunJobs = {}]_vars

\* free returns: every worker is woken, sees finished and is joined.
FreeTerminates == (pc[Main] = "stop") ~> (pc[Main] = "freed")

Busy == pc[Main] \in {"wake", "main_func", "run", "call", "fetch", "await_done"}

PF == INSTANCE ParallelFor WITH
        Threads <- Workers,
        phase   <- IF Busy THEN "busy" ELSE "idle",
        limit   <- IF Busy THEN nb_active_threads ELSE 0,
        pending <- IF Busy THEN (first_job .. (nb_active_threads - 1))
                                  \union (current_job .. (nb_jobs - 1))
                           ELSE {},
        running <- {<<slot[t], job[t]>> : t \in {u \in Threads : pc[u] = "call"}},
        main    <- IF ~Busy \/ ~execute_main THEN "no"
                   ELSE CASE pc[Main] = "wake"      -> "due"
                          [] pc[Main] = "main_func" -> "in"
                          [] OTHER                  -> "over"

\* The pool implements ParallelFor: every job of a batch runs exactly once, a
\* thread number is never shared by two running jobs, execute returns only
\* when all jobs and main_func are over, and it does return.
ImplementsParallelFor == PF!Spec
=============================================================================
