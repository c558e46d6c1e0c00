---------------------------- MODULE ParallelFor ----------------------------
(***************************************************************************)
(* What a caller of avpriv_slicethread_execute (libavutil/slicethread.h)   *)
(* relies on: a call runs the jobs 0 .. n-1, each exactly once, on at most *)
(* `limit' threads whose numbers are never shared by two running jobs, and *)
(* returns only when no job is pending or running.  With execute_main the  *)
(* caller's main_func runs once, beside the jobs.                          *)
(***************************************************************************)
EXTENDS Naturals

CONSTANTS JobCounts,   \* the values of nb_jobs a caller passes
          Threads      \* the thread numbers worker_func may be given

VARIABLES phase,       \* "idle" between calls, "busy" inside a call
          limit,       \* nb_threads as passed to worker_func in this call
          pending,     \* jobs whose worker_func call has not begun
          running,     \* pairs <<threadnr, jobnr>> inside worker_func
          main         \* main_func in this call: "no", "due", "in" or "over"

vars == <<phase, limit, pending, running, main>>

Init == /\ phase = "idle"
        /\ limit = 0
        /\ pending = {}
        /\ running = {}
        /\ main = "no"

Begin(n, k, m) ==
    /\ phase = "idle"
    /\ phase' = "busy"
    /\ limit' = k
    /\ pending' = 0 .. (n - 1)
    /\ main' = m
    /\ UNCHANGED running

\* A thread number is used by one job at a time.
StartJob(t, j) ==
    /\ phase = "busy"
    /\ j \in pending
    /\ t < limit
    /\ \A r \in running : r[1] # t
    /\ pending' = pending \ {j}
    /\ running' = running \union {<<t, j>>}
    /\ UNCHANGED <<phase, limit, main>>

FinishJob(r) ==
    /\ r \in running
    /\ running' = running \ {r}
    /\ UNCHANGED <<phase, limit, pending, main>>

StartMain ==
    /\ main = "due"
    /\ main' = "in"
    /\ UNCHANGED <<phase, limit, pending, running>>

FinishMain ==
    /\ main = "in"
    /\ main' = "over"
    /\ UNCHANGED <<phase, limit, pending, running>>

\* The call returns: every job is over, and so is main_func.
End ==
    /\ phase = "busy"
    /\ pending = {} /\ running = {}
    /\ main \in {"no", "over"}
    /\ phase' = "idle"
    /\ main' = "no"
    /\ limit' = 0
    /\ UNCHANGED <<pending, running>>

Work == \/ \E t \in Threads : \E j \in pending : StartJob(t, j)
        \/ \E r \in running : FinishJob(r)
        \/ StartMain
        \/ FinishMain
        \/ End

Next == \/ \E n \in JobCounts :
             \E k \in 1 .. n : \E m \in {"no", "due"} : Begin(n, k, m)
        \/ Work

\* A call that has begun goes on until it returns.
Spec == Init /\ [][Next]_vars /\ WF_vars(Work)
=============================================================================
