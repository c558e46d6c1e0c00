-------------------------- MODULE MCThreadMessage --------------------------
(***************************************************************************)
(* Values for TLC.  IndexModulus is small enough for the indices of the    *)
(* fifo to overflow, and no multiple of the larger capacity; the capacity  *)
(* that reaches it is one that queue_alloc must refuse.                    *)
(***************************************************************************)
EXTENDS ThreadMessage, TLC

CONSTANTS s1, s2, r1, r2

const_Senders    == {s1, s2}
const_Receivers  == {r1, r2}
const_Capacities == {1, 3, 4}

\* Threads of one side are alike (for the run without liveness).
Symmetry == Permutations(const_Senders) \union Permutations(const_Receivers)
=============================================================================
