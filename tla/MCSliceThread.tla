--------------------------- MODULE MCSliceThread ---------------------------
(***************************************************************************)
(* Values for TLC: the automatic thread count on one and on two CPUs, and  *)
(* a batch with fewer and one with as many or more jobs than threads.      *)
(***************************************************************************)
EXTENDS SliceThread

const_Requests  == {0, 2}
const_CpuCounts == {1, 2}
const_JobCounts == {1, 3}
=============================================================================
