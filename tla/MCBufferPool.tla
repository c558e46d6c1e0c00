---------------------------- MODULE MCBufferPool ----------------------------
(***************************************************************************)
(* Values for TLC.                                                         *)
(***************************************************************************)
EXTENDS BufferPool, TLC

CONSTANTS t1, t2, r1, r2, r3, b1, b2, b3, d1, d2, d3

const_Threads == {t1, t2}
const_Refs    == {r1, r2, r3}
const_Bufs    == {b1, b2, b3}
const_Data    == {d1, d2, d3}

\* Identities are interchangeable (for the runs without liveness).
Symmetry == Permutations(const_Threads) \union Permutations(const_Refs)
              \union Permutations(const_Bufs) \union Permutations(const_Data)
=============================================================================
