--------------------------- MODULE MCParallelWriter ---------------------------
(* The output buckets of the instances of ParallelWriter.tla checked by TLC. *)
EXTENDS ParallelWriter

CONSTANTS b1, b2, b3
===============================================================================
