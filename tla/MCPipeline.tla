------------------------------ MODULE MCPipeline ------------------------------
(* The instances of Pipeline.tla checked by TLC: DecorateProcessing uses     *)
(* RetryConfig{}, that is, MaxAttempt = 0.                                   *)
EXTENDS Pipeline
===============================================================================
