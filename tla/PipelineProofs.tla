---------------------------- MODULE PipelineProofs ----------------------------
(***************************************************************************)
(* Proofs about Pipeline.tla, for any number of deliveries.                *)
(*                                                                         *)
(* DeliveriesAddUp and MetricsAddUp only speak of an idle goroutine.  What *)
(* is inductive counts the delivery in flight as well: it is not in any    *)
(* outcome, and it is in data_total, unless it was malformed, once the     *)
(* first pipeline has returned.                                            *)
(***************************************************************************)
EXTENDS Pipeline, TLAPS

\* The delivery in flight, and whether its processing has failed.
InFlight == IF stage = "idle" THEN 0 ELSE 1
Failed == IF stage \in {"processError", "report"} THEN 1 ELSE 0

\* The types, without a bound on the counters.
ShapeInv ==
    /\ stage \in {"idle", "attempt", "backoff", "processError", "report"}
    /\ kind \in Kind
    /\ attempts \in 0 .. MaxAttempt
    /\ lastErr \in Failure \cup {"none"}
    /\ ctxDone \in BOOLEAN
    /\ metrics \in [Metric -> Nat]
    /\ outcome \in [Outcome -> Nat]

\* Each delivery is in one outcome, or in flight.
OutcomeInv ==
    /\ outcome["delivered"] <= MaxDeliveries
    /\ outcome["delivered"] = outcome["projected"] + outcome["deadLettered"]
                              + outcome["dumped"] + outcome["abandoned"] + InFlight

\* Each counter stands for some outcomes.
MetricsInv ==
    /\ metrics["duration_ok"] = outcome["projected"]
    /\ metrics["error_duration_ok"] = outcome["deadLettered"]
    /\ metrics["error_duration_failed"] = outcome["dumped"]
    /\ metrics["error_total"] = outcome["deadLettered"] + outcome["dumped"]
    /\ metrics["data_total"] =
         metrics["duration_ok"] + metrics["duration_failed"] + outcome["panicked"]
    /\ metrics["data_total"] + outcome["malformed"] =
         metrics["duration_ok"] + metrics["error_total"] + outcome["abandoned"] + Failed
    /\ metrics["late_data_total"] <= metrics["duration_ok"]

PipelineInv == ShapeInv /\ OutcomeInv /\ MetricsInv

-------------------------------------------------------------------------------
\* A counter is incremented if it is named, and stays otherwise.
LEMMA IncCounts ==
  ASSUME NEW S, NEW f \in [S -> Nat], NEW names
  PROVE  /\ Inc(f, names) \in [S -> Nat]
         /\ \A n \in S : Inc(f, names)[n] = IF n \in names THEN f[n] + 1 ELSE f[n]
BY DEF Inc

\* What one pipeline counts is one outcome, whichever way the attempt, the
\* retry or the report ends.
LEMMA PipelineStep ==
  ASSUME PipelineInv, [Next]_vars
  PROVE  PipelineInv'
<1> USE PipelineAssumption
    DEF PipelineInv, ShapeInv, OutcomeInv, MetricsInv, InFlight, Failed,
        Metric, Outcome, Kind, Failure
<1>1. /\ \A names : /\ Inc(metrics, names) \in [Metric -> Nat]
                    /\ \A n \in Metric : Inc(metrics, names)[n] =
                          IF n \in names THEN metrics[n] + 1 ELSE metrics[n]
      /\ \A names : /\ Inc(outcome, names) \in [Outcome -> Nat]
                    /\ \A n \in Outcome : Inc(outcome, names)[n] =
                          IF n \in names THEN outcome[n] + 1 ELSE outcome[n]
  <2> HIDE DEF Metric, Outcome
  <2> QED  BY IncCounts
<1>2. ASSUME NEW k \in Kind, Deliver(k)
      PROVE  PipelineInv'
  BY <1>1, <1>2 DEF Deliver
<1>3. CASE DeliverMalformed
  BY <1>1, <1>3 DEF DeliverMalformed
<1>4. CASE Return
  <2>1. PICK late \in BOOLEAN :
           metrics' = Inc(metrics, {"data_total", "duration_ok"} \cup
                             IF late THEN {"late_data_total"} ELSE {})
    BY <1>4 DEF Return
  <2> QED  BY <1>1, <1>4, <2>1, SMTT(30) DEF Return
<1>5. CASE AttemptPanics
  BY <1>1, <1>5 DEF AttemptPanics
<1>6. ASSUME NEW err \in Failure, AttemptFails(err)
      PROVE  PipelineInv'
  BY <1>1, <1>6 DEF AttemptFails, GiveUp
<1>7. ASSUME NEW err \in Failure, AttemptToRetry(err)
      PROVE  PipelineInv'
  BY <1>7 DEF AttemptToRetry, Retries
<1>8. CASE RetryAgain \/ StartReport \/ Cancel \/ NewSession \/ UNCHANGED vars
  BY <1>8, ZenonT(40) DEF RetryAgain, StartReport, Cancel, NewSession, vars
<1>9. CASE StopRetrying
  BY <1>1, <1>9 DEF StopRetrying, GiveUp
<1>10. CASE Abandon
  BY <1>1, <1>10 DEF Abandon
<1>11. CASE ReportSucceeds \/ ReportFails
  BY <1>1, <1>11 DEF ReportSucceeds, ReportFails
<1> QED
  BY <1>2, <1>3, <1>4, <1>5, <1>6, <1>7, <1>8, <1>9, <1>10, <1>11
     DEF Next, AttemptEnds, ReportEnds

\* PipelineInv is inductive.
LEMMA PipelineInvariance == Spec => []PipelineInv
<1>1. Init => PipelineInv
  <2> SUFFICES ASSUME Init
               PROVE  PipelineInv
    OBVIOUS
  <2>1. metrics \in [Metric -> Nat] /\ outcome \in [Outcome -> Nat]
    BY DEF Init
  <2>2. ShapeInv
    <3>1. /\ stage = "idle" /\ kind = "Unknown" /\ attempts = 0
          /\ lastErr = "none" /\ ctxDone \in BOOLEAN
      BY DEF Init
    <3> QED  BY <2>1, <3>1, PipelineAssumption DEF ShapeInv, Kind
  <2>3. InFlight = 0 /\ Failed = 0
    BY DEF Init, InFlight, Failed
  <2>4. (\A m \in Metric : metrics[m] = 0) /\ (\A o \in Outcome : outcome[o] = 0)
    BY DEF Init
  <2>5. OutcomeInv /\ MetricsInv
    BY <2>3, <2>4, PipelineAssumption DEF OutcomeInv, MetricsInv, Metric, Outcome
  <2> QED  BY <2>2, <2>5 DEF PipelineInv
<1>2. PipelineInv /\ [Next]_vars => PipelineInv'
  BY PipelineStep
<1> QED  BY <1>1, <1>2, PTL DEF Spec

\* The goroutine and its pipelines keep the types of their variables: no
\* counter gets past the number of deliveries.
THEOREM TypeCorrect == Spec => []TypeOK
<1>1. PipelineInv => TypeOK
  <2> SUFFICES ASSUME PipelineInv
               PROVE  TypeOK
    OBVIOUS
  <2> USE PipelineAssumption
      DEF PipelineInv, ShapeInv, OutcomeInv, MetricsInv, InFlight, Failed,
          Metric, Outcome
  <2>1. \A o \in Outcome : outcome[o] \in 0 .. MaxDeliveries
    OBVIOUS
  <2>2. \A m \in Metric : metrics[m] \in 0 .. MaxDeliveries
    OBVIOUS
  <2> HIDE DEF Metric, Outcome
  <2> QED  BY <2>1, <2>2 DEF TypeOK
<1> QED  BY <1>1, PipelineInvariance, PTL

\* A delivery is neither lost nor counted twice: projected, dead-lettered,
\* dumped or left for redelivery, whatever it met on the way.
THEOREM EveryDeliveryEnds == Spec => []DeliveriesAddUp
<1>1. PipelineInv => DeliveriesAddUp
  BY DEF PipelineInv, ShapeInv, OutcomeInv, InFlight, DeliveriesAddUp, Outcome
<1> QED  BY <1>1, PipelineInvariance, PTL

\* The counters of the two pipelines agree, through retries, panics and
\* cancellations.
THEOREM MetricsAgree == Spec => []MetricsAddUp
<1>1. PipelineInv => MetricsAddUp
  BY DEF PipelineInv, ShapeInv, OutcomeInv, MetricsInv, InFlight, Failed,
     MetricsAddUp, Metric, Outcome
<1> QED  BY <1>1, PipelineInvariance, PTL

\* With the RetryConfig{} of DecorateProcessing, that is without a limit on
\* the attempts, no transient failure gets to the dead letter queue.
THEOREM TransientFailuresRetried ==
  ASSUME MaxAttempt = 0
  PROVE  Spec => []RetryableNotReported
<1>1. Init => RetryableNotReported
  BY DEF Init, RetryableNotReported
<1>2. RetryableNotReported /\ [Next]_vars => RetryableNotReported'
  <2> SUFFICES ASSUME RetryableNotReported, [Next]_vars
               PROVE  RetryableNotReported'
    OBVIOUS
  <2>1. ASSUME NEW err \in Failure, AttemptFails(err)
        PROVE  RetryableNotReported'
    BY <2>1 DEF AttemptFails, Retries, GiveUp, RetryableNotReported
  <2>2. ASSUME NEW err \in Failure, AttemptToRetry(err)
        PROVE  RetryableNotReported'
    BY <2>2 DEF AttemptToRetry, RetryableNotReported
  <2>3. CASE \/ DeliverMalformed \/ Return \/ AttemptPanics \/ StopRetrying
             \/ \E k \in Kind : Deliver(k)
    BY <2>3 DEF DeliverMalformed, Return, AttemptPanics, StopRetrying, GiveUp,
       Deliver, RetryableNotReported
  <2>4. CASE \/ RetryAgain \/ Abandon \/ StartReport \/ ReportEnds
             \/ Cancel \/ NewSession \/ UNCHANGED vars
    BY <2>4 DEF RetryAgain, Abandon, StartReport, ReportEnds, ReportSucceeds,
       ReportFails, Cancel, NewSession, vars, RetryableNotReported
  <2> QED  BY <2>1, <2>2, <2>3, <2>4 DEF Next, AttemptEnds
<1> QED  BY <1>1, <1>2, PTL DEF Spec
===============================================================================
