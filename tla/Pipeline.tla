------------------------------- MODULE Pipeline -------------------------------
(***************************************************************************)
(* One ConsumeClaim goroutine and the two decorated pipelines it calls     *)
(* (internal/factory/processing.go, pkg/pipeline/processing.go):           *)
(*                                                                         *)
(*   panic --> count --> late --> duration --> retry --> main              *)
(*   panic --> duration --> parallel (retry --> dead letter queue, count)  *)
(*                                                                         *)
(* What is at stake is how retries, panics, cancellation and the metrics   *)
(* fit together, over a sequence of deliveries in one process.             *)
(***************************************************************************)
EXTENDS Naturals

CONSTANTS MaxDeliveries,  \* bound on the messages delivered to the process
          MaxAttempt      \* RetryConfig.MaxAttempt, 0 for no limit

ASSUME PipelineAssumption == MaxDeliveries \in Nat /\ MaxAttempt \in Nat

VARIABLES stage,          \* where the goroutine is
          kind,           \* the event in hand
          attempts,       \* attempts made, counted when there is a limit
          lastErr,        \* why the last attempt or Process failed
          ctxDone,        \* the session's context is cancelled
          metrics,        \* the process's prometheus counters
          outcome         \* how many deliveries ended in which way

vars == <<stage, kind, attempts, lastErr, ctxDone, metrics, outcome>>

Kind == {"Event", "ClusterState", "HostState", "InfraEnv", "Unknown"}
Failure == {"retryable", "error", "panic", "canceled", "unmarshal"}
Metric == {"data_total", "duration_ok", "duration_failed", "late_data_total",
           "error_total", "error_duration_ok", "error_duration_failed"}
Outcome == {"delivered", "malformed", "projected", "deadLettered", "dumped",
            "abandoned", "panicked"}

\* Main.Process by kind of event: Valkey errors may be retryable, S3 errors
\* and validation errors never are, an unknown name always fails; a panic in
\* the goroutine itself is recovered.
FailuresOf(k) ==
    IF k \in {"ClusterState", "HostState"} THEN {"retryable", "error", "panic"}
    ELSE IF k = "Unknown" THEN {"error"} ELSE {"error", "panic"}

CanSucceed(k) == k # "Unknown"

Init ==
    /\ stage = "idle"
    /\ kind = "Unknown"
    /\ attempts = 0
    /\ lastErr = "none"
    /\ ctxDone = FALSE
    /\ metrics = [m \in Metric |-> 0]
    /\ outcome = [o \in Outcome |-> 0]

Inc(f, names) == [n \in DOMAIN f |-> IF n \in names THEN f[n] + 1 ELSE f[n]]

\* A message that is JSON enters the pipeline.
Deliver(k) ==
    /\ stage = "idle"
    /\ ~ctxDone
    /\ outcome["delivered"] < MaxDeliveries
    /\ stage' = "attempt"
    /\ kind' = k
    /\ attempts' = 0
    /\ lastErr' = "none"
    /\ outcome' = Inc(outcome, {"delivered"})
    /\ UNCHANGED <<ctxDone, metrics>>

\* A message that is not goes to processError at once.
DeliverMalformed ==
    /\ stage = "idle"
    /\ ~ctxDone
    /\ outcome["delivered"] < MaxDeliveries
    /\ stage' = "processError"
    /\ lastErr' = "unmarshal"
    /\ outcome' = Inc(outcome, {"delivered", "malformed"})
    /\ UNCHANGED <<kind, attempts, ctxDone, metrics>>

\* Every decorator returns nil; the late data counter may count the event.
Return ==
    /\ stage = "attempt"
    /\ CanSucceed(kind)
    /\ stage' = "idle"
    /\ lastErr' = "none"
    /\ \E late \in BOOLEAN :
         /\ late => kind # "HostState"
         /\ metrics' = Inc(metrics, {"data_total", "duration_ok"} \cup
                              IF late THEN {"late_data_total"} ELSE {})
    /\ outcome' = Inc(outcome, {"projected"})
    /\ UNCHANGED <<kind, attempts, ctxDone>>

\* retry.Do gives up: the decorators around it see the error.
GiveUp(err) ==
    /\ stage' = "processError"
    /\ lastErr' = err
    /\ metrics' = Inc(metrics, {"data_total", "duration_failed"})
    /\ UNCHANGED <<kind, attempts, ctxDone, outcome>>

\* Mutant: no error is recognised as retryable.
RetriesNone(err) == FALSE

\* errors.Is(err, ErrRetryableError), with attempts left (always, if they are
\* not limited)
Retries(err) == err = "retryable" /\ (MaxAttempt = 0 \/ attempts + 1 < MaxAttempt)

AttemptFails(err) ==
    /\ stage = "attempt"
    /\ err \in FailuresOf(kind) \ {"panic"}
    /\ ~Retries(err)
    /\ GiveUp(err)

\* Mutant: the duration is observed at each attempt, inside the retry.
RetryObserved(err) ==
    /\ stage = "attempt"
    /\ err \in FailuresOf(kind)
    /\ Retries(err)
    /\ stage' = "backoff"
    /\ lastErr' = err
    /\ metrics' = Inc(metrics, {"duration_failed"})
    /\ UNCHANGED <<kind, attempts, ctxDone, outcome>>

AttemptToRetry(err) ==
    /\ stage = "attempt"
    /\ err \in FailuresOf(kind)
    /\ Retries(err)
    /\ stage' = "backoff"
    /\ lastErr' = err
    /\ attempts' = IF MaxAttempt = 0 THEN 0 ELSE attempts + 1
    /\ UNCHANGED <<kind, ctxDone, metrics, outcome>>

\* Mutant: the count is not deferred, a panic skips it.
PanicNotCounted ==
    /\ stage = "attempt"
    /\ "panic" \in FailuresOf(kind)
    /\ stage' = "processError"
    /\ lastErr' = "panic"
    /\ outcome' = Inc(outcome, {"panicked"})
    /\ UNCHANGED <<kind, attempts, ctxDone, metrics>>

\* The panic unwinds past the duration and late decorators; the deferred count
\* runs, and panicHandler turns it into an error.
AttemptPanics ==
    /\ stage = "attempt"
    /\ "panic" \in FailuresOf(kind)
    /\ stage' = "processError"
    /\ lastErr' = "panic"
    /\ metrics' = Inc(metrics, {"data_total"})
    /\ outcome' = Inc(outcome, {"panicked"})
    /\ UNCHANGED <<kind, attempts, ctxDone>>

\* The backoff timer fires first in retry.Do's select.
RetryAgain ==
    /\ stage = "backoff"
    /\ stage' = "attempt"
    /\ UNCHANGED <<kind, attempts, lastErr, ctxDone, metrics, outcome>>

\* Mutant: retry.Do is not given the context.
StopBeforeFirst ==
    /\ stage = "attempt" /\ lastErr = "none"
    /\ ctxDone
    /\ GiveUp("canceled")

\* The context ends the backoff, or is found cancelled before the first
\* attempt: its error replaces the last one.
StopRetrying ==
    /\ stage = "backoff" \/ (stage = "attempt" /\ lastErr = "none")
    /\ ctxDone
    /\ GiveUp("canceled")

\* processError with a cancelled context: the message is left for redelivery.
Abandon ==
    /\ stage = "processError"
    /\ ctxDone
    /\ stage' = "idle"
    /\ outcome' = Inc(outcome, {"abandoned"})
    /\ UNCHANGED <<kind, attempts, lastErr, ctxDone, metrics>>

StartReport ==
    /\ stage = "processError"
    /\ ~ctxDone
    /\ stage' = "report"
    /\ UNCHANGED <<kind, attempts, lastErr, ctxDone, metrics, outcome>>

\* Both branches of the parallel have ended; the count never fails, and runs
\* whether or not the dead letter queue took the message.
ReportSucceeds ==
    /\ stage = "report"
    /\ stage' = "idle"
    /\ metrics' = Inc(metrics, {"error_total", "error_duration_ok"})
    /\ outcome' = Inc(outcome, {"deadLettered"})
    /\ UNCHANGED <<kind, attempts, lastErr, ctxDone>>

\* Mutant: a message whose report failed is processed again.
ReportRequeues ==
    /\ stage = "report"
    /\ stage' = "attempt"
    /\ lastErr' = "none"
    /\ metrics' = Inc(metrics, {"error_total", "error_duration_failed"})
    /\ outcome' = Inc(outcome, {"dumped"})
    /\ UNCHANGED <<kind, attempts, ctxDone>>

ReportFails ==
    /\ stage = "report"
    /\ stage' = "idle"
    /\ metrics' = Inc(metrics, {"error_total", "error_duration_failed"})
    /\ outcome' = Inc(outcome, {"dumped"})
    /\ UNCHANGED <<kind, attempts, lastErr, ctxDone>>

\* A rebalance or a signal; the next session has a new context.
Cancel ==
    /\ ~ctxDone
    /\ ctxDone' = TRUE
    /\ UNCHANGED <<stage, kind, attempts, lastErr, metrics, outcome>>

NewSession ==
    /\ stage = "idle"
    /\ ctxDone
    /\ ctxDone' = FALSE
    /\ UNCHANGED <<stage, kind, attempts, lastErr, metrics, outcome>>

\* The call in flight ends, one way or another.
AttemptEnds ==
    \/ Return
    \/ AttemptPanics
    \/ \E err \in Failure : AttemptFails(err) \/ AttemptToRetry(err)

ReportEnds == ReportSucceeds \/ ReportFails

Next ==
    \/ \E k \in Kind : Deliver(k)
    \/ DeliverMalformed
    \/ AttemptEnds
    \/ RetryAgain
    \/ StopRetrying
    \/ Abandon
    \/ StartReport
    \/ ReportEnds
    \/ Cancel
    \/ NewSession

Spec == Init /\ [][Next]_vars

\* An attempt is limited to 4 seconds.  A report has no timeout of its own:
\* it is only sure to end once its context is cancelled.  When the timer and
\* the cancellation of a backoff race, Go's select chooses at random.
Fairness ==
    /\ WF_vars(AttemptEnds)
    /\ WF_vars(RetryAgain)
    /\ SF_vars(StopRetrying)
    /\ WF_vars(Abandon) /\ WF_vars(StartReport)
    /\ WF_vars(ctxDone /\ ReportEnds)

FairSpec == Spec /\ Fairness

-------------------------------------------------------------------------------
(* Properties.                                                             *)

\* Every variable keeps its type.
TypeOK ==
    /\ stage \in {"idle", "attempt", "backoff", "processError", "report"}
    /\ kind \in Kind
    /\ attempts \in 0 .. MaxAttempt
    /\ lastErr \in Failure \cup {"none"}
    /\ ctxDone \in BOOLEAN
    /\ metrics \in [Metric -> 0 .. MaxDeliveries]
    /\ outcome \in [Outcome -> 0 .. MaxDeliveries]

\* Every delivery ends in exactly one way: projected, dead-lettered, dumped,
\* or left for redelivery.
DeliveriesAddUp ==
    stage = "idle" =>
        outcome["delivered"] = outcome["projected"] + outcome["deadLettered"]
                               + outcome["dumped"] + outcome["abandoned"]

\* The counters of the two pipelines agree with each other: what data_total
\* counts is observed in the histogram unless it panicked, and what was not
\* observed as a success appears in error_total unless it was abandoned.
MetricsAddUp ==
    stage = "idle" =>
        /\ metrics["data_total"] =
             metrics["duration_ok"] + metrics["duration_failed"] + outcome["panicked"]
        /\ metrics["data_total"] + outcome["malformed"] =
             metrics["duration_ok"] + metrics["error_total"] + outcome["abandoned"]
        /\ metrics["late_data_total"] <= metrics["duration_ok"]

\* A transient failure is retried, never reported: no message goes to the
\* dead letter queue for an error that the code calls retryable.
RetryableNotReported ==
    stage \in {"processError", "report"} => lastErr # "retryable"

\* Unlimited retries do not outlive the session: a cancelled context brings
\* the goroutine back to its loop, whatever Valkey and S3 do.
CancelEndsDelivery == ctxDone ~> (stage = "idle")
===============================================================================
