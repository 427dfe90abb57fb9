---------------------------- MODULE ParallelWriter ----------------------------
(***************************************************************************)
(* ParallelWriter (internal/domain/repo/projectedevent/parallel.go): the   *)
(* same object is put in every output bucket, one goroutine per bucket, in *)
(* an errgroup.  The first error is kept and cancels the context of the    *)
(* others; Wait returns when all have ended.                               *)
(*                                                                         *)
(* A PUT is a request (putObject in s3.go): S3 may store the object before *)
(* or after the client has given up on the answer.  The same message may   *)
(* be written several times, after a redelivery or a crash before the      *)
(* commit, under the same key but not always with the same content, so     *)
(* the content of a bucket is the number of the attempt it comes from.     *)
(***************************************************************************)
EXTENDS Naturals

CONSTANTS Bucket,         \* the configured outputs, at least one
          MaxAttempts     \* bound on the writes of one message

ASSUME WriterAssumption == Bucket # {} /\ MaxAttempts \in Nat

VARIABLES call,           \* is WriteProjected... running in this process?
          attempt,        \* number of the current or last call
          put,            \* put[b]: where the goroutine of bucket b is
          groupErr,       \* the first error of the group
          parentDone,     \* the 4 seconds are over, or the session is
          result,         \* what the last call returned
          inFlight,       \* requests <<b, n>> that S3 has not dealt with
          landed,         \* requests <<b, n>> that S3 has stored
          content,        \* content[b]: attempt whose object b holds, 0: none
          troubled        \* some call did not return nil

callVars == <<call, attempt, put, groupErr, parentDone, result>>
s3Vars == <<inFlight, landed, content>>
vars == <<callVars, s3Vars, troubled>>

Request == Bucket \X (1 .. MaxAttempts)

PutStage == {"ready", "sent", "ok", "ended"}
Error == {"none", "s3", "canceled"}

\* Mutant: the group's context is not derived from the parent's.
groupDoneAlone == groupErr # "none"

\* The context the goroutines share: cancelled by the parent or by an error.
groupDone == parentDone \/ groupErr # "none"

Init ==
    /\ call = "idle"
    /\ attempt = 0
    /\ put = [b \in Bucket |-> "ready"]
    /\ groupErr = "none"
    /\ parentDone = FALSE
    /\ result = "none"
    /\ inFlight = {} /\ landed = {}
    /\ content = [b \in Bucket |-> 0]
    /\ troubled = FALSE

\* A (re)delivered message is written, in a fresh context and group.
Write ==
    /\ call = "idle"
    /\ attempt < MaxAttempts
    /\ call' = "running"
    /\ attempt' = attempt + 1
    /\ put' = [b \in Bucket |-> "ready"]
    /\ groupErr' = "none"
    /\ parentDone' = FALSE
    /\ result' = "none"
    /\ UNCHANGED <<s3Vars, troubled>>

\* PutObject sends its request.
Send(b) ==
    /\ call = "running" /\ put[b] = "ready"
    /\ ~groupDone
    /\ put' = [put EXCEPT ![b] = "sent"]
    /\ inFlight' = inFlight \cup {<<b, attempt>>}
    /\ UNCHANGED <<call, attempt, groupErr, parentDone, result, landed, content,
                   troubled>>

\* A goroutine of the group ends with an error: errgroup keeps the first one.
EndWith(b, err) ==
    /\ put' = [put EXCEPT ![b] = "ended"]
    /\ groupErr' = IF groupErr = "none" THEN err ELSE groupErr
    /\ UNCHANGED <<call, attempt, parentDone, result, s3Vars, troubled>>

PutSucceeds(b) ==
    /\ call = "running" /\ put[b] = "sent"
    /\ <<b, attempt>> \in landed
    /\ put' = [put EXCEPT ![b] = "ok"]
    /\ UNCHANGED <<call, attempt, groupErr, parentDone, result, s3Vars, troubled>>

\* Mutant: the error of a PUT is dropped.
PutFailureDropped(b) ==
    /\ call = "running" /\ put[b] = "sent"
    /\ put' = [put EXCEPT ![b] = "ok"]
    /\ UNCHANGED <<call, attempt, groupErr, parentDone, result, s3Vars, troubled>>

\* Mutant: later errors are joined to the first one.
PutFailsJoined(b) ==
    /\ call = "running" /\ put[b] = "sent"
    /\ put' = [put EXCEPT ![b] = "ended"]
    /\ groupErr' = IF groupErr = "none" THEN "s3" ELSE "joined"
    /\ UNCHANGED <<call, attempt, parentDone, result, s3Vars, troubled>>

\* S3 or the network answers with an error (the object may be there).
PutFails(b) ==
    /\ call = "running" /\ put[b] = "sent"
    /\ EndWith(b, "s3")

\* The client gives up because the context is cancelled.
PutCanceled(b) ==
    /\ call = "running" /\ put[b] \in {"ready", "sent"}
    /\ groupDone
    /\ EndWith(b, "canceled")

\* Main.Process: context.WithTimeout(processingCtx, 4*time.Second)
Expire ==
    /\ call = "running"
    /\ ~parentDone
    /\ parentDone' = TRUE
    /\ UNCHANGED <<call, attempt, put, groupErr, result, s3Vars, troubled>>

\* Mutant: the call returns with the first PUT that ends.
WaitForOne ==
    /\ call = "running"
    /\ \E b \in Bucket : put[b] \in {"ok", "ended"}
    /\ call' = "idle"
    /\ result' = IF groupErr = "none" THEN "nil" ELSE groupErr
    /\ troubled' = (troubled \/ groupErr # "none")
    /\ UNCHANGED <<attempt, put, groupErr, parentDone, s3Vars>>

\* Mutant: the error of the context is returned, not the one of the group.
WaitContext ==
    /\ call = "running"
    /\ \A b \in Bucket : put[b] \in {"ok", "ended"}
    /\ call' = "idle"
    /\ result' = IF groupErr = "none" THEN "nil" ELSE "canceled"
    /\ troubled' = (troubled \/ groupErr # "none")
    /\ UNCHANGED <<attempt, put, groupErr, parentDone, s3Vars>>

\* group.Wait()
Wait ==
    /\ call = "running"
    /\ \A b \in Bucket : put[b] \in {"ok", "ended"}
    /\ call' = "idle"
    /\ result' = IF groupErr = "none" THEN "nil" ELSE groupErr
    /\ troubled' = (troubled \/ groupErr # "none")
    /\ UNCHANGED <<attempt, put, groupErr, parentDone, s3Vars>>

\* The process dies during the call.
Crash ==
    /\ call = "running"
    /\ call' = "idle"
    /\ troubled' = TRUE
    /\ UNCHANGED <<attempt, put, groupErr, parentDone, result, s3Vars>>

\* S3 stores the object of a request, over what the key held.
Land(b, n) ==
    /\ <<b, n>> \in inFlight
    /\ inFlight' = inFlight \ {<<b, n>>}
    /\ landed' = landed \cup {<<b, n>>}
    /\ content' = [content EXCEPT ![b] = n]
    /\ UNCHANGED <<callVars, troubled>>

\* The request is lost.
Drop(b, n) ==
    /\ <<b, n>> \in inFlight
    /\ inFlight' = inFlight \ {<<b, n>>}
    /\ UNCHANGED <<callVars, landed, content, troubled>>

PutStep(b) ==
    \/ Send(b)
    \/ PutSucceeds(b)
    \/ PutFails(b)
    \/ PutCanceled(b)

Next ==
    \/ Write \/ Expire \/ Wait \/ Crash
    \/ \E b \in Bucket : PutStep(b)
    \/ \E b \in Bucket, n \in 1 .. MaxAttempts : Land(b, n) \/ Drop(b, n)

Spec == Init /\ [][Next]_vars

\* The clock of the timeout runs, and so do the goroutines of the process;
\* nothing is assumed of S3.
Fairness ==
    /\ WF_vars(Expire) /\ WF_vars(Wait)
    /\ \A b \in Bucket : WF_vars(PutCanceled(b))

FairSpec == Spec /\ Fairness

-------------------------------------------------------------------------------
(* Properties.                                                             *)

\* Every variable keeps its type.
TypeOK ==
    /\ call \in {"idle", "running"}
    /\ attempt \in 0 .. MaxAttempts
    /\ put \in [Bucket -> PutStage]
    /\ groupErr \in Error
    /\ parentDone \in BOOLEAN
    /\ result \in {"none", "nil", "s3", "canceled"}
    /\ inFlight \subseteq Request
    /\ landed \subseteq Request
    /\ content \in [Bucket -> 0 .. MaxAttempts]
    /\ troubled \in BOOLEAN

\* The write is acknowledged, and the message will be committed, only when
\* every bucket has stored the object of this very attempt.
NilMeansEverywhere ==
    result = "nil" => \A b \in Bucket : <<b, attempt>> \in landed

\* The error that goes to the dead letter queue is the root cause: the
\* cancellation of the sibling PUTs never hides the error that provoked it.
RootCause == result = "canceled" => parentDone

\* Buckets only diverge when a call is running, failed or crashed: as long as
\* every call returned nil, they all hold the last object.
BucketsAgree ==
    (call = "idle" /\ ~troubled) => \A b \in Bucket : content[b] = attempt

\* A bucket that never answers cannot hang the partition: the call ends.
CallEnds == (call = "running") ~> (call = "idle")
===============================================================================
