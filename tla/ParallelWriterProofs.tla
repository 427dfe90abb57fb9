-------------------------- MODULE ParallelWriterProofs --------------------------
(***************************************************************************)
(* Proofs about ParallelWriter.tla, for any set of buckets and any number  *)
(* of attempts.                                                            *)
(*                                                                         *)
(* WriterInv says what a call has done so far (CallInv), which requests    *)
(* S3 may still deal with (RequestInv), and what the buckets hold as long  *)
(* as every call returned nil (ContentInv).  NilMeansEverywhere, RootCause *)
(* and BucketsAgree are what is left of it when the call returns.          *)
(***************************************************************************)
EXTENDS ParallelWriter, TLAPS

\* A call under way has no result yet; a goroutine that ended well has its
\* object stored, one that did not has left its error in the group; and the
\* group is only cancelled by its parent or by another error.
CallInv ==
    /\ call = "running" => result = "none" /\ attempt > 0
    /\ \A b \in Bucket :
          call = "running" /\ put[b] = "ok" => <<b, attempt>> \in landed
    /\ \A b \in Bucket : put[b] = "ended" => groupErr # "none"
    /\ groupErr = "canceled" => parentDone

\* A request is sent once, by the attempt that it is numbered after, and is
\* stored at most once.
RequestInv ==
    /\ inFlight \cap landed = {}
    /\ \A b \in Bucket, n \in 1 .. MaxAttempts :
          <<b, n>> \in inFlight \cup landed =>
              /\ n <= attempt
              /\ ~(n = attempt /\ call = "running" /\ put[b] = "ready")

\* As long as every call returned nil, only the current one has requests in
\* flight, and an object it stored is the last one of its bucket.
ContentInv ==
    ~troubled =>
        /\ \A b \in Bucket, n \in 1 .. MaxAttempts :
              <<b, n>> \in inFlight => n = attempt /\ call = "running"
        /\ \A b \in Bucket : <<b, attempt>> \in landed => content[b] = attempt

WriterInv ==
    /\ TypeOK /\ CallInv /\ RequestInv /\ ContentInv
    /\ NilMeansEverywhere /\ RootCause /\ BucketsAgree

\* Nothing was sent, and the buckets hold the object of attempt 0: none.
LEMMA WriterInit == Init => WriterInv
<1> USE WriterAssumption DEF Init
<1>1. ASSUME Init
      PROVE  TypeOK
  <2>1. attempt \in 0 .. MaxAttempts /\ content \in [Bucket -> 0 .. MaxAttempts]
    BY <1>1
  <2>2. parentDone \in BOOLEAN /\ troubled \in BOOLEAN
    BY <1>1
  <2> QED  BY <1>1, <2>1, <2>2 DEF TypeOK, PutStage, Error
<1>2. Init => CallInv
  BY DEF CallInv
<1>3. Init => RequestInv
  BY DEF RequestInv
<1>4. Init => ContentInv /\ BucketsAgree
  BY DEF ContentInv, BucketsAgree
<1>5. Init => NilMeansEverywhere /\ RootCause
  BY DEF NilMeansEverywhere, RootCause
<1> QED  BY <1>1, <1>2, <1>3, <1>4, <1>5 DEF WriterInv

\* Every step of the call, of its goroutines and of S3 preserves the types.
LEMMA TypeStep ==
  ASSUME TypeOK, call = "running" => attempt > 0, [Next]_vars
  PROVE  TypeOK'
<1> USE WriterAssumption DEF TypeOK, PutStage, Error, Request, callVars, s3Vars
<1>1. CASE Write
  <2>1. attempt' \in 0 .. MaxAttempts
    BY <1>1 DEF Write
  <2> QED  BY <1>1, <2>1 DEF Write
<1>2. CASE Expire
  BY <1>2 DEF Expire
<1>3. CASE Wait
  BY <1>3 DEF Wait
<1>4. CASE Crash
  BY <1>4 DEF Crash
<1>5. ASSUME NEW b \in Bucket, PutStep(b)
      PROVE  TypeOK'
  <2>1. CASE Send(b)
    BY <2>1 DEF Send
  <2>2. CASE PutSucceeds(b)
    BY <2>2 DEF PutSucceeds
  <2>3. CASE PutFails(b)
    BY <2>3 DEF PutFails, EndWith
  <2>4. CASE PutCanceled(b)
    BY <2>4 DEF PutCanceled, EndWith
  <2> QED  BY <1>5, <2>1, <2>2, <2>3, <2>4 DEF PutStep
<1>6. ASSUME NEW b \in Bucket, NEW n \in 1 .. MaxAttempts, Land(b, n) \/ Drop(b, n)
      PROVE  TypeOK'
  BY <1>6 DEF Land, Drop
<1>7. CASE UNCHANGED vars
  BY <1>7 DEF vars
<1> QED  BY <1>1, <1>2, <1>3, <1>4, <1>5, <1>6, <1>7 DEF Next

\* What an attempt does to its results is undone only by the next attempt.
LEMMA CallStep ==
  ASSUME WriterInv, [Next]_vars
  PROVE  CallInv'
<1> USE DEF WriterInv, TypeOK, CallInv
<1>1. CASE Write
  BY <1>1 DEF Write
<1>2. CASE Expire
  BY <1>2 DEF Expire, s3Vars
<1>3. CASE Wait
  BY <1>3 DEF Wait
<1>4. CASE Crash
  BY <1>4 DEF Crash
<1>5. ASSUME NEW b \in Bucket, PutStep(b)
      PROVE  CallInv'
  <2>1. CASE Send(b)
    BY <2>1 DEF Send
  <2>2. CASE PutSucceeds(b)
    BY <2>2 DEF PutSucceeds, s3Vars
  <2>3. CASE PutFails(b)
    BY <2>3 DEF PutFails, EndWith, s3Vars
  <2>4. CASE PutCanceled(b)
    BY <2>4 DEF PutCanceled, EndWith, groupDone, s3Vars
  <2> QED  BY <1>5, <2>1, <2>2, <2>3, <2>4 DEF PutStep
<1>6. ASSUME NEW b \in Bucket, NEW n \in 1 .. MaxAttempts, Land(b, n) \/ Drop(b, n)
      PROVE  CallInv'
  BY <1>6 DEF Land, Drop, callVars
<1>7. CASE UNCHANGED vars
  BY <1>7 DEF vars, callVars, s3Vars
<1> QED  BY <1>1, <1>2, <1>3, <1>4, <1>5, <1>6, <1>7 DEF Next

\* A request is only sent by a goroutine that has not sent it yet.
LEMMA RequestStep ==
  ASSUME WriterInv, [Next]_vars
  PROVE  RequestInv'
<1> USE DEF WriterInv, TypeOK, RequestInv
<1>1. CASE Write
  BY <1>1 DEF Write, s3Vars
<1>2. CASE Expire
  BY <1>2 DEF Expire, s3Vars
<1>3. CASE Wait
  BY <1>3 DEF Wait, s3Vars
<1>4. CASE Crash
  BY <1>4 DEF Crash, s3Vars
<1>5. ASSUME NEW b \in Bucket, PutStep(b)
      PROVE  RequestInv'
  <2>1. CASE Send(b)
    BY <2>1 DEF Send, CallInv
  <2>2. CASE PutSucceeds(b)
    BY <2>2 DEF PutSucceeds, s3Vars
  <2>3. CASE PutFails(b)
    BY <2>3 DEF PutFails, EndWith, s3Vars
  <2>4. CASE PutCanceled(b)
    BY <2>4 DEF PutCanceled, EndWith, s3Vars
  <2> QED  BY <1>5, <2>1, <2>2, <2>3, <2>4 DEF PutStep
<1>6. ASSUME NEW b \in Bucket, NEW n \in 1 .. MaxAttempts, Land(b, n) \/ Drop(b, n)
      PROVE  RequestInv'
  BY <1>6 DEF Land, Drop, callVars
<1>7. CASE UNCHANGED vars
  BY <1>7 DEF vars, callVars, s3Vars
<1> QED  BY <1>1, <1>2, <1>3, <1>4, <1>5, <1>6, <1>7 DEF Next

\* When a call returns nil each of its goroutines has ended well, so that its
\* object is stored.
LEMMA NilStored ==
  ASSUME WriterInv, Wait, groupErr = "none"
  PROVE  \A b \in Bucket : <<b, attempt>> \in landed
BY DEF WriterInv, CallInv, Wait

\* While no call fails, what S3 stores comes from the current attempt.
LEMMA ContentStep ==
  ASSUME WriterInv, [Next]_vars
  PROVE  ContentInv'
<1> USE DEF WriterInv, TypeOK, ContentInv
<1>1. CASE Write
  BY <1>1 DEF Write, s3Vars, RequestInv, Request
<1>2. CASE Expire
  BY <1>2 DEF Expire, s3Vars
<1>3. CASE Wait
  <2>1. CASE groupErr = "none"
    <3>1. \A b \in Bucket : <<b, attempt>> \in landed
      BY <1>3, <2>1, NilStored
    <3>2. \A b \in Bucket : <<b, attempt>> \notin inFlight
      BY <3>1 DEF RequestInv
    <3> QED  BY <1>3, <2>1, <3>2 DEF Wait, s3Vars
  <2>2. CASE groupErr # "none"
    BY <1>3, <2>2 DEF Wait
  <2> QED  BY <2>1, <2>2
<1>4. CASE Crash
  BY <1>4 DEF Crash
<1>5. ASSUME NEW b \in Bucket, PutStep(b)
      PROVE  ContentInv'
  <2>1. CASE Send(b)
    BY <2>1 DEF Send
  <2>2. CASE PutSucceeds(b)
    BY <2>2 DEF PutSucceeds, s3Vars
  <2>3. CASE PutFails(b)
    BY <2>3 DEF PutFails, EndWith, s3Vars
  <2>4. CASE PutCanceled(b)
    BY <2>4 DEF PutCanceled, EndWith, s3Vars
  <2> QED  BY <1>5, <2>1, <2>2, <2>3, <2>4 DEF PutStep
<1>6. ASSUME NEW b \in Bucket, NEW n \in 1 .. MaxAttempts
      PROVE  /\ Land(b, n) => ContentInv'
             /\ Drop(b, n) => ContentInv'
  BY DEF Land, Drop, callVars
<1>7. CASE UNCHANGED vars
  BY <1>7 DEF vars, callVars, s3Vars
<1> QED  BY <1>1, <1>2, <1>3, <1>4, <1>5, <1>6, <1>7 DEF Next

\* nil says that the objects of this attempt are stored, and no later request
\* takes that back.
LEMMA NilStep ==
  ASSUME WriterInv, [Next]_vars
  PROVE  NilMeansEverywhere'
<1> USE DEF WriterInv, NilMeansEverywhere
<1>1. CASE Write
  BY <1>1 DEF Write
<1>2. CASE Expire
  BY <1>2 DEF Expire, s3Vars
<1>3. CASE Wait
  BY <1>3, NilStored DEF Wait, s3Vars, TypeOK, Error
<1>4. CASE Crash
  BY <1>4 DEF Crash, s3Vars
<1>5. ASSUME NEW b \in Bucket, PutStep(b)
      PROVE  UNCHANGED <<result, attempt, landed>>
  BY <1>5 DEF PutStep, Send, PutSucceeds, PutFails, PutCanceled, EndWith, s3Vars
<1>6. ASSUME NEW b \in Bucket, NEW n \in 1 .. MaxAttempts, Land(b, n) \/ Drop(b, n)
      PROVE  UNCHANGED <<result, attempt>> /\ landed \subseteq landed'
  BY <1>6 DEF Land, Drop, callVars
<1>7. CASE UNCHANGED vars
  BY <1>7 DEF vars, callVars, s3Vars
<1> QED  BY <1>1, <1>2, <1>3, <1>4, <1>5, <1>6, <1>7 DEF Next

\* Between calls, what the result says of the context and of the buckets stays
\* true: nothing is in flight after calls that returned nil.
LEMMA IdleStep ==
  ASSUME WriterInv, [Next]_vars
  PROVE  RootCause' /\ BucketsAgree'
<1> USE DEF WriterInv, RootCause, BucketsAgree
<1>1. CASE Write
  BY <1>1 DEF Write
<1>2. CASE Expire
  BY <1>2 DEF Expire, s3Vars
<1>3. CASE Wait
  <2>1. RootCause'
    BY <1>3 DEF Wait, CallInv
  <2>2. BucketsAgree'
    BY <1>3, NilStored DEF Wait, s3Vars, ContentInv, TypeOK
  <2> QED  BY <2>1, <2>2
<1>4. CASE Crash
  BY <1>4 DEF Crash
<1>5. ASSUME NEW b \in Bucket, PutStep(b)
      PROVE  call = "running" /\ UNCHANGED <<call, result, parentDone>>
  BY <1>5 DEF PutStep, Send, PutSucceeds, PutFails, PutCanceled, EndWith
<1>6. ASSUME NEW b \in Bucket, NEW n \in 1 .. MaxAttempts, Land(b, n) \/ Drop(b, n)
      PROVE  RootCause' /\ BucketsAgree'
  BY <1>6 DEF Land, Drop, callVars, ContentInv, TypeOK
<1>7. CASE UNCHANGED vars
  BY <1>7 DEF vars, callVars, s3Vars
<1> QED  BY <1>1, <1>2, <1>3, <1>4, <1>5, <1>6, <1>7 DEF Next, TypeOK

\* WriterInv is an invariant of the writer.
LEMMA Invariance == Spec => []WriterInv
<1>1. WriterInv /\ [Next]_vars => WriterInv'
  <2> SUFFICES ASSUME WriterInv, [Next]_vars
               PROVE  WriterInv'
    OBVIOUS
  <2>1. TypeOK'
    BY TypeStep DEF WriterInv, CallInv
  <2> QED
    BY <2>1, CallStep, RequestStep, ContentStep, NilStep, IdleStep DEF WriterInv
<1> QED  BY WriterInit, <1>1, PTL DEF Spec

\* The writer and S3 keep every variable within its type.
THEOREM TypeCorrect == Spec => []TypeOK
BY Invariance, PTL DEF WriterInv

\* ParallelWriter: nil is returned only when all buckets have stored the object
\* of this attempt.
THEOREM NilIsEverywhere == Spec => []NilMeansEverywhere
BY Invariance, PTL DEF WriterInv

\* errgroup keeps the first error: a cancellation is only returned when the
\* timeout or the session cancelled the parent context.
THEOREM FirstErrorIsCause == Spec => []RootCause
BY Invariance, PTL DEF WriterInv

\* Requests that land late only follow a call that failed: otherwise all buckets
\* hold the object of the last attempt.
THEOREM SuccessesAgree == Spec => []BucketsAgree
BY Invariance, PTL DEF WriterInv
===============================================================================
