--------------------------- MODULE JSONHandlerProofs ---------------------------
(***************************************************************************)
(* Proofs about JSONHandler.tla, for any number of pods, partitions and    *)
(* messages and any number of disruptions.                                 *)
(*                                                                         *)
(* IInv is inductive: TypeOK bounds the positions, SessionInv says what    *)
(* the marks and positions of a live session mean, CommittedHandled is the *)
(* goal.  The refinement of DeliveryContract.tla follows from IInv.        *)
(***************************************************************************)
EXTENDS JSONHandler, TLAPS

IInv == TypeOK /\ CommittedHandled /\ SessionInv

\* Init: nothing was consumed yet, no session exists.
LEMMA InitInv == Init => IInv
<1> SUFFICES ASSUME Init PROVE IInv
  OBVIOUS
<1>1. TypeOK
  BY ConstantsAssumption DEF Init, TypeOK, PodStatus, Stage
<1>2. CommittedHandled
  BY DEF Init, CommittedHandled
<1>3. SessionInv
  BY DEF Init, SessionInv, InSession
<1> QED  BY <1>1, <1>2, <1>3 DEF IInv

-------------------------------------------------------------------------------
(* A step of ConsumeClaim preserves the invariant.                         *)

\* ConsumeClaim and processError, action by action, preserve the invariant.
LEMMA ClaimStepInv ==
  ASSUME IInv, NEW c \in Pod, NEW p \in Partition, ClaimStep(c, p)
  PROVE  IInv'
<1> USE ConstantsAssumption DEF brokerVars, processVars, claimVars, effectVars,
   Goto, At, InSession, Advance, ClaimInv, MarksHandled, PositionHandled,
   InHandPending, CommitBehindMarks, Working, TypeOK
<1>1. CASE Receive(c, p)
  <2>1. TypeOK'
    BY <1>1 DEF IInv, Receive, InHand, SessionInv, Stage, Message
  <2>2. CommittedHandled'
    BY <1>1 DEF IInv, CommittedHandled, handled, Receive, InHand
  <2>3. SessionInv'
    BY <1>1 DEF IInv, handled, Receive, InHand, SessionInv, Stage
  <2> QED  BY <2>1, <2>2, <2>3 DEF IInv
<1>2. CASE StopReceiving(c, p)
  <2>1. TypeOK'
    BY <1>2 DEF IInv, StopReceiving, SessionInv, Stage, Message
  <2>2. CommittedHandled'
    BY <1>2 DEF IInv, CommittedHandled, handled, StopReceiving
  <2>3. SessionInv'
    BY <1>2 DEF IInv, handled, StopReceiving, SessionInv, InHand, Stage
  <2> QED  BY <2>1, <2>2, <2>3 DEF IInv
<1>3. CASE ProcessSucceeds(c, p)
  <2>1. TypeOK'
    BY <1>3 DEF IInv, ProcessSucceeds, InHand, SessionInv, Stage, Message
  <2>2. CommittedHandled'
    BY <1>3 DEF IInv, CommittedHandled, handled, ProcessSucceeds, InHand
  <2>3. SessionInv'
    BY <1>3 DEF IInv, handled, ProcessSucceeds, InHand, SessionInv, Stage
  <2> QED  BY <2>1, <2>2, <2>3 DEF IInv
<1>4. CASE ProcessFails(c, p)
  <2>1. TypeOK'
    BY <1>4 DEF IInv, ProcessFails, SessionInv, Stage, Message
  <2>2. CommittedHandled'
    BY <1>4 DEF IInv, CommittedHandled, handled, ProcessFails
  <2>3. SessionInv'
    BY <1>4 DEF IInv, handled, ProcessFails, SessionInv, InHand, Stage
  <2> QED  BY <2>1, <2>2, <2>3 DEF IInv
<1>5. CASE AbandonMessage(c, p)
  <2>1. TypeOK'
    BY <1>5 DEF IInv, AbandonMessage, SessionInv, Stage, Message
  <2>2. CommittedHandled'
    BY <1>5 DEF IInv, CommittedHandled, handled, AbandonMessage
  <2>3. ASSUME NEW d \in Pod, NEW q \in Partition, InSession(d, q)'
        PROVE  ClaimInv(d, q)'
    <3>1. /\ ClaimInv(d, q)
          /\ sessDone[c] /\ sessDone' = sessDone
          /\ next' = [next EXCEPT ![c][p] = @ + 1]
          /\ stage' = [stage EXCEPT ![c][p] = "receive"]
          /\ UNCHANGED <<committed, owner, marked>> /\ handled' = handled
      BY <1>5, <2>3 DEF IInv, SessionInv, AbandonMessage, handled
    <3>2. CASE d = c /\ q = p
      BY <3>1, <3>2 DEF IInv
    <3>3. CASE ~(d = c /\ q = p)
      BY <3>1, <3>3 DEF IInv, InHand
    <3> QED  BY <3>2, <3>3
  <2> QED  BY <2>1, <2>2, <2>3 DEF IInv, SessionInv
<1>6. CASE ReportError(c, p)
  <2>1. TypeOK'
    BY <1>6 DEF IInv, ReportError, SessionInv, Stage, Message
  <2>2. CommittedHandled'
    BY <1>6 DEF IInv, CommittedHandled, handled, ReportError
  <2>3. SessionInv'
    BY <1>6 DEF IInv, handled, ReportError, SessionInv, InHand, Stage
  <2> QED  BY <2>1, <2>2, <2>3 DEF IInv
<1>7. CASE ReportSucceeds(c, p)
  <2>1. TypeOK'
    BY <1>7 DEF IInv, ReportSucceeds, InHand, SessionInv, Stage, Message
  <2>2. CommittedHandled'
    BY <1>7 DEF IInv, CommittedHandled, handled, ReportSucceeds, InHand
  <2>3. SessionInv'
    BY <1>7 DEF IInv, handled, ReportSucceeds, InHand, SessionInv, Stage
  <2> QED  BY <2>1, <2>2, <2>3 DEF IInv
<1>8. CASE ReportFails(c, p)
  <2>1. TypeOK'
    BY <1>8 DEF IInv, ReportFails, InHand, SessionInv, Stage, Message
  <2>2. CommittedHandled'
    BY <1>8 DEF IInv, CommittedHandled, handled, ReportFails, InHand
  <2>3. SessionInv'
    BY <1>8 DEF IInv, handled, ReportFails, InHand, SessionInv, Stage
  <2> QED  BY <2>1, <2>2, <2>3 DEF IInv
<1>9. CASE MarkMessage(c, p)
  <2>1. /\ pod[c] = "session" /\ p \in claims[c] /\ stage[c][p] = "mark"
        /\ next' = [next EXCEPT ![c][p] = @ + 1]
        /\ stage' = [stage EXCEPT ![c][p] = "receive"]
        /\ UNCHANGED <<brokerVars, processVars, claims, effectVars>>
        /\ handled' = handled
    BY <1>9 DEF MarkMessage, handled
  <2>2. ClaimInv(c, p)
    BY <2>1 DEF IInv, SessionInv
  <2>3. next[c][p] < LogEnd[p] /\ <<p, next[c][p]>> \in handled
    BY <2>1, <2>2 DEF InHand
  <2>4. marked' = [marked EXCEPT ![c][p] = next[c][p] + 1]
    <3>1. marked[c][p] \in Nat /\ next[c][p] \in Nat /\ marked[c][p] <= next[c][p]
      BY <2>2 DEF IInv
    <3>2. Max(marked[c][p], next[c][p] + 1) = next[c][p] + 1
      BY <3>1 DEF Max
    <3> QED  BY <1>9, <3>2 DEF MarkMessage
  <2>5. TypeOK'
    BY <1>9, <2>1, <2>3, <2>4 DEF IInv, Stage, MarkMessage, Message
  <2>6. CommittedHandled'
    BY <2>1 DEF IInv, CommittedHandled
  <2>7. ASSUME NEW d \in Pod, NEW q \in Partition, InSession(d, q)'
        PROVE  ClaimInv(d, q)'
    <3>1. ClaimInv(d, q)
      BY <2>1, <2>7 DEF IInv, SessionInv
    <3>2. CASE d = c /\ q = p
      <4>1. next[c][p] \in Nat /\ next'[c][p] = next[c][p] + 1
            /\ marked'[c][p] = next[c][p] + 1 /\ stage'[c][p] = "receive"
        BY <2>1, <2>4 DEF IInv
      <4>2. \A o \in 0 .. next[c][p] : <<p, o>> \in handled
        BY <2>1, <2>2, <2>3, <4>1
      <4>3. owner[p] = c => committed[p] <= next[c][p] + 1
        BY <2>2, <2>3, <4>1 DEF IInv
      <4> QED
        BY <2>1, <3>2, <4>1, <4>2, <4>3
    <3>3. CASE ~(d = c /\ q = p)
      BY <2>1, <2>4, <3>1, <3>3 DEF IInv, InHand
    <3> QED  BY <3>2, <3>3
  <2> QED  BY <2>5, <2>6, <2>7 DEF IInv, SessionInv
<1> QED
  BY <1>1, <1>2, <1>3, <1>4, <1>5, <1>6, <1>7, <1>8, <1>9 DEF ClaimStep

-------------------------------------------------------------------------------
(* Commits, and the steps that leave the surviving claims where they are.  *)

\* A commit moves offsets forward, over handled messages.
LEMMA CommitForward ==
  ASSUME IInv, NEW c \in Pod, pod[c] = "session", CommitMarks(c),
         NEW p \in Partition
  PROVE  /\ committed'[p] \in Nat /\ committed'[p] <= LogEnd[p]
         /\ committed[p] <= committed'[p]
         /\ \A o \in 0 .. committed'[p] - 1 : <<p, o>> \in handled
<1>1. CASE p \in claims[c] /\ owner[p] = c
  <2>1. committed'[p] = marked[c][p]
    BY <1>1 DEF CommitMarks
  <2>2. MarksHandled(c, p) /\ CommitBehindMarks(c, p)
    BY <1>1 DEF IInv, SessionInv, InSession, ClaimInv
  <2> QED
    BY <1>1, <2>1, <2>2 DEF IInv, TypeOK, MarksHandled, CommitBehindMarks
<1>2. CASE ~(p \in claims[c] /\ owner[p] = c)
  <2>1. committed'[p] = committed[p]
    BY <1>2 DEF CommitMarks
  <2> QED
    BY <2>1, ConstantsAssumption DEF IInv, TypeOK, CommittedHandled
<1> QED  BY <1>1, <1>2

\* A claim keeps its invariant through a step that does not move it.
LEMMA FrameInv ==
  ASSUME IInv, TypeOK', CommittedHandled', handled' = handled,
         \A c \in Pod, p \in Partition :
            InSession(c, p)' =>
              /\ InSession(c, p)
              /\ stage'[c][p] = stage[c][p]
              /\ next'[c][p] = next[c][p]
              /\ marked'[c][p] = marked[c][p]
              /\ sessDone[c] => sessDone'[c]
              /\ owner'[p] = c => committed'[p] <= marked[c][p]
  PROVE  IInv'
<1> SUFFICES ASSUME NEW c \in Pod, NEW p \in Partition, InSession(c, p)'
             PROVE  ClaimInv(c, p)'
  BY DEF IInv, SessionInv
<1>1. ClaimInv(c, p)
  BY DEF IInv, SessionInv
<1> QED
  BY <1>1 DEF ClaimInv, MarksHandled, PositionHandled, InHandPending,
     CommitBehindMarks, InHand

\* What a step that commits nothing and handles nothing owes.
LEMMA QuietInv ==
  ASSUME IInv, TypeOK', UNCHANGED <<committed, effectVars>>,
         \A c \in Pod, p \in Partition :
            InSession(c, p)' =>
              /\ InSession(c, p)
              /\ stage'[c][p] = stage[c][p]
              /\ next'[c][p] = next[c][p]
              /\ marked'[c][p] = marked[c][p]
              /\ sessDone[c] => sessDone'[c]
              /\ owner'[p] = c => owner[p] = c
  PROVE  IInv'
<1>1. handled' = handled /\ CommittedHandled'
  BY DEF IInv, effectVars, handled, CommittedHandled
<1>2. ASSUME NEW c \in Pod, NEW p \in Partition, InSession(c, p)', owner'[p] = c
      PROVE  committed'[p] <= marked[c][p]
  BY <1>2 DEF IInv, SessionInv, ClaimInv, CommitBehindMarks
<1> QED  BY <1>1, <1>2, FrameInv

-------------------------------------------------------------------------------
(* A step of the group preserves the invariant.                            *)

\* Joining, committing, leaving: the steps of Run and of the consumer group
\* preserve the invariant.
LEMMA GroupStepInv ==
  ASSUME IInv, NEW c \in Pod, GroupStep(c)
  PROVE  IInv'
<1> USE ConstantsAssumption
<1>1. ASSUME NEW P \in SUBSET Partition, JoinGroup(c, P)
      PROVE  IInv'
  <2>1. TypeOK'
    BY <1>1 DEF IInv, TypeOK, JoinGroup, SetPod, effectVars, PodStatus, Stage
  <2>2. handled' = handled /\ committed' = committed /\ CommittedHandled'
    BY <1>1 DEF IInv, JoinGroup, effectVars, handled, CommittedHandled
  <2>3. ASSUME NEW d \in Pod, NEW q \in Partition, InSession(d, q)'
        PROVE  ClaimInv(d, q)'
    <3>1. CASE d = c
      <4>1. /\ stage'[d][q] = "receive"
            /\ next'[d][q] = committed[q] /\ marked'[d][q] = committed[q]
        BY <1>1, <3>1 DEF IInv, TypeOK, JoinGroup
      <4>2. committed[q] \in Nat
        BY DEF IInv, TypeOK
      <4> QED
        BY <2>2, <4>1, <4>2 DEF IInv, CommittedHandled, ClaimInv, MarksHandled,
           PositionHandled, InHandPending, CommitBehindMarks, Working
    <3>2. CASE d # c
      <4>1. ClaimInv(d, q)
        BY <1>1, <2>3, <3>2 DEF IInv, TypeOK, SessionInv, InSession, JoinGroup,
           SetPod
      <4>2. /\ stage'[d] = stage[d] /\ next'[d] = next[d] /\ marked'[d] = marked[d]
            /\ sessDone' = sessDone /\ (owner'[q] = d => owner[q] = d)
        BY <1>1, <3>2 DEF IInv, TypeOK, JoinGroup
      <4> QED
        BY <2>2, <4>1, <4>2 DEF ClaimInv, MarksHandled, PositionHandled,
           InHandPending, CommitBehindMarks, InHand
    <3> QED  BY <3>1, <3>2
  <2> QED  BY <2>1, <2>2, <2>3 DEF IInv, SessionInv
<1>2. CASE AutoCommit(c)
  <2>1. /\ pod[c] = "session" /\ CommitMarks(c) /\ handled' = handled
        /\ UNCHANGED <<owner, processVars, claimVars, effectVars, disruptions>>
    BY <1>2 DEF AutoCommit, effectVars, handled
  <2>2. committed' \in [Partition -> Nat]
        /\ \A p \in Partition : committed'[p] <= LogEnd[p]
    BY <2>1, CommitForward DEF CommitMarks
  <2>3. TypeOK'
    BY <2>1, <2>2 DEF IInv, TypeOK, processVars, claimVars, effectVars
  <2>4. CommittedHandled'
    BY <2>1, CommitForward DEF CommittedHandled
  <2>5. ASSUME NEW d \in Pod, NEW q \in Partition, InSession(d, q)', owner'[q] = d
        PROVE  committed'[q] <= marked[d][q]
    <3>1. InSession(d, q) /\ owner[q] = d
      BY <2>1, <2>5 DEF InSession, processVars, claimVars
    <3>2. CASE d = c
      BY <2>1, <3>1, <3>2 DEF IInv, TypeOK, InSession, CommitMarks
    <3>3. CASE d # c
      BY <2>1, <3>1, <3>3 DEF IInv, SessionInv, ClaimInv, CommitBehindMarks,
         CommitMarks
    <3> QED  BY <3>2, <3>3
  <2> QED
    BY <2>1, <2>3, <2>4, <2>5, FrameInv DEF InSession, processVars, claimVars
<1>3. CASE ReleaseSession(c)
  <2>1. /\ pod[c] = "session" /\ handled' = handled
        /\ CommitMarks(c) \/ committed' = committed
        /\ Leave(c) /\ ForgetSession(c)
        /\ UNCHANGED <<effectVars, disruptions>>
    BY <1>3 DEF ReleaseSession, effectVars, handled
  <2>2. /\ committed' \in [Partition -> Nat]
        /\ \A p \in Partition : committed'[p] <= LogEnd[p]
        /\ CommittedHandled'
    <3>1. CASE CommitMarks(c)
      BY <2>1, <3>1, CommitForward DEF CommitMarks, CommittedHandled
    <3>2. CASE committed' = committed
      BY <2>1, <3>2 DEF IInv, TypeOK, CommittedHandled
    <3> QED  BY <2>1, <3>1, <3>2
  <2>3. TypeOK'
    BY <1>3, <2>1, <2>2 DEF IInv, TypeOK, ReleaseSession, SetPod, Leave,
       ForgetSession, effectVars, PodStatus, Stage
  <2>4. ASSUME NEW d \in Pod, NEW q \in Partition, InSession(d, q)'
        PROVE  d # c /\ InSession(d, q)
    BY <1>3, <2>1, <2>4 DEF IInv, TypeOK, InSession, ReleaseSession, SetPod,
       ForgetSession
  <2>5. ASSUME NEW d \in Pod, NEW q \in Partition, InSession(d, q)', owner'[q] = d
        PROVE  committed'[q] <= marked[d][q]
    <3>1. d # c /\ InSession(d, q) /\ owner[q] = d
      BY <2>1, <2>4, <2>5, ConstantsAssumption DEF Leave
    <3>2. committed'[q] = committed[q]
      BY <2>1, <3>1 DEF CommitMarks
    <3> QED
      BY <3>1, <3>2 DEF IInv, SessionInv, ClaimInv, CommitBehindMarks
  <2>6. ASSUME NEW d \in Pod, NEW q \in Partition, InSession(d, q)'
        PROVE  /\ stage'[d][q] = stage[d][q] /\ next'[d][q] = next[d][q]
               /\ marked'[d][q] = marked[d][q] /\ sessDone'[d] = sessDone[d]
    BY <2>1, <2>4, <2>6 DEF IInv, TypeOK, ForgetSession
  <2> QED
    BY <2>1, <2>2, <2>3, <2>4, <2>5, <2>6, FrameInv
<1>4. CASE StopRunner(c)
  <2>1. TypeOK'
    BY <1>4 DEF IInv, TypeOK, StopRunner, SetPod, brokerVars, processVars,
       claimVars, effectVars, PodStatus, Stage
  <2>2. \A d \in Pod, q \in Partition :
           InSession(d, q)' =>
             /\ InSession(d, q)
             /\ stage'[d][q] = stage[d][q] /\ next'[d][q] = next[d][q]
             /\ marked'[d][q] = marked[d][q]
             /\ sessDone[d] => sessDone'[d]
             /\ owner'[q] = d => owner[q] = d
    BY <1>4 DEF IInv, TypeOK, InSession, StopRunner, SetPod, brokerVars,
       processVars, claimVars
  <2> QED
    BY <1>4, <2>1, <2>2, QuietInv DEF StopRunner, brokerVars
<1>5. CASE StartPod(c)
  <2>1. TypeOK'
    BY <1>5 DEF IInv, TypeOK, StartPod, SetPod, brokerVars, processVars,
       claimVars, effectVars, PodStatus, Stage
  <2>2. \A d \in Pod, q \in Partition :
           InSession(d, q)' =>
             /\ InSession(d, q)
             /\ stage'[d][q] = stage[d][q] /\ next'[d][q] = next[d][q]
             /\ marked'[d][q] = marked[d][q]
             /\ sessDone[d] => sessDone'[d]
             /\ owner'[q] = d => owner[q] = d
    BY <1>5 DEF IInv, TypeOK, InSession, StartPod, SetPod, brokerVars,
       processVars, claimVars
  <2> QED
    BY <1>5, <2>1, <2>2, QuietInv DEF StartPod, brokerVars
<1>6. CASE ExpireMember(c)
  <2>1. TypeOK'
    BY <1>6 DEF IInv, TypeOK, ExpireMember, InSession, brokerVars, processVars,
       claimVars, effectVars, PodStatus, Stage
  <2>2. \A d \in Pod, q \in Partition :
           InSession(d, q)' =>
             /\ InSession(d, q)
             /\ stage'[d][q] = stage[d][q] /\ next'[d][q] = next[d][q]
             /\ marked'[d][q] = marked[d][q]
             /\ sessDone[d] => sessDone'[d]
             /\ owner'[q] = d => owner[q] = d
    BY <1>6 DEF IInv, TypeOK, InSession, ExpireMember, brokerVars, processVars,
       claimVars
  <2> QED
    BY <1>6, <2>1, <2>2, QuietInv DEF ExpireMember, brokerVars
<1>7. CASE NoticeRebalance(c)
  <2>1. TypeOK'
    BY <1>7 DEF IInv, TypeOK, NoticeRebalance, brokerVars, processVars,
       claimVars, effectVars, PodStatus, Stage
  <2>2. \A d \in Pod, q \in Partition :
           InSession(d, q)' =>
             /\ InSession(d, q)
             /\ stage'[d][q] = stage[d][q] /\ next'[d][q] = next[d][q]
             /\ marked'[d][q] = marked[d][q]
             /\ sessDone[d] => sessDone'[d]
             /\ owner'[q] = d => owner[q] = d
    BY <1>7 DEF IInv, TypeOK, InSession, NoticeRebalance, brokerVars,
       processVars, claimVars
  <2> QED
    BY <1>7, <2>1, <2>2, QuietInv DEF NoticeRebalance, brokerVars
<1> QED
  BY <1>1, <1>2, <1>3, <1>4, <1>5, <1>6, <1>7 DEF GroupStep

\* Rebalances, signals, kills, failures of Consume and fencings preserve the
\* invariant.
LEMMA DisruptionInv ==
  ASSUME IInv, NEW c \in Pod, Disruption(c)
  PROVE  IInv'
<1> USE ConstantsAssumption
<1> USE DEF Disrupt
<1>1. CASE Rebalance(c)
  <2>1. TypeOK'
    BY <1>1 DEF IInv, TypeOK, Rebalance, brokerVars, processVars, claimVars,
       effectVars, PodStatus, Stage
  <2>2. \A d \in Pod, q \in Partition :
           InSession(d, q)' =>
             /\ InSession(d, q)
             /\ stage'[d][q] = stage[d][q] /\ next'[d][q] = next[d][q]
             /\ marked'[d][q] = marked[d][q]
             /\ sessDone[d] => sessDone'[d]
             /\ owner'[q] = d => owner[q] = d
    BY <1>1 DEF IInv, TypeOK, InSession, Rebalance, brokerVars, processVars,
       claimVars
  <2> QED
    BY <1>1, <2>1, <2>2, QuietInv DEF Rebalance, brokerVars
<1>2. CASE Signal(c)
  <2>1. TypeOK'
    BY <1>2 DEF IInv, TypeOK, Signal, brokerVars, processVars, claimVars,
       effectVars, PodStatus, Stage
  <2>2. \A d \in Pod, q \in Partition :
           InSession(d, q)' =>
             /\ InSession(d, q)
             /\ stage'[d][q] = stage[d][q] /\ next'[d][q] = next[d][q]
             /\ marked'[d][q] = marked[d][q]
             /\ sessDone[d] => sessDone'[d]
             /\ owner'[q] = d => owner[q] = d
    BY <1>2 DEF IInv, TypeOK, InSession, Signal, brokerVars, processVars,
       claimVars
  <2> QED
    BY <1>2, <2>1, <2>2, QuietInv DEF Signal, brokerVars
<1>3. CASE Kill(c)
  <2>1. TypeOK'
    BY <1>3 DEF IInv, TypeOK, Kill, SetPod, ForgetSession, brokerVars,
       processVars, claimVars, effectVars, PodStatus, Stage
  <2>2. \A d \in Pod, q \in Partition :
           InSession(d, q)' =>
             /\ InSession(d, q)
             /\ stage'[d][q] = stage[d][q] /\ next'[d][q] = next[d][q]
             /\ marked'[d][q] = marked[d][q]
             /\ sessDone[d] => sessDone'[d]
             /\ owner'[q] = d => owner[q] = d
    BY <1>3 DEF IInv, TypeOK, InSession, Kill, SetPod, ForgetSession,
       brokerVars, processVars, claimVars
  <2> QED
    BY <1>3, <2>1, <2>2, QuietInv DEF Kill, brokerVars
<1>4. CASE ConsumeFails(c)
  <2>1. TypeOK'
    BY <1>4 DEF IInv, TypeOK, ConsumeFails, SetPod, brokerVars, processVars,
       claimVars, effectVars, PodStatus, Stage
  <2>2. \A d \in Pod, q \in Partition :
           InSession(d, q)' =>
             /\ InSession(d, q)
             /\ stage'[d][q] = stage[d][q] /\ next'[d][q] = next[d][q]
             /\ marked'[d][q] = marked[d][q]
             /\ sessDone[d] => sessDone'[d]
             /\ owner'[q] = d => owner[q] = d
    BY <1>4 DEF IInv, TypeOK, InSession, ConsumeFails, SetPod, brokerVars,
       processVars, claimVars
  <2> QED
    BY <1>4, <2>1, <2>2, QuietInv DEF ConsumeFails, brokerVars
<1>5. CASE Fence(c)
  <2>1. TypeOK'
    BY <1>5 DEF IInv, TypeOK, Fence, Leave, brokerVars, processVars, claimVars,
       effectVars, PodStatus, Stage
  <2>2. \A d \in Pod, q \in Partition :
           InSession(d, q)' =>
             /\ InSession(d, q)
             /\ stage'[d][q] = stage[d][q] /\ next'[d][q] = next[d][q]
             /\ marked'[d][q] = marked[d][q]
             /\ sessDone[d] => sessDone'[d]
             /\ owner'[q] = d => owner[q] = d
    BY <1>5 DEF IInv, TypeOK, InSession, Fence, Leave, brokerVars, processVars,
       claimVars
  <2> QED
    BY <1>5, <2>1, <2>2, QuietInv DEF Fence, brokerVars
<1> QED
  BY <1>1, <1>2, <1>3, <1>4, <1>5 DEF Disruption

-------------------------------------------------------------------------------
(* The invariant, and what it gives.                                       *)

\* IInv is inductive.
LEMMA NextInv == IInv /\ [Next]_vars => IInv'
<1> SUFFICES ASSUME IInv, [Next]_vars PROVE IInv'
  OBVIOUS
<1>1. CASE \E c \in Pod, p \in Partition : ClaimStep(c, p)
  BY <1>1, ClaimStepInv
<1>2. CASE \E c \in Pod : GroupStep(c)
  BY <1>2, GroupStepInv
<1>3. CASE \E c \in Pod : Disruption(c)
  BY <1>3, DisruptionInv
<1>4. CASE Drained \/ UNCHANGED vars
  <2>1. UNCHANGED <<committed, owner, pod, mainDone, sessDone, claims, stage,
                    next, marked, projected, deadLettered, dumped, disruptions>>
    BY <1>4 DEF Drained, vars, brokerVars, processVars, claimVars, effectVars
  <2>2. TypeOK'
    BY <2>1 DEF IInv, TypeOK
  <2> QED
    BY <2>1, <2>2, QuietInv DEF InSession, effectVars
<1> QED
  BY <1>1, <1>2, <1>3, <1>4 DEF Next

\* Every reachable state of the consumer satisfies the inductive invariant.
THEOREM Invariance == Spec => []IInv
BY InitInv, NextInv, PTL DEF Spec

\* JSONHandler: every variable keeps its type, positions stay within the log.
THEOREM TypeCorrect == Spec => []TypeOK
BY Invariance, PTL DEF IInv

\* ConsumeClaim, processError: no committed message was lost.
THEOREM NothingLost == Spec => []CommittedHandled
BY Invariance, PTL DEF IInv

\* ConsumeClaim: marks and positions of a live session are justified.
THEOREM SessionsSound == Spec => []SessionInv
BY Invariance, PTL DEF IInv

\* JoinGroup, MarkMessage: an owner never works below the committed offset.
THEOREM NoCommittedRedelivery == Spec => []CommittedNotRedelivered
<1>1. IInv => CommittedNotRedelivered
  <2> SUFFICES ASSUME IInv, NEW c \in Pod, NEW p \in Partition,
                      InSession(c, p), owner[p] = c
               PROVE  committed[p] <= next[c][p]
    BY DEF CommittedNotRedelivered
  <2>1. committed[p] <= marked[c][p] /\ marked[c][p] <= next[c][p]
    BY DEF IInv, SessionInv, ClaimInv, CommitBehindMarks, MarksHandled
  <2> QED  BY <2>1 DEF IInv, TypeOK
<1> QED  BY <1>1, Invariance, PTL

-------------------------------------------------------------------------------
(* The refinement of DeliveryContract.tla.                                 *)

\* An empty consumer is an empty contract.
LEMMA ContractInit == Init => Contract!Init
BY ConstantsAssumption DEF Init, Contract!Init, handled

\* Recording the outcome of the message in hand is the contract's Handle.
LEMMA ContractHandle ==
  ASSUME IInv, NEW c \in Pod, NEW p \in Partition, InSession(c, p),
         stage[c][p] \in {"process", "report"},
         handled' = handled \cup {InHand(c, p)}, committed' = committed
  PROVE  Contract!Next
<1>1. PositionHandled(c, p) /\ InHandPending(c, p)
  BY DEF IInv, SessionInv, ClaimInv
<1>2. next[c][p] \in 0 .. LogEnd[p] - 1
  BY <1>1, ConstantsAssumption DEF IInv, TypeOK, InHandPending, Working
<1>3. Contract!Handle(p, next[c][p])
  BY <1>1 DEF Contract!Handle, Contract!PrefixHandled, PositionHandled, Working,
     InHand
<1> QED  BY <1>2, <1>3 DEF Contract!Next

\* Every step of the consumer is a step of the contract, or leaves its two
\* variables alone: only outcomes and commits show.
LEMMA ContractStep == IInv /\ [Next]_vars => [Contract!Next]_(Contract!vars)
<1> SUFFICES ASSUME IInv, [Next]_vars PROVE [Contract!Next]_(Contract!vars)
  OBVIOUS
<1>1. ASSUME NEW c \in Pod, NEW p \in Partition, ClaimStep(c, p)
      PROVE  Contract!Next \/ UNCHANGED <<handled, committed>>
  <2>1. CASE ProcessSucceeds(c, p)
    BY <2>1, ContractHandle DEF ProcessSucceeds, At, handled, brokerVars
  <2>2. CASE ReportSucceeds(c, p)
    BY <2>2, ContractHandle DEF ReportSucceeds, At, handled, brokerVars
  <2>3. CASE ReportFails(c, p)
    BY <2>3, ContractHandle DEF ReportFails, At, handled, brokerVars
  <2>4. CASE \/ Receive(c, p) \/ StopReceiving(c, p) \/ ProcessFails(c, p)
            \/ AbandonMessage(c, p) \/ ReportError(c, p) \/ MarkMessage(c, p)
    BY <2>4 DEF Receive, StopReceiving, ProcessFails, AbandonMessage,
       ReportError, MarkMessage, handled, brokerVars, effectVars
  <2> QED  BY <1>1, <2>1, <2>2, <2>3, <2>4 DEF ClaimStep
<1>2. ASSUME NEW c \in Pod, pod[c] = "session", CommitMarks(c), handled' = handled
      PROVE  Contract!Next
  BY <1>2, CommitForward DEF Contract!Next, Contract!Commit,
     Contract!PrefixHandled
<1>3. ASSUME NEW c \in Pod, GroupStep(c)
      PROVE  Contract!Next \/ UNCHANGED <<handled, committed>>
  <2>1. CASE AutoCommit(c)
    BY <1>2, <2>1 DEF AutoCommit, effectVars, handled
  <2>2. CASE ReleaseSession(c)
    BY <1>2, <2>2 DEF ReleaseSession, effectVars, handled
  <2>3. CASE \/ \E P \in SUBSET Partition : JoinGroup(c, P)
            \/ StopRunner(c) \/ StartPod(c) \/ ExpireMember(c) \/ NoticeRebalance(c)
    BY <2>3 DEF JoinGroup, StopRunner, StartPod, ExpireMember, NoticeRebalance,
       handled, brokerVars, effectVars
  <2> QED  BY <1>3, <2>1, <2>2, <2>3 DEF GroupStep
<1>4. ASSUME NEW c \in Pod, Disruption(c)
      PROVE  UNCHANGED <<handled, committed>>
  BY <1>4 DEF Disruption, Rebalance, Signal, Kill, ConsumeFails, Fence, handled,
     brokerVars, effectVars
<1>5. ASSUME Drained \/ UNCHANGED vars
      PROVE  UNCHANGED <<handled, committed>>
  BY <1>5 DEF Drained, vars, handled, brokerVars, effectVars
<1> QED
  BY <1>1, <1>3, <1>4, <1>5 DEF Next, Contract!vars

\* The consumer implements DeliveryContract.tla: first-time handling in the
\* order of the partition, offsets that only move forward over handled messages.
THEOREM ImplementsContract == Spec => ContractSpec
BY ContractInit, ContractStep, Invariance, PTL DEF Spec, ContractSpec,
   Contract!Spec
===============================================================================
