------------------------------ MODULE JSONHandler ------------------------------
(***************************************************************************)
(* The consume loop of ccx-exporter: Runner.Run (pkg/pipeline/runner.go)   *)
(* repeatedly enters the consumer group, and for every partition it is     *)
(* given one goroutine runs JSONHandler.ConsumeClaim                       *)
(* (pkg/pipeline/handler.go).  A message is marked once it was processed   *)
(* or once its failure was reported; the marks are committed to the broker *)
(* in the background, and again when the session ends.                     *)
(*                                                                         *)
(* The environment: pods are killed, signalled and restarted, the group    *)
(* rebalances, the broker fences members whose heartbeats it misses.  The  *)
(* consumer group itself (the sarama library and the broker) is modelled   *)
(* from how the code uses it.                                              *)
(*                                                                         *)
(* Processing.Process and ErrorProcessing.Process are opaque here: they    *)
(* return nil or an error, after any delay.                                *)
(***************************************************************************)
EXTENDS Naturals

CONSTANTS Pod,             \* processes running `ccx-exporter process`
          NoPod,           \* "nobody owns the partition"
          Partition,       \* the partitions of the consumed topics
          LogEnd,          \* LogEnd[p]: the number of messages in partition p
          Malformed,       \* the messages that json.Unmarshal rejects
          MaxDisruptions   \* bound on kills, signals, rebalances and fencings

ASSUME ConstantsAssumption ==
    /\ NoPod \notin Pod
    /\ LogEnd \in [Partition -> Nat]
    /\ Malformed \subseteq Partition \X Nat
    /\ MaxDisruptions \in Nat

\* The broker's view of the group.
VARIABLES committed,       \* committed[p]: the offset stored for the group
          owner            \* owner[p]: the member p is assigned to, or NoPod

\* Each process.
VARIABLES pod,             \* pod[c]: is c down, in Consume, or in a session
          mainDone,        \* mainDone[c]: the root context was cancelled
          sessDone,        \* sessDone[c]: session.Context() was cancelled
          claims,          \* claims[c]: the partitions of the session
          stage,           \* stage[c][p]: where ConsumeClaim of p is
          next,            \* next[c][p]: offset in hand, or next to receive
          marked           \* marked[c][p]: offset MarkMessage left to commit

\* What happened to each message, over all processes.
VARIABLES projected,       \* Process returned nil
          deadLettered,    \* ErrorProcessing.Process returned nil
          dumped           \* the error pipeline failed: only dumped in the log

VARIABLE  disruptions      \* how many disruptions have happened

brokerVars  == <<committed, owner>>
processVars == <<pod, mainDone, sessDone>>
claimVars   == <<claims, stage, next, marked>>
effectVars  == <<projected, deadLettered, dumped>>
vars == <<brokerVars, processVars, claimVars, effectVars, disruptions>>

Message == Partition \X Nat
PodStatus == {"down", "consuming", "session"}
Stage == {"receive", "process", "processError", "report", "mark", "returned"}

Max(a, b) == IF a >= b THEN a ELSE b

\* A message is dealt with once its outcome is recorded somewhere.
handled == projected \cup deadLettered \cup dumped

InSession(c, p) == pod[c] = "session" /\ p \in claims[c]
At(c, p, s) == InSession(c, p) /\ stage[c][p] = s
Goto(c, p, s) == stage' = [stage EXCEPT ![c][p] = s]
Advance(c, p) == next' = [next EXCEPT ![c][p] = @ + 1]
InHand(c, p) == <<p, next[c][p]>>

Init ==
    /\ committed = [p \in Partition |-> 0]
    /\ owner = [p \in Partition |-> NoPod]
    /\ pod = [c \in Pod |-> "down"]
    /\ mainDone = [c \in Pod |-> FALSE]
    /\ sessDone = [c \in Pod |-> FALSE]
    /\ claims = [c \in Pod |-> {}]
    /\ stage = [c \in Pod |-> [p \in Partition |-> "receive"]]
    /\ next = [c \in Pod |-> [p \in Partition |-> 0]]
    /\ marked = [c \in Pod |-> [p \in Partition |-> 0]]
    /\ projected = {} /\ deadLettered = {} /\ dumped = {}
    /\ disruptions = 0

-------------------------------------------------------------------------------
(* ConsumeClaim: one goroutine per partition of the session.               *)

\* Mutant: the context is not checked before a message is taken.
ReceiveAfterCancel(c, p) ==
    /\ At(c, p, "receive")
    /\ next[c][p] < LogEnd[p]
    /\ Goto(c, p, IF InHand(c, p) \in Malformed THEN "processError" ELSE "process")
    /\ UNCHANGED <<brokerVars, processVars, claims, next, marked, effectVars,
                   disruptions>>

\* `for msg := range claim.Messages()`: a message arrives with the context
\* alive, and is unmarshalled.
Receive(c, p) ==
    /\ At(c, p, "receive")
    /\ next[c][p] < LogEnd[p]
    /\ ~sessDone[c]
    /\ Goto(c, p, IF InHand(c, p) \in Malformed THEN "processError" ELSE "process")
    /\ UNCHANGED <<brokerVars, processVars, claims, next, marked, effectVars,
                   disruptions>>

\* The context is cancelled: a buffered message is dropped by the `break`,
\* or the channel is found closed.
StopReceiving(c, p) ==
    /\ At(c, p, "receive")
    /\ sessDone[c]
    /\ Goto(c, p, "returned")
    /\ UNCHANGED <<brokerVars, processVars, claims, next, marked, effectVars,
                   disruptions>>

ProcessSucceeds(c, p) ==
    /\ At(c, p, "process")
    /\ projected' = projected \cup {InHand(c, p)}
    /\ Goto(c, p, "mark")
    /\ UNCHANGED <<brokerVars, processVars, claims, next, marked, deadLettered,
                   dumped, disruptions>>

ProcessFails(c, p) ==
    /\ At(c, p, "process")
    /\ Goto(c, p, "processError")
    /\ UNCHANGED <<brokerVars, processVars, claims, next, marked, effectVars,
                   disruptions>>

\* Mutant: MarkMessage is deferred before the context is checked.
AbandonMarked(c, p) ==
    /\ At(c, p, "processError")
    /\ sessDone[c]
    /\ Goto(c, p, "mark")
    /\ UNCHANGED <<brokerVars, processVars, claims, next, marked, effectVars,
                   disruptions>>

\* processError with a cancelled context: return before MarkMessage is
\* deferred; the loop goes on to the next message.
AbandonMessage(c, p) ==
    /\ At(c, p, "processError")
    /\ sessDone[c]
    /\ Advance(c, p)
    /\ Goto(c, p, "receive")
    /\ UNCHANGED <<brokerVars, processVars, claims, marked, effectVars,
                   disruptions>>

\* Mutant: a failed message is processed again instead of being reported.
ReprocessError(c, p) ==
    /\ At(c, p, "processError")
    /\ ~sessDone[c]
    /\ Goto(c, p, "process")
    /\ UNCHANGED <<brokerVars, processVars, claims, next, marked, effectVars,
                   disruptions>>

\* processError with a live context: MarkMessage is deferred from here on.
ReportError(c, p) ==
    /\ At(c, p, "processError")
    /\ ~sessDone[c]
    /\ Goto(c, p, "report")
    /\ UNCHANGED <<brokerVars, processVars, claims, next, marked, effectVars,
                   disruptions>>

ReportSucceeds(c, p) ==
    /\ At(c, p, "report")
    /\ deadLettered' = deadLettered \cup {InHand(c, p)}
    /\ Goto(c, p, "mark")
    /\ UNCHANGED <<brokerVars, processVars, claims, next, marked, projected,
                   dumped, disruptions>>

\* "Error pipeline failed": dumpErrorContext writes the payload to the log.
ReportFails(c, p) ==
    /\ At(c, p, "report")
    /\ dumped' = dumped \cup {InHand(c, p)}
    /\ Goto(c, p, "mark")
    /\ UNCHANGED <<brokerVars, processVars, claims, next, marked, projected,
                   deadLettered, disruptions>>

\* Mutant: the offset after the next message is marked.
MarkOneTooFar(c, p) ==
    /\ At(c, p, "mark")
    /\ marked' = [marked EXCEPT ![c][p] = next[c][p] + 2]
    /\ Advance(c, p)
    /\ Goto(c, p, "receive")
    /\ UNCHANGED <<brokerVars, processVars, claims, effectVars, disruptions>>

\* session.MarkMessage, in the loop or deferred; the offset manager of the
\* session keeps the highest mark.
MarkMessage(c, p) ==
    /\ At(c, p, "mark")
    /\ marked' = [marked EXCEPT ![c][p] = Max(@, next[c][p] + 1)]
    /\ Advance(c, p)
    /\ Goto(c, p, "receive")
    /\ UNCHANGED <<brokerVars, processVars, claims, effectVars, disruptions>>

-------------------------------------------------------------------------------
(* The consumer group: sessions, commits, membership.                      *)

\* A commit request stores the marks of the partitions the member still
\* owns; the broker refuses the others.
CommitMarks(c) ==
    committed' = [p \in Partition |->
                    IF p \in claims[c] /\ owner[p] = c
                    THEN marked[c][p] ELSE committed[p]]

\* The session is gone, and with it its context, marks and goroutines.
ForgetSession(c) ==
    /\ sessDone' = [sessDone EXCEPT ![c] = FALSE]
    /\ claims' = [claims EXCEPT ![c] = {}]
    /\ stage' = [stage EXCEPT ![c] = [p \in Partition |-> "receive"]]
    /\ next' = [next EXCEPT ![c] = [p \in Partition |-> 0]]
    /\ marked' = [marked EXCEPT ![c] = [p \in Partition |-> 0]]

\* A process that ends takes its root context with it.
SetPod(c, status) ==
    /\ pod' = [pod EXCEPT ![c] = status]
    /\ mainDone' = [mainDone EXCEPT ![c] = @ /\ status # "down"]

\* Whatever the member owned is up for assignment.
Leave(c) ==
    owner' = [p \in Partition |-> IF owner[p] = c THEN NoPod ELSE owner[p]]

Unassigned == {p \in Partition : owner[p] = NoPod}

\* Mutant: claims start at the oldest offset even if there is a commit.
JoinAtOldest(c, P) ==
    /\ pod[c] = "consuming"
    /\ ~mainDone[c]
    /\ P # {}
    /\ P \subseteq Unassigned
    /\ P = Unassigned \/ \E d \in Pod \ {c} : pod[d] = "consuming"
    /\ SetPod(c, "session")
    /\ owner' = [p \in Partition |-> IF p \in P THEN c ELSE owner[p]]
    /\ claims' = [claims EXCEPT ![c] = P]
    /\ stage' = [stage EXCEPT ![c] = [p \in Partition |-> "receive"]]
    /\ next' = [next EXCEPT ![c] = [p \in Partition |-> 0]]
    /\ marked' = [marked EXCEPT ![c] = committed]
    /\ UNCHANGED <<committed, sessDone, effectVars, disruptions>>

\* Consume joins the group and is given the free partitions, or some of them
\* while another member is joining; every claim starts at the committed offset
\* (the oldest one if there is none).
JoinGroup(c, P) ==
    /\ pod[c] = "consuming"
    /\ ~mainDone[c]
    /\ P # {}
    /\ P \subseteq Unassigned
    /\ P = Unassigned \/ \E d \in Pod \ {c} : pod[d] = "consuming"
    /\ SetPod(c, "session")
    /\ owner' = [p \in Partition |-> IF p \in P THEN c ELSE owner[p]]
    /\ claims' = [claims EXCEPT ![c] = P]
    /\ stage' = [stage EXCEPT ![c] = [p \in Partition |-> "receive"]]
    /\ next' = [next EXCEPT ![c] = committed]
    /\ marked' = [marked EXCEPT ![c] = committed]
    /\ UNCHANGED <<committed, sessDone, effectVars, disruptions>>

\* Consumer.Offsets.AutoCommit
AutoCommit(c) ==
    /\ pod[c] = "session"
    /\ CommitMarks(c)
    /\ committed' # committed
    /\ UNCHANGED <<owner, processVars, claimVars, effectVars, disruptions>>

\* Every ConsumeClaim returned: Cleanup, the last commit (which the broker
\* may miss), Consume returns nil, and Run loops unless its context is done.
ReleaseSession(c) ==
    /\ pod[c] = "session"
    /\ \A p \in claims[c] : stage[c][p] = "returned"
    /\ CommitMarks(c) \/ UNCHANGED committed
    /\ Leave(c)
    /\ ForgetSession(c)
    /\ SetPod(c, IF mainDone[c] THEN "down" ELSE "consuming")
    /\ UNCHANGED <<effectVars, disruptions>>

\* Consume with a cancelled context: Run returns and the process ends.
StopRunner(c) ==
    /\ pod[c] = "consuming"
    /\ mainDone[c]
    /\ SetPod(c, "down")
    /\ UNCHANGED <<brokerVars, sessDone, claimVars, effectVars, disruptions>>

\* The deployment (re)starts the process.
StartPod(c) ==
    /\ pod[c] = "down"
    /\ SetPod(c, "consuming")
    /\ UNCHANGED <<brokerVars, sessDone, claimVars, effectVars, disruptions>>

\* The broker forgets a member that died without leaving.
ExpireMember(c) ==
    /\ \E p \in Partition :
          /\ owner[p] = c
          /\ ~InSession(c, p)
          /\ owner' = [owner EXCEPT ![p] = NoPod]
    /\ UNCHANGED <<committed, processVars, claimVars, effectVars, disruptions>>

\* A heartbeat tells the member that it was fenced, or that the group has
\* partitions to redistribute: the session's context is cancelled.
NoticeRebalance(c) ==
    /\ pod[c] = "session"
    /\ ~sessDone[c]
    /\ \/ \E p \in claims[c] : owner[p] # c
       \/ Unassigned # {} /\ \A d \in Pod : pod[d] # "consuming"
    /\ sessDone' = [sessDone EXCEPT ![c] = TRUE]
    /\ UNCHANGED <<brokerVars, pod, mainDone, claimVars, effectVars, disruptions>>

-------------------------------------------------------------------------------
(* Disruptions, at most MaxDisruptions of them.                            *)

Disrupt ==
    /\ disruptions < MaxDisruptions
    /\ disruptions' = disruptions + 1

\* The group rebalances (or a claim's channel closes): the session ends.
Rebalance(c) ==
    /\ Disrupt
    /\ pod[c] = "session"
    /\ ~sessDone[c]
    /\ sessDone' = [sessDone EXCEPT ![c] = TRUE]
    /\ UNCHANGED <<brokerVars, pod, mainDone, claimVars, effectVars>>

\* Mutant: the session's context is not derived from the root context.
SignalOutsideSession(c) ==
    /\ Disrupt
    /\ pod[c] # "down"
    /\ ~mainDone[c]
    /\ mainDone' = [mainDone EXCEPT ![c] = TRUE]
    /\ UNCHANGED <<brokerVars, pod, sessDone, claimVars, effectVars>>

\* SIGTERM or interrupt: the root context is cancelled, and with it the
\* session's.
Signal(c) ==
    /\ Disrupt
    /\ pod[c] # "down"
    /\ ~mainDone[c]
    /\ mainDone' = [mainDone EXCEPT ![c] = TRUE]
    /\ sessDone' = [sessDone EXCEPT ![c] = pod[c] = "session"]
    /\ UNCHANGED <<brokerVars, pod, claimVars, effectVars>>

\* The process dies on the spot: killed, or a second signal.
Kill(c) ==
    /\ Disrupt
    /\ pod[c] # "down"
    /\ SetPod(c, "down")
    /\ ForgetSession(c)
    /\ UNCHANGED <<brokerVars, effectVars>>

\* Consume returns an error (or the process cannot create its clients): Run
\* returns it and the process ends.
ConsumeFails(c) ==
    /\ Disrupt
    /\ pod[c] = "consuming"
    /\ SetPod(c, "down")
    /\ UNCHANGED <<brokerVars, sessDone, claimVars, effectVars>>

\* Heartbeats did not arrive in time: the partitions are given away while
\* the process goes on working on them.
Fence(c) ==
    /\ Disrupt
    /\ pod[c] = "session"
    /\ \E p \in claims[c] : owner[p] = c
    /\ Leave(c)
    /\ UNCHANGED <<committed, processVars, claimVars, effectVars>>

-------------------------------------------------------------------------------
ClaimStep(c, p) ==
    \/ Receive(c, p)
    \/ StopReceiving(c, p)
    \/ ProcessSucceeds(c, p)
    \/ ProcessFails(c, p)
    \/ AbandonMessage(c, p)
    \/ ReportError(c, p)
    \/ ReportSucceeds(c, p)
    \/ ReportFails(c, p)
    \/ MarkMessage(c, p)

GroupStep(c) ==
    \/ \E P \in SUBSET Partition : JoinGroup(c, P)
    \/ AutoCommit(c)
    \/ ReleaseSession(c)
    \/ StopRunner(c)
    \/ StartPod(c)
    \/ ExpireMember(c)
    \/ NoticeRebalance(c)

Disruption(c) ==
    \/ Rebalance(c)
    \/ Signal(c)
    \/ Kill(c)
    \/ ConsumeFails(c)
    \/ Fence(c)

\* The topic is consumed: the claims block on their channels.
Drained ==
    /\ \A p \in Partition : committed[p] = LogEnd[p]
    /\ UNCHANGED vars

Next ==
    \/ \E c \in Pod, p \in Partition : ClaimStep(c, p)
    \/ \E c \in Pod : GroupStep(c) \/ Disruption(c)
    \/ Drained

Spec == Init /\ [][Next]_vars

\* Every goroutine runs, processing ends (see the README), the deployment
\* restarts pods, and the group coordinator does its work.
Fairness ==
    /\ \A c \in Pod, p \in Partition : WF_vars(ClaimStep(c, p))
    /\ \A c \in Pod : WF_vars(AutoCommit(c)) /\ WF_vars(ReleaseSession(c))
    /\ \A c \in Pod : WF_vars(StopRunner(c)) /\ WF_vars(StartPod(c))
    /\ \A c \in Pod : WF_vars(ExpireMember(c)) /\ WF_vars(NoticeRebalance(c))
    /\ \A c \in Pod : WF_vars(\E P \in SUBSET Partition : JoinGroup(c, P))

FairSpec == Spec /\ Fairness

-------------------------------------------------------------------------------
(* Properties.                                                             *)

\* Every variable has its type; positions stay within the log.
TypeOK ==
    /\ committed \in [Partition -> Nat]
    /\ \A p \in Partition : committed[p] <= LogEnd[p]
    /\ owner \in [Partition -> Pod \cup {NoPod}]
    /\ pod \in [Pod -> PodStatus]
    /\ mainDone \in [Pod -> BOOLEAN]
    /\ sessDone \in [Pod -> BOOLEAN]
    /\ claims \in [Pod -> SUBSET Partition]
    /\ stage \in [Pod -> [Partition -> Stage]]
    /\ next \in [Pod -> [Partition -> Nat]]
    /\ marked \in [Pod -> [Partition -> Nat]]
    /\ \A c \in Pod, p \in Partition :
          next[c][p] <= LogEnd[p] /\ marked[c][p] <= LogEnd[p]
    /\ projected \subseteq Message
    /\ deadLettered \subseteq Message
    /\ dumped \subseteq Message
    /\ disruptions \in 0 .. MaxDisruptions

\* No message is lost: once the group's offset has moved past a message, it
\* was projected, dead-lettered or dumped by some process, whatever kills,
\* fencings and rebalances happened in between.
CommittedHandled ==
    \A p \in Partition : \A o \in 0 .. committed[p] - 1 : <<p, o>> \in handled

\* No message is processed twice once committed: a member that still owns the
\* partition never works on a message below the group's offset (a fenced one
\* may, until its next heartbeat).
CommittedNotRedelivered ==
    \A c \in Pod, p \in Partition :
        (InSession(c, p) /\ owner[p] = c) => committed[p] <= next[c][p]

\* What holds inside a session and makes the two above inductive.
\* marks cover handled messages only, and never overtake the position;
\* everything before the message in hand has been handled, until a message is
\* abandoned, after which the session is over and nothing is received;
\* a member that was not fenced has marked all that is committed.
Working == {"process", "processError", "report", "mark"}

MarksHandled(c, p) ==
    /\ marked[c][p] <= next[c][p]
    /\ \A o \in 0 .. marked[c][p] - 1 : <<p, o>> \in handled

PositionHandled(c, p) ==
    stage[c][p] \in Working \/ (stage[c][p] = "receive" /\ ~sessDone[c])
       => \A o \in 0 .. next[c][p] - 1 : <<p, o>> \in handled

InHandPending(c, p) ==
    /\ stage[c][p] \in Working => next[c][p] < LogEnd[p]
    /\ stage[c][p] = "mark" => InHand(c, p) \in handled

CommitBehindMarks(c, p) == owner[p] = c => committed[p] <= marked[c][p]

ClaimInv(c, p) ==
    /\ MarksHandled(c, p)
    /\ PositionHandled(c, p)
    /\ InHandPending(c, p)
    /\ CommitBehindMarks(c, p)

SessionInv ==
    \A c \in Pod, p \in Partition : InSession(c, p) => ClaimInv(c, p)

\* The consumer implements its contract: first-time handling in the order of
\* the partition, offsets that only move forward over handled messages.
Contract == INSTANCE DeliveryContract
    WITH handled <- handled, committed <- committed
ContractSpec == Contract!Spec

\* Once disruptions cease, every message is handled and its offset committed,
\* for good.
EventuallyCommitted ==
    \A p \in Partition : <>[](committed[p] = LogEnd[p])

\* A signal stops the process, even in the middle of a message.
SignalStopsPod ==
    \A c \in Pod : (pod[c] # "down" /\ mainDone[c]) ~> (pod[c] = "down")

\* handler.go, processError: "If context has been cancelled, don't commit
\* offset.  Message will be reprocessed with a valid context": a message whose
\* report failed under a cancelled context is not going to be marked.
NoMarkAfterCancel ==
    [][\A c \in Pod, p \in Partition :
          (sessDone[c] /\ ReportFails(c, p)) => stage'[c][p] # "mark"]_vars
===============================================================================
