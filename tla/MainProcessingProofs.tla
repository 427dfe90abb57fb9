-------------------------- MODULE MainProcessingProofs --------------------------
(***************************************************************************)
(* Proofs about MainProcessing.tla, for any consumers, clusters, hosts,    *)
(* buckets and messages, and any number of takeovers.                      *)
(*                                                                         *)
(* ShapeInv says what a consumer has in hand at each stage; the other      *)
(* parts of ProcessingInv are the five properties, each stated of the      *)
(* position of the consumer that owns the partition (or of every consumer) *)
(* instead of the committed offset, which follows that position.           *)
(***************************************************************************)
EXTENDS MainProcessing, TLAPS

\* A consumer that puts or failed has a message in hand, one that is projected
\* if it puts; the hosts it read are kept until it is done; the owner is past
\* the committed offset; and only host states are written to the store.
ShapeInv ==
    /\ \A c \in Consumer : At(c, "put") => next[c] \in Projected
    /\ \A c \in Consumer : At(c, "failed") => next[c] \in Offset
    /\ \A c \in Consumer :
          hosts[c] # Nothing => At(c, "put") \/ At(c, "failed")
    /\ committed < next[active]
    /\ \A o \in written : log[o].name = "HostState"

\* What CommittedProjected says of a message.
Handled(o) ==
    o \in reported \/ \A b \in Bucket : objects[b][Key(log[o])] # Nothing

\* Every consumer, the owner or not, has handled what it went past, and a
\* bucket that is not pending any more has the object.
HandledInv ==
    /\ \A c \in Consumer, o \in Projected : o < next[c] => Handled(o)
    /\ \A c \in Consumer, b \in Bucket :
          (At(c, "put") /\ b \notin pending[c]) =>
              objects[b][Key(InHand(c))] # Nothing

\* As long as only owners write, the store is not behind the owner.
LatestInv ==
    ~overlapped =>
        \A o \in written :
            o < next[active] => store[log[o].cluster][log[o].host] >= o

\* As long as only owners write, the buckets that the owner has written hold
\* its projection, and buckets that differ will be written again, or a message
\* of that key is reported.
TracedInv ==
    ~overlapped =>
        /\ \A b \in Bucket :
              (At(active, "put") /\ b \notin pending[active]) =>
                  objects[b][Key(InHand(active))] = hosts[active]
        /\ \A b1, b2 \in Bucket, key \in ObjectKey :
              objects[b1][key] # objects[b2][key] =>
                  \E o \in Projected :
                      Key(log[o]) = key /\ (o >= next[active] \/ o \in reported)

ProcessingInv ==
    TypeOK /\ ShapeInv /\ HandledInv /\ LatestInv /\ HostsIncluded /\ TracedInv

-------------------------------------------------------------------------------
(* The log.                                                                *)

\* The log holds messages, numbered from 1.
LEMMA LogType ==
  ASSUME log \in Logs
  PROVE  /\ Len(log) \in Nat
         /\ Offset \subseteq Nat \ {0}
         /\ \A o \in Offset :
               /\ log[o] \in Message
               /\ log[o].cluster \in Cluster /\ log[o].host \in Host
         /\ Projected \subseteq Offset
         /\ \A o \in Projected : Key(log[o]) \in ObjectKey
<1>1. log \in Seq(Message)
  BY ProcessingAssumption
<1>2. Len(log) \in Nat /\ \A o \in 1 .. Len(log) : log[o] \in Message
  BY <1>1
<1> QED  BY <1>2 DEF Offset, Message, Projected, ObjectKey

\* No step changes the log.
LEMMA LogFrame ==
  ASSUME [Next]_vars
  PROVE  /\ log' = log /\ Offset' = Offset /\ Projected' = Projected
         /\ ObjectKey' = ObjectKey
<1>1. log' = log
  BY DEF Next, ClaimStep, ProcessHostState, WriteHostFails, ProcessClusterState,
     RejectClusterState, ProcessClusterEvent, ProcessInfraEnv, Project, PutObject,
     Written, Fails, Report, Commit, Takeover, Return, ExpireCluster, Drained, vars
<1> QED  BY <1>1 DEF Offset, Projected, ObjectKey, Key

\* The message that Process is called with is in the log.
LEMMA ProcessInLog ==
  ASSUME TypeOK, NEW c \in Consumer, NEW name, Process(c, name)
  PROVE  /\ next[c] \in Offset
         /\ name # "HostState" => next[c] \in Projected
BY LogType DEF TypeOK, Process, Offset, Projected, InHand

-------------------------------------------------------------------------------
(* Types.                                                                  *)

\* What each step of a claim, of the group and of the clock keeps of the types.
LEMMA TypeStep ==
  ASSUME TypeOK, ShapeInv, [Next]_vars
  PROVE  TypeOK'
<1> USE LogType, LogFrame, ProcessingAssumption
    DEF TypeOK, Snapshot, At, Goto, groupVars, claimVars
<1>1. ASSUME NEW c \in Consumer, ClaimStep(c)
      PROVE  TypeOK'
  <2>1. CASE ProcessHostState(c)
    <3>1. next[c] \in Offset
      BY <2>1, ProcessInLog DEF ProcessHostState
    <3>2. store' \in [Cluster -> Snapshot]
      BY <2>1, <3>1 DEF ProcessHostState, PutHost, InHand
    <3>3. next' \in [Consumer -> 1 .. Len(log) + 1]
      BY <2>1, <3>1 DEF ProcessHostState, Done, Offset
    <3> QED
      BY <2>1, <3>1, <3>2, <3>3 DEF ProcessHostState, Done, Forget, Touch
  <2>2. CASE WriteHostFails(c)
    <3>1. next[c] \in Offset
      BY <2>2, ProcessInLog DEF WriteHostFails
    <3>2. store' \in [Cluster -> Snapshot]
      BY <2>2, <3>1 DEF WriteHostFails, PutHost, InHand
    <3> QED  BY <2>2, <3>2 DEF WriteHostFails, Touch
  <2>3. CASE ProcessClusterState(c)
    <3>1. next[c] \in Offset
      BY <2>3, ProcessInLog DEF ProcessClusterState
    <3>2. GetHostStates(InHand(c).cluster) \in Snapshot
      BY <3>1 DEF GetHostStates, InHand
    <3> QED  BY <2>3, <3>2 DEF ProcessClusterState, Project
  <2>4. CASE RejectClusterState(c)
    <3>1. next[c] \in Offset
      BY <2>4, ProcessInLog DEF RejectClusterState
    <3>2. GetHostStates(InHand(c).cluster) \in Snapshot
      BY <3>1 DEF GetHostStates, InHand
    <3> QED  BY <2>4, <3>2 DEF RejectClusterState
  <2>5. CASE ProcessClusterEvent(c) \/ ProcessInfraEnv(c)
    <3>1. NoHosts \in Snapshot
      BY DEF NoHosts
    <3>2. Project(c, NoHosts)
      BY <2>5 DEF ProcessClusterEvent, ProcessInfraEnv
    <3> QED  BY <3>1, <3>2 DEF Project
  <2>6. ASSUME NEW b \in Bucket, PutObject(c, b)
        PROVE  TypeOK'
    <3>1. objects' \in [Bucket -> [ObjectKey -> Snapshot \cup {Nothing}]]
      BY <2>6 DEF PutObject
    <3>2. pending' \in [Consumer -> SUBSET Bucket]
      BY <2>6 DEF PutObject
    <3> QED  BY <2>6, <3>1, <3>2 DEF PutObject, Touch
  <2>7. CASE Written(c)
    <3>1. next[c] \in Offset
      BY <2>7 DEF Written, ShapeInv
    <3>2. next' \in [Consumer -> 1 .. Len(log) + 1]
      BY <2>7, <3>1 DEF Written, Done, Offset
    <3> QED  BY <2>7, <3>2 DEF Written, Done, Forget
  <2>8. CASE Fails(c)
    BY <2>8 DEF Fails
  <2>9. CASE Report(c)
    <3>1. next[c] \in Offset
      BY <2>9 DEF Report, ShapeInv
    <3>2. next' \in [Consumer -> 1 .. Len(log) + 1]
      BY <2>9, <3>1 DEF Report, Done, Offset
    <3> QED  BY <2>9, <3>1, <3>2 DEF Report, Done, Forget
  <2> QED
    BY <1>1, <2>1, <2>2, <2>3, <2>4, <2>5, <2>6, <2>7, <2>8, <2>9 DEF ClaimStep
<1>2. ASSUME NEW c \in Consumer, Commit(c)
      PROVE  TypeOK'
  <2>1. committed' \in 0 .. Len(log)
    BY <1>2 DEF Commit
  <2> QED  BY <1>2, <2>1 DEF Commit
<1>3. ASSUME NEW c \in Consumer, Takeover(c)
      PROVE  TypeOK'
  <2>1. next' \in [Consumer -> 1 .. Len(log) + 1] /\ takeovers' \in 0 .. MaxTakeovers
    BY <1>3 DEF Takeover
  <2> QED  BY <1>3, <2>1 DEF Takeover, Forget
<1>4. ASSUME NEW c \in Consumer, Return(c)
      PROVE  TypeOK'
  BY <1>4 DEF Return, Forget
<1>5. ASSUME NEW k \in Cluster, ExpireCluster(k)
      PROVE  TypeOK'
  BY <1>5 DEF ExpireCluster, NoHosts
<1>6. CASE UNCHANGED vars
  BY <1>6 DEF vars
<1> QED
  BY <1>1, <1>2, <1>3, <1>4, <1>5, <1>6 DEF Next, Drained

-------------------------------------------------------------------------------
(* What is in hand.                                                        *)

\* Only a step of a claim moves it, and then one message further at most; a
\* takeover starts again after the committed offset.
LEMMA ShapeStep ==
  ASSUME TypeOK, ShapeInv, [Next]_vars
  PROVE  ShapeInv'
<1> USE LogType, LogFrame, ProcessingAssumption
    DEF TypeOK, ShapeInv, At, Goto, groupVars, claimVars
<1>1. ASSUME NEW c \in Consumer, ClaimStep(c)
      PROVE  ShapeInv'
  <2>1. CASE ProcessHostState(c)
    <3>1. log[next[c]].name = "HostState"
      BY <2>1 DEF ProcessHostState, Process, InHand
    <3> QED  BY <2>1, <3>1 DEF ProcessHostState, Done, Forget
  <2>2. CASE WriteHostFails(c)
    <3>1. next[c] \in Offset
      BY <2>2, ProcessInLog DEF WriteHostFails
    <3> QED  BY <2>2, <3>1 DEF WriteHostFails
  <2>3. CASE ProcessClusterState(c)
    <3>1. next[c] \in Projected
      BY <2>3, ProcessInLog DEF ProcessClusterState
    <3> QED  BY <2>3, <3>1 DEF ProcessClusterState, Project
  <2>4. CASE RejectClusterState(c)
    <3>1. next[c] \in Offset
      BY <2>4, ProcessInLog DEF RejectClusterState
    <3> QED  BY <2>4, <3>1 DEF RejectClusterState
  <2>5. CASE ProcessClusterEvent(c) \/ ProcessInfraEnv(c)
    <3>1. next[c] \in Projected
      BY <2>5, ProcessInLog DEF ProcessClusterEvent, ProcessInfraEnv
    <3>2. Project(c, NoHosts)
      BY <2>5 DEF ProcessClusterEvent, ProcessInfraEnv
    <3> QED  BY <3>1, <3>2 DEF Project
  <2>6. ASSUME NEW b \in Bucket, PutObject(c, b)
        PROVE  ShapeInv'
    BY <2>6 DEF PutObject
  <2>7. CASE Written(c)
    BY <2>7 DEF Written, Done, Forget
  <2>8. CASE Fails(c)
    <3>1. next[c] \in Offset
      BY <2>8, ProcessInLog DEF Fails
    <3> QED  BY <2>8, <3>1 DEF Fails
  <2>9. CASE Report(c)
    BY <2>9 DEF Report, Done, Forget
  <2> QED
    BY <1>1, <2>1, <2>2, <2>3, <2>4, <2>5, <2>6, <2>7, <2>8, <2>9 DEF ClaimStep
<1>2. ASSUME NEW c \in Consumer, Commit(c)
      PROVE  ShapeInv'
  BY <1>2 DEF Commit
<1>3. ASSUME NEW c \in Consumer, Takeover(c)
      PROVE  ShapeInv'
  BY <1>3 DEF Takeover, Forget
<1>4. ASSUME NEW c \in Consumer, Return(c)
      PROVE  ShapeInv'
  BY <1>4 DEF Return, Forget
<1>5. ASSUME NEW k \in Cluster, ExpireCluster(k)
      PROVE  ShapeInv'
  BY <1>5 DEF ExpireCluster
<1>6. CASE UNCHANGED vars
  BY <1>6 DEF vars
<1> QED
  BY <1>1, <1>2, <1>3, <1>4, <1>5, <1>6 DEF Next, Drained

-------------------------------------------------------------------------------
(* CommittedProjected.                                                     *)

\* An object is overwritten but not deleted, and a report stays.
LEMMA NothingDeleted ==
  ASSUME TypeOK, ShapeInv, [Next]_vars
  PROVE  /\ \A b \in Bucket, key \in ObjectKey :
               objects[b][key] # Nothing => objects'[b][key] # Nothing
         /\ reported \subseteq reported'
<1>1. ASSUME NEW c \in Consumer, NEW b \in Bucket, PutObject(c, b)
      PROVE  /\ \A a \in Bucket, key \in ObjectKey :
                   objects[a][key] # Nothing => objects'[a][key] # Nothing
             /\ reported \subseteq reported'
  BY <1>1 DEF TypeOK, PutObject, At
<1>2. ASSUME NEW c \in Consumer, ClaimStep(c),
             ~\E b \in Bucket : PutObject(c, b)
      PROVE  objects' = objects /\ reported \subseteq reported'
  BY <1>2 DEF ClaimStep, ProcessHostState, WriteHostFails, ProcessClusterState,
     RejectClusterState, ProcessClusterEvent, ProcessInfraEnv, Project, Written,
     Fails, Report
<1>3. ASSUME NEW c \in Consumer, Commit(c) \/ Takeover(c) \/ Return(c)
      PROVE  objects' = objects /\ reported' = reported
  BY <1>3 DEF Commit, Takeover, Return
<1>4. ASSUME NEW k \in Cluster, ExpireCluster(k)
      PROVE  objects' = objects /\ reported' = reported
  BY <1>4 DEF ExpireCluster
<1>5. ASSUME Drained \/ UNCHANGED vars
      PROVE  objects' = objects /\ reported' = reported
  BY <1>5 DEF Drained, vars
<1> QED  BY <1>1, <1>2, <1>3, <1>4, <1>5 DEF Next

\* What was handled stays handled.
LEMMA HandledStays ==
  ASSUME TypeOK, ShapeInv, [Next]_vars, NEW o \in Projected, Handled(o)
  PROVE  Handled(o)'
<1>1. log' = log /\ Key(log[o]) \in ObjectKey
  BY LogFrame, LogType DEF TypeOK
<1>2. Key(log'[o]) = Key(log[o])
  BY <1>1
<1> QED  BY <1>1, <1>2, NothingDeleted DEF Handled, Key

\* A message leaves the hand of a consumer when all buckets have its object, or
\* when it is reported.
LEMMA HandledStep ==
  ASSUME TypeOK, ShapeInv, HandledInv, [Next]_vars
  PROVE  HandledInv'
<1> USE DEF TypeOK, At, Goto
<1>1. ASSUME NEW c \in Consumer, NEW o \in Projected, o < next'[c]
      PROVE  Handled(o)'
  <2>1. o \in Nat
    BY LogType
  <2>2. CASE o < next[c]
    BY <2>2, HandledStays DEF HandledInv
  <2>3. CASE ~(o < next[c])
    <3>1. next'[c] # next[c]
      BY <1>1, <2>3
    <3>2. ASSUME NEW d \in Consumer, ProcessHostState(d)
          PROVE  FALSE
      <4>1. d = c /\ next'[c] = next[c] + 1
        BY <3>1, <3>2 DEF ProcessHostState, Done
      <4>2. o = next[c]
        BY <1>1, <2>1, <2>3, <4>1
      <4>3. log[o].name = "HostState"
        BY <3>2, <4>1, <4>2 DEF ProcessHostState, Process, InHand
      <4> QED  BY <4>3 DEF Projected
    <3>3. ASSUME NEW d \in Consumer, Written(d)
          PROVE  Handled(o)'
      <4>1. d = c /\ next'[c] = next[c] + 1
        BY <3>1, <3>3 DEF Written, Done
      <4>2. o = next[c]
        BY <1>1, <2>1, <2>3, <4>1
      <4>3. Handled(o)
        BY <3>3, <4>1, <4>2 DEF Written, HandledInv, Handled, InHand
      <4> QED  BY <4>3, HandledStays
    <3>4. ASSUME NEW d \in Consumer, Report(d)
          PROVE  Handled(o)'
      <4>1. d = c /\ next'[c] = next[c] + 1
        BY <3>1, <3>4 DEF Report, Done
      <4>2. o = next[c]
        BY <1>1, <2>1, <2>3, <4>1
      <4>3. o \in reported'
        BY <3>4, <4>1, <4>2 DEF Report
      <4> QED  BY <4>3 DEF Handled
    <3>5. ASSUME NEW d \in Consumer, Takeover(d)
          PROVE  Handled(o)'
      <4>1. d = c /\ next'[c] = committed + 1
        BY <3>1, <3>5 DEF Takeover
      <4>2. o < next[active]
        BY <1>1, <2>1, <4>1 DEF ShapeInv
      <4> QED  BY <4>2, HandledStays DEF HandledInv
    <3>6. ASSUME NEW d \in Consumer, Return(d)
          PROVE  FALSE
      <4>1. d = c /\ next'[c] = 1
        BY <3>1, <3>6 DEF Return
      <4> QED  BY <1>1, <4>1, LogType
    <3>7. ASSUME \/ \E d \in Consumer :
                      \/ WriteHostFails(d) \/ ProcessClusterState(d)
                      \/ RejectClusterState(d) \/ ProcessClusterEvent(d)
                      \/ ProcessInfraEnv(d) \/ Fails(d) \/ Commit(d)
                      \/ \E b \in Bucket : PutObject(d, b)
                 \/ \E k \in Cluster : ExpireCluster(k)
                 \/ Drained \/ UNCHANGED vars
          PROVE  FALSE
      BY <3>1, <3>7 DEF WriteHostFails, ProcessClusterState, RejectClusterState,
         ProcessClusterEvent, ProcessInfraEnv, Project, Fails, Commit, PutObject,
         ExpireCluster, Drained, vars, claimVars
    <3> QED
      BY <3>2, <3>3, <3>4, <3>5, <3>6, <3>7 DEF Next, ClaimStep
  <2> QED  BY <2>2, <2>3
<1>2. ASSUME NEW c \in Consumer, NEW b \in Bucket,
             At(c, "put")', b \notin pending'[c]
      PROVE  objects'[b][Key(InHand(c))'] # Nothing
  <2>1. CASE /\ At(c, "put") /\ b \notin pending[c]
             /\ next'[c] = next[c]
    <3>1. Key(InHand(c))' = Key(InHand(c)) /\ Key(InHand(c)) \in ObjectKey
      BY <2>1, LogFrame, LogType DEF InHand, Key, ShapeInv
    <3>2. objects[b][Key(InHand(c))] # Nothing
      BY <2>1 DEF HandledInv
    <3> QED  BY <3>1, <3>2, NothingDeleted
  <2>2. ASSUME NEW d \in Consumer, NEW a \in Bucket, PutObject(d, a),
               ~(At(c, "put") /\ b \notin pending[c] /\ next'[c] = next[c])
        PROVE  objects'[b][Key(InHand(c))'] # Nothing
    <3>1. d = c /\ a = b /\ At(c, "put")
      BY <1>2, <2>2 DEF PutObject, claimVars
    <3>2. Key(InHand(c))' = Key(InHand(c)) /\ Key(InHand(c)) \in ObjectKey
      BY <2>2, <3>1, LogFrame, LogType DEF PutObject, InHand, Key, ShapeInv
    <3> QED  BY <2>2, <3>1, <3>2 DEF PutObject
  <2>3. ASSUME NEW d \in Consumer, ClaimStep(d),
               ~\E a \in Bucket : PutObject(d, a)
        PROVE  At(c, "put") /\ b \notin pending[c] /\ next'[c] = next[c]
    BY <1>2, <2>3 DEF ClaimStep, ProcessHostState, WriteHostFails,
       ProcessClusterState, RejectClusterState, ProcessClusterEvent,
       ProcessInfraEnv, Project, Written, Fails, Report, Done, Forget
  <2>4. ASSUME NEW d \in Consumer, Commit(d) \/ Takeover(d) \/ Return(d)
        PROVE  At(c, "put") /\ b \notin pending[c] /\ next'[c] = next[c]
    BY <1>2, <2>4 DEF Commit, Takeover, Return, Forget, claimVars
  <2>5. ASSUME \/ \E k \in Cluster : ExpireCluster(k)
               \/ Drained \/ UNCHANGED vars
        PROVE  At(c, "put") /\ b \notin pending[c] /\ next'[c] = next[c]
    BY <1>2, <2>5 DEF ExpireCluster, Drained, vars, claimVars
  <2> QED  BY <2>1, <2>2, <2>3, <2>4, <2>5 DEF Next, ClaimStep
<1> QED  BY <1>1, <1>2, LogFrame DEF HandledInv

-------------------------------------------------------------------------------
(* StoreKeepsLatest and HostsIncluded.                                     *)

\* The offset of a host state is written over earlier ones only, as long as
\* owners write, since an owner goes through the log in order.
LEMMA PutHostLatest ==
  ASSUME TypeOK, ShapeInv, LatestInv, ~overlapped,
         next[active] \in Offset, InHand(active).name = "HostState",
         PutHost(InHand(active), next[active]),
         NEW o \in written \cup {next[active]}, o <= next[active]
  PROVE  store'[log[o].cluster][log[o].host] >= o
<1> USE DEF TypeOK
<1>1. written \subseteq Offset /\ o \in Offset
  OBVIOUS
<1>2. /\ log[o].cluster \in Cluster /\ log[o].host \in Host
      /\ InHand(active).cluster \in Cluster /\ InHand(active).host \in Host
      /\ o \in Nat /\ next[active] \in Nat
  BY <1>1, LogType DEF InHand
<1>3. store' = [store EXCEPT ![InHand(active).cluster][InHand(active).host] =
                  next[active]]
  BY DEF PutHost
<1>4. CASE o = next[active]
  BY <1>2, <1>3, <1>4 DEF InHand, Snapshot
<1>5. CASE o # next[active]
  <2>1. o < next[active] /\ store[log[o].cluster][log[o].host] >= o
    BY <1>2, <1>5 DEF LatestInv
  <2>2. store'[log[o].cluster][log[o].host] \in
            {store[log[o].cluster][log[o].host], next[active]}
    BY <1>2, <1>3 DEF Snapshot
  <2> QED  BY <2>1, <2>2, <1>2
<1> QED  BY <1>4, <1>5

\* The owner of the partition writes host states in the order of the log, and
\* a takeover makes it start again after what is committed.
LEMMA LatestStep ==
  ASSUME TypeOK, ShapeInv, LatestInv, [Next]_vars
  PROVE  LatestInv'
<1> SUFFICES ASSUME ~overlapped', NEW o \in written', o < next'[active']
             PROVE  store'[log[o].cluster][log[o].host] >= o
  BY LogFrame DEF LatestInv
<1> USE DEF TypeOK, At, Goto
<1>1. ASSUME NEW c \in Consumer, ProcessHostState(c)
      PROVE  store'[log[o].cluster][log[o].host] >= o
  <2>1. ~overlapped /\ c = active
    BY <1>1 DEF ProcessHostState, Touch
  <2>2. next[active] \in Offset /\ InHand(active).name = "HostState"
    BY <1>1, <2>1, ProcessInLog DEF ProcessHostState, Process
  <2>3. o \in written \cup {next[active]} /\ o <= next[active]
    <3>1. next'[active'] = next[active] + 1
      BY <1>1, <2>1 DEF ProcessHostState, Done, groupVars
    <3>2. o \in written \cup {next[active]}
      BY <1>1, <2>1 DEF ProcessHostState
    <3> QED  BY <2>2, <3>1, <3>2, LogType
  <2> QED  BY <1>1, <2>1, <2>2, <2>3, PutHostLatest DEF ProcessHostState
<1>2. ASSUME NEW c \in Consumer, WriteHostFails(c)
      PROVE  store'[log[o].cluster][log[o].host] >= o
  <2>1. ~overlapped /\ c = active
    BY <1>2 DEF WriteHostFails, Touch
  <2>2. next[active] \in Offset /\ InHand(active).name = "HostState"
    BY <1>2, <2>1, ProcessInLog DEF WriteHostFails, Process
  <2>3. o \in written /\ o <= next[active]
    BY <1>2, <2>2, LogType DEF WriteHostFails, groupVars
  <2> QED  BY <1>2, <2>1, <2>2, <2>3, PutHostLatest DEF WriteHostFails
<1>3. ASSUME NEW c \in Consumer,
             \/ ProcessClusterState(c) \/ RejectClusterState(c)
             \/ ProcessClusterEvent(c) \/ ProcessInfraEnv(c)
             \/ (\E b \in Bucket : PutObject(c, b)) \/ Fails(c) \/ Commit(c)
             \/ Return(c)
      PROVE  /\ UNCHANGED <<store, written>> /\ o < next[active]
             /\ overlapped => overlapped'
  BY <1>3 DEF ProcessClusterState, RejectClusterState, ProcessClusterEvent,
     ProcessInfraEnv, Project, PutObject, Fails, Commit, Return, Touch, claimVars,
     groupVars
<1>4. ASSUME NEW c \in Consumer, Written(c) \/ Report(c)
      PROVE  store'[log[o].cluster][log[o].host] >= o
  <2>1. /\ UNCHANGED <<store, overlapped, active>> /\ o \in written
        /\ next' = [next EXCEPT ![c] = @ + 1]
        /\ Written(c) => At(c, "put")
        /\ Report(c) => o # next[c]
    BY <1>4 DEF Written, Report, Done, groupVars
  <2>2. o # next[c]
    BY <1>4, <2>1 DEF ShapeInv, Projected
  <2>3. o < next[active]
    BY <2>1, <2>2, LogType
  <2> QED  BY <2>1, <2>3 DEF LatestInv
<1>5. ASSUME NEW c \in Consumer, Takeover(c)
      PROVE  store'[log[o].cluster][log[o].host] >= o
  <2>1. /\ UNCHANGED <<store, overlapped, written>>
        /\ next'[active'] = committed + 1
    BY <1>5 DEF Takeover
  <2>2. o < next[active]
    BY <2>1, LogType DEF ShapeInv
  <2> QED  BY <2>1, <2>2 DEF LatestInv
<1>6. ASSUME NEW k \in Cluster, ExpireCluster(k)
      PROVE  store'[log[o].cluster][log[o].host] >= o
  <2>1. /\ UNCHANGED <<overlapped, next, active>>
        /\ o \in written /\ log[o].cluster # k
    BY <1>6 DEF ExpireCluster, claimVars, groupVars
  <2>2. store'[log[o].cluster] = store[log[o].cluster]
    BY <1>6, <2>1, LogType DEF ExpireCluster
  <2> QED  BY <2>1, <2>2 DEF LatestInv
<1>7. ASSUME Drained \/ UNCHANGED vars
      PROVE  store'[log[o].cluster][log[o].host] >= o
  BY <1>7 DEF Drained, vars, claimVars, groupVars, LatestInv
<1>8. ASSUME UNCHANGED <<store, written>>, o < next[active], overlapped => overlapped'
      PROVE  store'[log[o].cluster][log[o].host] >= o
  BY <1>8 DEF LatestInv
<1> QED
  BY <1>1, <1>2, <1>3, <1>4, <1>5, <1>6, <1>7, <1>8 DEF Next, ClaimStep

\* What the owner holds of a cluster stays while the hosts it read are those
\* of the store then, and only owners write.
LEMMA IncludedStep ==
  ASSUME TypeOK, ShapeInv, LatestInv, HostsIncluded, [Next]_vars
  PROVE  HostsIncluded'
<1> USE DEF TypeOK, At, Goto
<1>1. log' = log
  BY LogFrame
<1> SUFFICES ASSUME ~overlapped', hosts'[active'] # Nothing,
                    log[next'[active']].name = "ClusterState",
                    NEW o \in written', o < next'[active'],
                    log[o].cluster = log[next'[active']].cluster
             PROVE  hosts'[active'][log[o].host] >= o
  BY <1>1 DEF HostsIncluded, InHand
<1>2. ASSUME ~overlapped, active' = active, next'[active] = next[active],
             hosts'[active] = hosts[active], written' \subseteq written
      PROVE  hosts'[active'][log[o].host] >= o
  BY <1>2 DEF HostsIncluded, InHand
<1>3. ASSUME NEW c \in Consumer, ProcessHostState(c) \/ WriteHostFails(c)
      PROVE  FALSE
  <2>1. c = active /\ active' = active
    BY <1>3 DEF ProcessHostState, WriteHostFails, Touch, groupVars
  <2>2. hosts'[active] = Nothing
    BY <1>3, <2>1 DEF ProcessHostState, WriteHostFails, Process, Done, Forget, ShapeInv
  <2> QED  BY <2>1, <2>2
<1>4. ASSUME NEW c \in Consumer,
             ProcessClusterState(c) \/ RejectClusterState(c)
      PROVE  hosts'[active'][log[o].host] >= o
  <2>1. /\ UNCHANGED <<overlapped, active, next, written>>
        /\ hosts' = [hosts EXCEPT ![c] = store[InHand(c).cluster]]
    BY <1>4 DEF ProcessClusterState, RejectClusterState, Project, GetHostStates,
       groupVars
  <2>2. CASE c = active
    <3>1. hosts'[active'] = store[log[o].cluster]
      BY <2>1, <2>2 DEF InHand
    <3> QED  BY <2>1, <3>1 DEF LatestInv
  <2>3. CASE c # active
    BY <1>2, <2>1, <2>3
  <2> QED  BY <2>2, <2>3
<1>5. ASSUME NEW c \in Consumer, ProcessClusterEvent(c) \/ ProcessInfraEnv(c)
      PROVE  hosts'[active'][log[o].host] >= o
  <2>1. /\ UNCHANGED <<overlapped, active, next, written>>
        /\ InHand(c).name # "ClusterState"
        /\ hosts' = [hosts EXCEPT ![c] = NoHosts]
    BY <1>5 DEF ProcessClusterEvent, ProcessInfraEnv, Process, Project, groupVars
  <2>2. c # active
    BY <2>1 DEF InHand
  <2> QED  BY <1>2, <2>1, <2>2
<1>6. ASSUME NEW c \in Consumer,
             \/ (\E b \in Bucket : PutObject(c, b))
             \/ Fails(c) \/ Commit(c) \/ Return(c)
      PROVE  hosts'[active'][log[o].host] >= o
  <2>1. /\ ~overlapped /\ UNCHANGED <<active, written>>
        /\ next'[active] = next[active] /\ hosts'[active] = hosts[active]
    BY <1>6 DEF PutObject, Touch, Fails, Commit, Return, Forget, groupVars, claimVars
  <2> QED  BY <1>2, <2>1
<1>7. ASSUME NEW c \in Consumer, Written(c) \/ Report(c)
      PROVE  hosts'[active'][log[o].host] >= o
  <2>1. /\ UNCHANGED <<overlapped, active>> /\ written' \subseteq written
        /\ hosts' = [hosts EXCEPT ![c] = Nothing]
        /\ next' = [next EXCEPT ![c] = @ + 1]
    BY <1>7 DEF Written, Report, Done, Forget, groupVars
  <2>2. c # active
    BY <2>1
  <2> QED  BY <1>2, <2>1, <2>2
<1>8. ASSUME NEW c \in Consumer, Takeover(c)
      PROVE  FALSE
  BY <1>8 DEF Takeover, Forget
<1>9. ASSUME \/ \E k \in Cluster : ExpireCluster(k)
             \/ Drained \/ UNCHANGED vars
      PROVE  hosts'[active'][log[o].host] >= o
  BY <1>2, <1>9 DEF ExpireCluster, Drained, vars, claimVars, groupVars
<1> QED
  BY <1>3, <1>4, <1>5, <1>6, <1>7, <1>8, <1>9 DEF Next, ClaimStep

-------------------------------------------------------------------------------
(* DivergenceTraced.                                                       *)

\* A bucket that the owner has put its object in holds what it read.
LEMMA PutTracedStep ==
  ASSUME TypeOK, ShapeInv, TracedInv, [Next]_vars, ~overlapped',
         NEW b \in Bucket, At(active, "put")', b \notin pending'[active']
  PROVE  objects'[b][Key(InHand(active))'] = hosts'[active']
<1> USE DEF TypeOK, At, Goto
<1>1. ASSUME ~overlapped, UNCHANGED <<active, objects>>, At(active, "put"),
             next'[active] = next[active], hosts'[active] = hosts[active],
             pending'[active] = pending[active]
      PROVE  objects'[b][Key(InHand(active))'] = hosts'[active']
  <2>1. Key(InHand(active))' = Key(InHand(active))
    BY <1>1, LogFrame DEF Key, InHand
  <2> QED  BY <1>1, <2>1 DEF TracedInv
<1>2. ASSUME NEW c \in Consumer, NEW a \in Bucket, PutObject(c, a)
      PROVE  objects'[b][Key(InHand(active))'] = hosts'[active']
  <2>1. /\ ~overlapped /\ c = active /\ UNCHANGED <<active, next, hosts>>
        /\ At(active, "put")
    BY <1>2 DEF PutObject, Touch, groupVars
  <2>2. /\ Key(InHand(active))' = Key(InHand(active))
        /\ Key(InHand(active)) \in ObjectKey
    BY <2>1, LogFrame, LogType DEF Key, InHand, ShapeInv
  <2>3. CASE a = b
    BY <1>2, <2>1, <2>2, <2>3 DEF PutObject
  <2>4. CASE a # b
    <3>1. b \notin pending[active] /\ objects'[b] = objects[b]
      BY <1>2, <2>1, <2>4 DEF PutObject
    <3> QED  BY <2>1, <2>2, <3>1 DEF TracedInv
  <2> QED  BY <2>3, <2>4
<1>3. ASSUME NEW c \in Consumer, ClaimStep(c),
             ~\E a \in Bucket : PutObject(c, a)
      PROVE  /\ ~overlapped /\ UNCHANGED <<active, objects>> /\ At(active, "put")
             /\ next'[active] = next[active] /\ hosts'[active] = hosts[active]
             /\ pending'[active] = pending[active]
  BY <1>3 DEF ClaimStep, ProcessHostState, WriteHostFails, ProcessClusterState,
     RejectClusterState, ProcessClusterEvent, ProcessInfraEnv, Project, Written,
     Fails, Report, Done, Forget, Touch, Process, groupVars
<1>4. ASSUME \/ \E c \in Consumer : Commit(c) \/ Takeover(c) \/ Return(c)
             \/ \E k \in Cluster : ExpireCluster(k)
             \/ Drained \/ UNCHANGED vars
      PROVE  /\ ~overlapped /\ UNCHANGED <<active, objects>> /\ At(active, "put")
             /\ next'[active] = next[active] /\ hosts'[active] = hosts[active]
             /\ pending'[active] = pending[active]
  BY <1>4 DEF Commit, Takeover, Return, Forget, ExpireCluster, Drained, vars,
     claimVars, groupVars
<1> QED  BY <1>1, <1>2, <1>3, <1>4 DEF Next

\* Buckets come to differ by an object that the owner still has in hand; it
\* only goes past that message when all buckets have it, or reports it.
LEMMA DivergenceStep ==
  ASSUME TypeOK, ShapeInv, TracedInv, [Next]_vars, ~overlapped',
         NEW b1 \in Bucket, NEW b2 \in Bucket, NEW key \in ObjectKey,
         objects'[b1][key] # objects'[b2][key]
  PROVE  \E o \in Projected :
            Key(log[o]) = key /\ (o >= next'[active'] \/ o \in reported')
<1> USE DEF TypeOK, At, Goto
<1>0. Projected \subseteq Nat
  BY LogType
<1>1. ASSUME ~overlapped, objects' = objects
      PROVE  \E o \in Projected :
                Key(log[o]) = key /\ (o >= next[active] \/ o \in reported)
  BY <1>1 DEF TracedInv
<1>2. ASSUME ~overlapped, objects' = objects, reported \subseteq reported',
             next'[active'] <= next[active]
      PROVE  \E o \in Projected :
                Key(log[o]) = key /\ (o >= next'[active'] \/ o \in reported')
  <2>1. PICK o \in Projected :
           Key(log[o]) = key /\ (o >= next[active] \/ o \in reported)
    BY <1>1, <1>2
  <2>2. active' \in Consumer /\ next' \in [Consumer -> 1 .. Len(log) + 1]
    BY TypeStep, LogFrame
  <2>3. next[active] \in Nat /\ next'[active'] \in Nat
    BY <2>2, LogType
  <2>4. o >= next'[active'] \/ o \in reported'
    BY <1>0, <1>2, <2>1, <2>3
  <2> QED  BY <2>1, <2>4
<1>3. ASSUME NEW c \in Consumer, NEW a \in Bucket, PutObject(c, a)
      PROVE  \E o \in Projected :
                Key(log[o]) = key /\ (o >= next'[active'] \/ o \in reported')
  <2>1. /\ ~overlapped /\ c = active /\ UNCHANGED <<active, next, reported>>
        /\ next[active] \in Projected
    BY <1>3 DEF PutObject, Touch, groupVars, ShapeInv
  <2>2. CASE key = Key(InHand(active))
    BY <1>0, <2>1, <2>2 DEF InHand
  <2>3. CASE key # Key(InHand(active))
    <3>1. objects[b1][key] # objects[b2][key]
      BY <1>3, <2>1, <2>3 DEF PutObject
    <3> QED  BY <2>1, <3>1 DEF TracedInv
  <2> QED  BY <2>2, <2>3
<1>4. ASSUME NEW c \in Consumer, ProcessHostState(c)
      PROVE  \E o \in Projected :
                Key(log[o]) = key /\ (o >= next'[active'] \/ o \in reported')
  <2>1. /\ ~overlapped /\ c = active /\ UNCHANGED <<active, objects, reported>>
        /\ next'[active] = next[active] + 1
        /\ log[next[active]].name = "HostState"
    BY <1>4 DEF ProcessHostState, Process, Done, Touch, InHand, groupVars
  <2>2. PICK o \in Projected :
           Key(log[o]) = key /\ (o >= next[active] \/ o \in reported)
    BY <1>1, <2>1
  <2>3. o # next[active]
    BY <2>1, <2>2 DEF Projected
  <2>4. o >= next'[active'] \/ o \in reported'
    BY <1>0, <2>1, <2>2, <2>3, LogType
  <2> QED  BY <2>2, <2>4
<1>5. ASSUME NEW c \in Consumer, Written(c)
      PROVE  \E o \in Projected :
                Key(log[o]) = key /\ (o >= next'[active'] \/ o \in reported')
  <2>1. /\ ~overlapped /\ UNCHANGED <<active, objects, reported>>
        /\ At(c, "put") /\ pending[c] = {}
        /\ next' = [next EXCEPT ![c] = @ + 1]
    BY <1>5 DEF Written, Done, groupVars
  <2>2. CASE c # active
    BY <1>2, <2>1, <2>2, LogType
  <2>3. CASE c = active
    <3>1. PICK o \in Projected :
             Key(log[o]) = key /\ (o >= next[active] \/ o \in reported)
      BY <1>1, <2>1
    <3>2. o # next[active]
      BY <2>1, <2>3, <3>1 DEF TracedInv, InHand
    <3>3. o >= next'[active'] \/ o \in reported'
      BY <1>0, <2>1, <2>3, <3>1, <3>2, LogType
    <3> QED  BY <3>1, <3>3
  <2> QED  BY <2>2, <2>3
<1>6. ASSUME NEW c \in Consumer, Report(c)
      PROVE  \E o \in Projected :
                Key(log[o]) = key /\ (o >= next'[active'] \/ o \in reported')
  <2>1. /\ ~overlapped /\ UNCHANGED <<active, objects>>
        /\ reported' = reported \cup {next[c]}
        /\ next' = [next EXCEPT ![c] = @ + 1]
    BY <1>6 DEF Report, Done, groupVars
  <2>2. PICK o \in Projected :
           Key(log[o]) = key /\ (o >= next[active] \/ o \in reported)
    BY <1>1, <2>1
  <2>3. o >= next'[active'] \/ o \in reported'
    BY <1>0, <2>1, <2>2, LogType
  <2> QED  BY <2>2, <2>3
<1>7. ASSUME NEW c \in Consumer,
             \/ WriteHostFails(c) \/ ProcessClusterState(c)
             \/ RejectClusterState(c) \/ ProcessClusterEvent(c)
             \/ ProcessInfraEnv(c) \/ Fails(c) \/ Commit(c) \/ Return(c)
      PROVE  /\ ~overlapped /\ UNCHANGED <<objects, active, reported>>
             /\ next'[active] = next[active]
  BY <1>7 DEF WriteHostFails, ProcessClusterState, RejectClusterState,
     ProcessClusterEvent, ProcessInfraEnv, Project, Fails, Commit, Return, Touch,
     claimVars, groupVars
<1>8. ASSUME NEW c \in Consumer, Takeover(c)
      PROVE  /\ ~overlapped /\ UNCHANGED <<objects, reported>>
             /\ next'[active'] <= next[active]
  <2>1. next'[active'] = committed + 1
    BY <1>8 DEF Takeover
  <2>2. next'[active'] <= next[active]
    BY <2>1, LogType DEF ShapeInv
  <2> QED  BY <1>8, <2>2 DEF Takeover
<1>9. ASSUME \/ \E k \in Cluster : ExpireCluster(k)
             \/ Drained \/ UNCHANGED vars
      PROVE  ~overlapped /\ UNCHANGED <<objects, active, reported, next>>
  BY <1>9 DEF ExpireCluster, Drained, vars, claimVars, groupVars
<1>10. next[active] <= next[active]
  BY LogType
<1> QED
  BY <1>2, <1>3, <1>4, <1>5, <1>6, <1>7, <1>8, <1>9, <1>10 DEF Next, ClaimStep

\* The two lemmas together.
LEMMA TracedStep ==
  ASSUME TypeOK, ShapeInv, TracedInv, [Next]_vars
  PROVE  TracedInv'
<1> SUFFICES ASSUME ~overlapped'
             PROVE  TracedInv'
  BY DEF TracedInv
<1>1. \A b \in Bucket :
         (At(active, "put")' /\ b \notin pending'[active']) =>
             objects'[b][Key(InHand(active))'] = hosts'[active']
  BY PutTracedStep
<1>2. \A b1, b2 \in Bucket, key \in ObjectKey :
         objects'[b1][key] # objects'[b2][key] =>
             \E o \in Projected :
                Key(log[o]) = key /\ (o >= next'[active'] \/ o \in reported')
  BY DivergenceStep
<1> QED  BY <1>1, <1>2, LogFrame DEF TracedInv, Key

-------------------------------------------------------------------------------
(* The theorems.                                                           *)

\* Nothing is read, written or handled at first.
LEMMA InitProcessing ==
  ASSUME Init
  PROVE  ProcessingInv
<1>1. log \in Logs
  BY DEF Init
<1>2. Len(log) \in Nat
  BY <1>1, LogType
<1>3. TypeOK
  <2>1. store \in [Cluster -> Snapshot]
    BY DEF Init, Snapshot, NoHosts
  <2>2. objects \in [Bucket -> [ObjectKey -> Snapshot \cup {Nothing}]]
    BY DEF Init
  <2>3. /\ next \in [Consumer -> 1 .. Len(log) + 1]
        /\ committed \in 0 .. Len(log) /\ takeovers \in 0 .. MaxTakeovers
    BY <1>2, ProcessingAssumption DEF Init
  <2>4. /\ stage \in [Consumer -> {"receive", "put", "failed", "returned"}]
        /\ \A c \in Consumer : ~At(c, "put")
    BY DEF Init, At
  <2>5. /\ reported \subseteq Offset /\ active \in Consumer
        /\ hosts \in [Consumer -> Snapshot \cup {Nothing}]
        /\ pending \in [Consumer -> SUBSET Bucket]
        /\ written \subseteq Offset /\ overlapped \in BOOLEAN
    BY DEF Init
  <2> QED  BY <1>1, <2>1, <2>2, <2>3, <2>4, <2>5 DEF TypeOK
<1>4. \A c \in Consumer : ~At(c, "put") /\ ~At(c, "failed") /\ hosts[c] = Nothing
                          /\ next[c] = 1
  BY DEF Init, At
<1>5. ShapeInv
  BY <1>2, <1>3, <1>4 DEF Init, ShapeInv, TypeOK
<1>6. HandledInv
  BY <1>1, <1>4, LogType DEF HandledInv
<1>7. LatestInv /\ HostsIncluded
  BY <1>3, <1>4 DEF Init, LatestInv, HostsIncluded, TypeOK
<1>8. TracedInv
  BY <1>3, <1>4 DEF Init, TracedInv, TypeOK
<1> QED  BY <1>3, <1>5, <1>6, <1>7, <1>8 DEF ProcessingInv

\* ProcessingInv is inductive.
LEMMA ProcessingInvariance == Spec => []ProcessingInv
<1>1. Init => ProcessingInv
  BY InitProcessing
<1>2. ProcessingInv /\ [Next]_vars => ProcessingInv'
  BY TypeStep, ShapeStep, HandledStep, LatestStep, IncludedStep, TracedStep
     DEF ProcessingInv
<1> QED  BY <1>1, <1>2, PTL DEF Spec

\* Main.Process and its surroundings keep the types of their variables.
THEOREM TypeCorrect == Spec => []TypeOK
<1>1. ProcessingInv => TypeOK
  BY DEF ProcessingInv
<1> QED  BY <1>1, ProcessingInvariance, PTL

\* Nothing is lost between the topic and the buckets: what the group committed
\* was put in every bucket or reported, whatever number of crashes, rebalances
\* and consumers that go on after them.
THEOREM NothingIsLost == Spec => []CommittedProjected
<1>1. ProcessingInv => CommittedProjected
  <2> SUFFICES ASSUME ProcessingInv, NEW o \in Projected, o <= committed
               PROVE  Handled(o)
    BY DEF CommittedProjected, Handled
  <2>1. o < next[active] /\ active \in Consumer
    BY LogType DEF ProcessingInv, ShapeInv, TypeOK
  <2> QED  BY <2>1 DEF ProcessingInv, HandledInv
<1> QED  BY <1>1, ProcessingInvariance, PTL

\* Replays never leave an old host state in the store, as long as only owners
\* of the partition write.
THEOREM NewestHostStays == Spec => []StoreKeepsLatest
<1>1. ProcessingInv => StoreKeepsLatest
  <2> SUFFICES ASSUME ProcessingInv, ~overlapped, NEW o \in written, o <= committed
               PROVE  store[log[o].cluster][log[o].host] >= o
    BY DEF StoreKeepsLatest
  <2>1. o < next[active]
    BY LogType DEF ProcessingInv, ShapeInv, TypeOK
  <2> QED  BY <2>1 DEF ProcessingInv, LatestInv
<1> QED  BY <1>1, ProcessingInvariance, PTL

\* A cluster state is projected, or reported, with every host stored before it
\* and none that is outdated.
THEOREM NoHostMissed == Spec => []HostsIncluded
<1>1. ProcessingInv => HostsIncluded
  BY DEF ProcessingInv
<1> QED  BY <1>1, ProcessingInvariance, PTL

\* Buckets that disagree will be written again, or one of their messages is in
\* the dead letter queue.
THEOREM BucketsReconcile == Spec => []DivergenceTraced
<1>1. ProcessingInv => DivergenceTraced
  <2> SUFFICES ASSUME ProcessingInv, ~overlapped,
                      NEW b1 \in Bucket, NEW b2 \in Bucket, NEW key \in ObjectKey,
                      objects[b1][key] # objects[b2][key]
               PROVE  \E o \in Projected :
                         Key(log[o]) = key /\ (o > committed \/ o \in reported)
    BY DEF DivergenceTraced, ProcessingInv, TypeOK
  <2>1. PICK o \in Projected :
           Key(log[o]) = key /\ (o >= next[active] \/ o \in reported)
    BY DEF ProcessingInv, TracedInv
  <2>2. o > committed \/ o \in reported
    BY <2>1, LogType DEF ProcessingInv, ShapeInv, TypeOK
  <2> QED  BY <2>1, <2>2
<1> QED  BY <1>1, ProcessingInvariance, PTL

-------------------------------------------------------------------------------
(* The host store that the messages use.                                   *)

\* The hosts that are stored, and those that were promised to stay.
StoredHosts == [k \in Cluster |-> {h \in Host : store[k][h] # 0}]
KeptHosts == {<<log[o].cluster, log[o].host>> : o \in written}

\* Writing a host state stores the host, whether the write succeeds or not.
LEMMA PutHostStores ==
  ASSUME TypeOK, NEW c \in Consumer, next[c] \in Offset, PutHost(InHand(c), next[c])
  PROVE  /\ InHand(c).cluster \in Cluster /\ InHand(c).host \in Host
         /\ StoredHosts' = [StoredHosts EXCEPT ![InHand(c).cluster] =
                              @ \cup {InHand(c).host}]
<1> USE DEF TypeOK, Snapshot
<1>1. /\ InHand(c).cluster \in Cluster /\ InHand(c).host \in Host
      /\ next[c] \in Nat /\ next[c] # 0
  BY LogType DEF InHand
<1>2. PICK k \in Cluster, h \in Host, n \in Nat \ {0} :
         /\ k = InHand(c).cluster /\ h = InHand(c).host /\ n = next[c]
  BY <1>1
<1>3. store' = [store EXCEPT ![k][h] = n]
  BY <1>2 DEF PutHost
<1>4. ASSUME NEW j \in Cluster
      PROVE  {l \in Host : store'[j][l] # 0} =
                IF j = k THEN {l \in Host : store[j][l] # 0} \cup {h}
                ELSE {l \in Host : store[j][l] # 0}
  BY <1>3
<1> QED  BY <1>1, <1>2, <1>4, ZenonT(40) DEF StoredHosts

\* A step that keeps the store and forgets some promises is one of HostStore.
LEMMA PromisesEnd ==
  ASSUME store' = store, log' = log, written' \subseteq written
  PROVE  Store!Next
<1>1. StoredHosts' = [k \in Cluster |-> IF k \in {} THEN {} ELSE StoredHosts[k]]
  BY DEF StoredHosts
<1>2. KeptHosts' \subseteq {i \in KeptHosts : i[1] \notin {}}
  BY DEF KeptHosts
<1>3. Store!Forget({})
  BY <1>1, <1>2 DEF Store!Forget, StoredHosts, KeptHosts
<1> QED  BY <1>3 DEF Store!Next

\* The steps that write the store or end a promise are steps of HostStore, the
\* others leave it alone.
LEMMA StoreStep ==
  ASSUME TypeOK, ShapeInv, [Next]_vars
  PROVE  [Store!Next]_(Store!vars)
<1> SUFFICES Store!Next \/ (StoredHosts' = StoredHosts /\ KeptHosts' = KeptHosts)
  BY DEF Store!vars, StoredHosts, KeptHosts
<1>1. log' = log
  BY LogFrame
<1>2. ASSUME NEW c \in Consumer, ProcessHostState(c) \/ WriteHostFails(c)
      PROVE  Store!Next
  <2>1. next[c] \in Offset /\ PutHost(InHand(c), next[c])
    BY <1>2, ProcessInLog DEF ProcessHostState, WriteHostFails
  <2>2. PICK k \in Cluster, h \in Host :
           /\ k = InHand(c).cluster /\ h = InHand(c).host
           /\ StoredHosts' = [StoredHosts EXCEPT ![k] = @ \cup {h}]
    BY <2>1, PutHostStores
  <2>3. written' \in {written, written \cup {next[c]}}
    BY <1>2 DEF ProcessHostState, WriteHostFails
  <2>4. KeptHosts' \in {KeptHosts, KeptHosts \cup {<<k, h>>}}
    <3>1. CASE written' = written
      BY <1>1, <3>1 DEF KeptHosts
    <3>2. CASE written' = written \cup {next[c]}
      BY <1>1, <2>2, <3>2 DEF KeptHosts, InHand
    <3> QED  BY <2>3, <3>1, <3>2
  <2>5. Store!Write(k, h)
    BY <2>2, <2>4 DEF Store!Write, StoredHosts, KeptHosts
  <2> QED  BY <2>5 DEF Store!Next
<1>3. ASSUME NEW k \in Cluster, ExpireCluster(k)
      PROVE  Store!Next
  <2>1. StoredHosts' = [j \in Cluster |-> IF j \in {k} THEN {} ELSE StoredHosts[j]]
    <3>1. ASSUME NEW j \in Cluster
          PROVE  {h \in Host : store'[j][h] # 0} =
                    IF j \in {k} THEN {} ELSE {h \in Host : store[j][h] # 0}
      BY <1>3 DEF ExpireCluster, NoHosts, TypeOK
    <3> QED  BY <3>1 DEF StoredHosts
  <2>2. KeptHosts' \subseteq {i \in KeptHosts : i[1] \notin {k}}
    BY <1>1, <1>3 DEF ExpireCluster, KeptHosts
  <2>3. Store!Forget({k})
    BY <2>1, <2>2 DEF Store!Forget, StoredHosts, KeptHosts
  <2> QED  BY <2>3 DEF Store!Next
<1>4. ASSUME NEW c \in Consumer, ClaimStep(c),
             ~ProcessHostState(c), ~WriteHostFails(c)
      PROVE  store' = store /\ written' \subseteq written
  BY <1>4 DEF ClaimStep, ProcessClusterState, RejectClusterState,
     ProcessClusterEvent, ProcessInfraEnv, Project, PutObject, Written, Fails, Report
<1>5. ASSUME NEW c \in Consumer, Commit(c) \/ Takeover(c) \/ Return(c)
      PROVE  store' = store /\ written' = written
  BY <1>5 DEF Commit, Takeover, Return
<1>6. ASSUME Drained \/ UNCHANGED vars
      PROVE  store' = store /\ written' = written
  BY <1>6 DEF Drained, vars
<1> QED
  BY <1>1, <1>2, <1>3, <1>4, <1>5, <1>6, PromisesEnd DEF Next

\* An empty store owes nothing.
LEMMA StoreInit == Init => Store!Init
BY DEF Init, Store!Init, NoHosts

\* Whatever is replayed, fails or overlaps, the messages use the host store as
\* HostStore.tla says: a host is written alone, and forgotten with its cluster.
THEOREM MessagesUseStore == Spec => StoreSpec
<1>1. Spec => [](TypeOK /\ ShapeInv)
  <2>1. ProcessingInv => TypeOK /\ ShapeInv
    BY DEF ProcessingInv
  <2> QED  BY <2>1, ProcessingInvariance, PTL
<1> QED
  BY <1>1, StoreInit, StoreStep, PTL DEF Spec, StoreSpec, Store!Spec
===============================================================================
