----------------------------- MODULE MainProcessing -----------------------------
(***************************************************************************)
(* Main.Process (internal/processing) with what surrounds it: the messages *)
(* of one partition, the host store in Valkey, the output buckets and the  *)
(* error report.  A HostState updates the store; a ClusterState is joined  *)
(* with the hosts read from the store, then put in every bucket; an Event  *)
(* or an InfraEnv is put as it is.                                         *)
(*                                                                         *)
(* Delivery is at least once: after a crash or a rebalance a consumer      *)
(* starts again from the committed offset, and a consumer that lost the    *)
(* partition without noticing goes on for a while.  JSONHandler.tla has    *)
(* the consumers in detail, HostRepo.tla the two commands of a host write, *)
(* ParallelWriter.tla the requests of a put; here each of them is one step.*)
(***************************************************************************)
EXTENDS Naturals, Sequences

CONSTANTS Consumer, Cluster, Host, Bucket,
          Logs,            \* the messages the partition may hold
          Nothing,         \* the content of a key that holds no object,
                           \* and hosts that were not read
          MaxTakeovers     \* bound on crashes and rebalances

\* The fields of a message that matter: `id` identifies the payload without
\* its hosts, `valid` says that every check of its processing passes.
Name == {"Event", "ClusterState", "HostState", "InfraEnv"}
Message == [name : Name, cluster : Cluster, host : Host, id : Nat, day : Nat,
            valid : BOOLEAN]

ASSUME ProcessingAssumption ==
    /\ Logs \subseteq Seq(Message)
    /\ Nothing \notin [Host -> Nat]
    /\ Consumer # {} /\ Bucket # {}
    /\ MaxTakeovers \in Nat

VARIABLES log,             \* the messages of the partition, log[1] first
          store,           \* store[k][h]: offset of the host state, 0: none
          objects,         \* objects[b][key]: what the bucket holds
          reported,        \* offsets in the dead letter queue, or dumped
          committed,       \* how many messages the group is done with
          active,          \* the consumer that owns the partition
          next,            \* next[c]: offset in hand, or next to receive
          stage,           \* stage[c]: where Process is
          hosts,           \* hosts[c]: the host states read for the message,
                           \* which its error report takes along
          pending,         \* pending[c]: the buckets still to be written
          written,         \* host states whose last write returned nil, and
                           \* whose cluster has not expired since
          overlapped,      \* a consumer that had lost the partition wrote
          takeovers

claimVars == <<next, stage, hosts, pending>>
groupVars == <<committed, active, takeovers>>
vars == <<log, store, objects, reported, groupVars, claimVars, written, overlapped>>

Offset == 1 .. Len(log)

Snapshot == [Host -> Nat]
NoHosts == [h \in Host |-> 0]

\* keyTemplate: <prefix><eventType>/<year>-<month>-<day>/<id>.ndjson
Key(m) == <<m.name, m.day, m.id>>
Projected == {o \in Offset : log[o].name # "HostState"}
ObjectKey == {Key(log[o]) : o \in Projected}

InHand(c) == log[next[c]]
At(c, s) == stage[c] = s
Goto(c, s) == stage' = [stage EXCEPT ![c] = s]

\* A consumer that lost the partition and still writes.
Touch(c) == overlapped' = (overlapped \/ c # active)

Init ==
    /\ log \in Logs
    /\ store = [k \in Cluster |-> NoHosts]
    /\ objects = [b \in Bucket |-> [key \in ObjectKey |-> Nothing]]
    /\ reported = {}
    /\ committed = 0
    /\ active \in Consumer
    /\ next = [c \in Consumer |-> 1]
    /\ stage = [c \in Consumer |-> IF c = active THEN "receive" ELSE "returned"]
    /\ hosts = [c \in Consumer |-> Nothing]
    /\ pending = [c \in Consumer |-> {}]
    /\ written = {}
    /\ overlapped = FALSE
    /\ takeovers = 0

-------------------------------------------------------------------------------
\* ExtractString, ValidateDate and HashValue accept every field they are given.
Acceptable(m) == m.valid

\* Process is called with the next message, of that kind.
Process(c, name) ==
    /\ At(c, "receive")
    /\ next[c] <= Len(log)
    /\ InHand(c).name = name

\* The locals of Process are gone.
Forget(c) ==
    /\ hosts' = [hosts EXCEPT ![c] = Nothing]
    /\ pending' = [pending EXCEPT ![c] = {}]

\* Process returned: the message is marked.
Done(c) ==
    /\ next' = [next EXCEPT ![c] = @ + 1]
    /\ Goto(c, "receive")
    /\ Forget(c)

\* Mutant: HSETNX, which keeps a host state that is already there.
PutIfAbsent(m, o) ==
    store' = [store EXCEPT ![m.cluster][m.host] = IF @ = 0 THEN o ELSE @]

\* Mutant: the cluster's key is set, not the field of the host.
PutHostAlone(m, o) ==
    store' = [store EXCEPT ![m.cluster] = [NoHosts EXCEPT ![m.host] = o]]

\* The fields of the cluster's key are overwritten host by host.
PutHost(m, o) == store' = [store EXCEPT ![m.cluster][m.host] = o]

ProcessHostState(c) ==
    /\ Process(c, "HostState") /\ Acceptable(InHand(c))
    /\ PutHost(InHand(c), next[c])
    /\ written' = written \cup {next[c]}
    /\ Touch(c)
    /\ Done(c)
    /\ UNCHANGED <<log, objects, reported, groupVars>>

\* WriteHostState fails although the host may have been stored: the error is
\* final, or retryable and Process is called again.
WriteHostFails(c) ==
    /\ Process(c, "HostState") /\ Acceptable(InHand(c))
    /\ PutHost(InHand(c), next[c])
    /\ Touch(c)
    /\ Goto(c, "failed") \/ UNCHANGED stage
    /\ UNCHANGED <<log, objects, reported, groupVars, next, hosts, pending,
                   written>>

\* Mutant: null instead of an empty list for a cluster without hosts.
GetHostStatesOrNull(k) == IF store[k] = NoHosts THEN Nothing ELSE store[k]

\* HGETALL: all the hosts of a cluster at once.
GetHostStates(k) == store[k]

\* The projection is ready to be put in every bucket.
Project(c, found) ==
    /\ hosts' = [hosts EXCEPT ![c] = found]
    /\ pending' = [pending EXCEPT ![c] = Bucket]
    /\ Goto(c, "put")
    /\ UNCHANGED <<log, store, objects, reported, groupVars, next, written,
                   overlapped>>

\* Mutant: without an answer of the store, the state is projected hostless.
ReadHostsOrNone(c) ==
    /\ Process(c, "ClusterState") /\ Acceptable(InHand(c))
    /\ \E found \in {GetHostStates(InHand(c).cluster), NoHosts} : Project(c, found)

\* The hosts are read first.
ProcessClusterState(c) ==
    /\ Process(c, "ClusterState") /\ Acceptable(InHand(c))
    /\ Project(c, GetHostStates(InHand(c).cluster))

\* A check fails after the hosts were read: makeInputsFromHostStates.
RejectClusterState(c) ==
    /\ Process(c, "ClusterState") /\ ~Acceptable(InHand(c))
    /\ hosts' = [hosts EXCEPT ![c] = GetHostStates(InHand(c).cluster)]
    /\ Goto(c, "failed")
    /\ UNCHANGED <<log, store, objects, reported, groupVars, next, pending, written,
                   overlapped>>

ProcessClusterEvent(c) ==
    /\ Process(c, "Event") /\ Acceptable(InHand(c))
    /\ Project(c, NoHosts)

ProcessInfraEnv(c) ==
    /\ Process(c, "InfraEnv") /\ Acceptable(InHand(c))
    /\ Project(c, NoHosts)

\* Mutant: the hosts are read for each bucket, when its object is put.
PutFreshObject(c, b) ==
    /\ At(c, "put")
    /\ b \in pending[c]
    /\ objects' = [objects EXCEPT ![b][Key(InHand(c))] =
                     IF InHand(c).name = "ClusterState"
                     THEN GetHostStates(InHand(c).cluster) ELSE hosts[c]]
    /\ pending' = [pending EXCEPT ![c] = @ \ {b}]
    /\ Touch(c)
    /\ UNCHANGED <<log, store, reported, groupVars, next, stage, hosts, written>>

\* One bucket stores the projection, over what the key held.
PutObject(c, b) ==
    /\ At(c, "put")
    /\ b \in pending[c]
    /\ objects' = [objects EXCEPT ![b][Key(InHand(c))] = hosts[c]]
    /\ pending' = [pending EXCEPT ![c] = @ \ {b}]
    /\ Touch(c)
    /\ UNCHANGED <<log, store, reported, groupVars, next, stage, hosts, written>>

\* Mutant: the first bucket that has the object is enough.
WrittenOnce(c) ==
    /\ At(c, "put")
    /\ pending[c] # Bucket
    /\ Done(c)
    /\ UNCHANGED <<log, store, objects, reported, groupVars, written, overlapped>>

\* Every bucket has the object: Process returns nil, the message is marked.
Written(c) ==
    /\ At(c, "put")
    /\ pending[c] = {}
    /\ Done(c)
    /\ UNCHANGED <<log, store, objects, reported, groupVars, written, overlapped>>

\* An invalid message, an error of Valkey or S3, or the timeout; objects that
\* some buckets already have stay there, and the error keeps the hosts.
Fails(c) ==
    /\ At(c, "put") \/ \E name \in Name : Process(c, name)
    /\ Goto(c, "failed")
    /\ pending' = [pending EXCEPT ![c] = {}]
    /\ UNCHANGED <<log, store, objects, reported, groupVars, next, hosts, written,
                   overlapped>>

\* The message goes to the dead letter queue, or else to the log; the key
\* <topic>/<partition>-<offset>.json is the same at each delivery.
Report(c) ==
    /\ At(c, "failed")
    /\ reported' = reported \cup {next[c]}
    /\ written' = written \ {next[c]}
    /\ Done(c)
    /\ UNCHANGED <<log, store, objects, groupVars, overlapped>>

Commit(c) ==
    /\ c = active
    /\ committed < next[c] - 1
    /\ committed' = next[c] - 1
    /\ UNCHANGED <<log, store, objects, reported, active, takeovers, claimVars,
                   written, overlapped>>

\* The partition is given to a consumer, possibly the same after a crash,
\* which starts from the committed offset.
Takeover(c) ==
    /\ takeovers < MaxTakeovers
    /\ takeovers' = takeovers + 1
    /\ active' = c
    /\ next' = [next EXCEPT ![c] = committed + 1]
    /\ Goto(c, "receive")
    /\ Forget(c)
    /\ UNCHANGED <<log, store, objects, reported, committed, written, overlapped>>

\* A consumer notices that it lost the partition, or crashes.
Return(c) ==
    /\ c # active
    /\ ~At(c, "returned")
    /\ Goto(c, "returned")
    /\ next' = [next EXCEPT ![c] = 1]
    /\ Forget(c)
    /\ UNCHANGED <<log, store, objects, reported, groupVars, written, overlapped>>

\* Valkey expires the key of a cluster.
ExpireCluster(k) ==
    /\ store[k] # NoHosts
    /\ store' = [store EXCEPT ![k] = NoHosts]
    /\ written' = {o \in written : log[o].cluster # k}
    /\ UNCHANGED <<log, objects, reported, groupVars, claimVars, overlapped>>

\* Everything is committed: the consumer waits for messages.
Drained == committed = Len(log) /\ UNCHANGED vars

ClaimStep(c) ==
    \/ ProcessHostState(c)
    \/ WriteHostFails(c)
    \/ ProcessClusterState(c)
    \/ RejectClusterState(c)
    \/ ProcessClusterEvent(c)
    \/ ProcessInfraEnv(c)
    \/ \E b \in Bucket : PutObject(c, b)
    \/ Written(c)
    \/ Fails(c)
    \/ Report(c)

Next ==
    \/ \E c \in Consumer : ClaimStep(c) \/ Commit(c) \/ Takeover(c) \/ Return(c)
    \/ \E k \in Cluster : ExpireCluster(k)
    \/ Drained

Spec == Init /\ [][Next]_vars

-------------------------------------------------------------------------------
(* Properties.                                                             *)

\* Every variable keeps its type.
TypeOK ==
    /\ log \in Logs
    /\ store \in [Cluster -> Snapshot]
    /\ objects \in [Bucket -> [ObjectKey -> Snapshot \cup {Nothing}]]
    /\ reported \subseteq Offset
    /\ committed \in 0 .. Len(log)
    /\ active \in Consumer
    /\ next \in [Consumer -> 1 .. Len(log) + 1]
    /\ stage \in [Consumer ->
                    {"receive", "put", "failed", "returned"}]
    /\ hosts \in [Consumer -> Snapshot \cup {Nothing}]
    /\ \A c \in Consumer : At(c, "put") => hosts[c] # Nothing
    /\ pending \in [Consumer -> SUBSET Bucket]
    /\ written \subseteq Offset
    /\ overlapped \in BOOLEAN
    /\ takeovers \in 0 .. MaxTakeovers

\* End to end, nothing is lost: every committed message that is not a host
\* state has its object in all buckets, or was reported, whatever was
\* interrupted, replayed or written by two consumers at once.
CommittedProjected ==
    \A o \in Projected :
        o <= committed =>
            o \in reported \/ \A b \in Bucket : objects[b][Key(log[o])] # Nothing

\* The store does not go back in time: a committed host state is there, or a
\* later one of that host, although replays rewrite old ones for a while.  A
\* newer write is only undone by a consumer that lost the partition, or when
\* its own replay fails and is reported.
StoreKeepsLatest ==
    \A o \in written :
        (o <= committed /\ ~overlapped) => store[log[o].cluster][log[o].host] >= o

\* The owner of the partition never projects or reports a cluster state whose
\* hosts it read without a host that was stored before it, nor with an outdated
\* one, unless the cluster expired meanwhile.
HostsIncluded ==
    /\ ~overlapped
    /\ hosts[active] # Nothing /\ InHand(active).name = "ClusterState"
    => \A o \in written :
          (o < next[active] /\ log[o].cluster = InHand(active).cluster) =>
              hosts[active][log[o].host] >= o

\* Buckets that disagree on an object leave a trace: a message of that key is
\* reported, or will be delivered again.
DivergenceTraced ==
    \A b1, b2 \in Bucket, key \in ObjectKey :
        objects[b1][key] # objects[b2][key] =>
            \/ overlapped
            \/ \E o \in Projected :
                  Key(log[o]) = key /\ (o > committed \/ o \in reported)

\* Whatever is replayed, fails or overlaps, the messages use the host store as
\* it is meant: see HostStore.tla.
Store == INSTANCE HostStore
    WITH stored <- [k \in Cluster |-> {h \in Host : store[k][h] # 0}],
         kept <- {<<log[o].cluster, log[o].host>> : o \in written}
StoreSpec == Store!Spec

\* processing_clusterstate.go, processClusterState: "Sorted by host id to have
\* a deterministic cluster_state_id", and the idempotency test of the cluster
\* states: "having only 1 key in s3 with a stable content".  The object of a
\* cluster_state_id keeps its hosts.
StableContent ==
    [][\A b \in Bucket, key \in ObjectKey :
          objects[b][key] # Nothing => objects'[b][key] = objects[b][key]]_vars
===============================================================================
