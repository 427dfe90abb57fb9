----------------------------- MODULE HostRepoProofs -----------------------------
(***************************************************************************)
(* Proofs about HostRepo.tla, for any workers, clusters, hosts and TTL.    *)
(*                                                                         *)
(* RepoInv is inductive.  A field can only disappear with its key; a key   *)
(* only expires when no promise is left (TtlCoversWrites) and puts the     *)
(* writes between their two commands in raced (PendingWriteStored).  The   *)
(* same facts make each step one of HostStore.tla.                         *)
(***************************************************************************)
EXTENDS HostRepo, TLAPS

\* The expiration sent to Valkey is a number of seconds.
LEMMA SecondsNat == Seconds \in Nat
BY RepoAssumption DEF Seconds

\* Counting down to zero.
LEMMA CountDown ==
  ASSUME NEW n \in Nat, NEW x \in 0 .. n
  PROVE  /\ (IF x = 0 THEN 0 ELSE x - 1) \in 0 .. n
         /\ x <= 1 => (IF x = 0 THEN 0 ELSE x - 1) = 0
<1>1. CASE x = 0
  BY <1>1
<1>2. CASE x # 0
  BY <1>2
<1> QED  BY <1>1, <1>2

\* An empty store satisfies the invariants.
LEMMA RepoInit == Init => RepoInv /\ NoForgottenKey
BY SecondsNat DEF Init, RepoInv, TypeOK, TtlCoversWrites, PendingWriteStored,
   LostOnlyByExpiryRace, NoForgottenKey, Stages, Item, NoExpiry, Writes

\* Commands, failures and the clock preserve the types.
LEMMA TypeStep ==
  ASSUME TypeOK, [Next]_vars
  PROVE  TypeOK'
<1> USE SecondsNat DEF TypeOK, Stages, NoExpiry
<1>1. ASSUME NEW w \in Worker, NEW k \in Cluster, NEW h \in Host, Step(w, k, h)
      PROVE  TypeOK'
  <2>1. CASE WriteHostState(w, k, h)
    BY <2>1 DEF WriteHostState, Item
  <2>2. CASE Hset(w, k, h)
    BY <2>2 DEF Hset, ApplyHset
  <2>3. CASE Expire(w, k, h)
    BY <2>3 DEF Expire, ApplyExpire
  <2>4. CASE Refused(w, k, h)
    BY <2>4 DEF Refused
  <2>5. CASE Fails(w, k, h)
    <3>1. /\ hosts' \in [Cluster -> SUBSET Host] /\ raced' \subseteq Item
          /\ ttl' \in [Cluster -> {NoExpiry} \cup 1 .. Seconds]
      <4>1. CASE ApplyHset(k, h)
        BY <4>1 DEF ApplyHset
      <4>2. CASE ApplyExpire(k)
        BY <4>2 DEF ApplyExpire
      <4>3. CASE UNCHANGED <<hosts, ttl, raced>>
        BY <4>3
      <4> QED  BY <2>5, <4>1, <4>2, <4>3 DEF Fails
    <3>2. /\ stage' = [stage EXCEPT ![w] = "idle"]
          /\ orphaned' \subseteq Cluster
          /\ UNCHANGED <<target, fresh>>
      BY <2>5 DEF Fails, Leave
    <3> QED  BY <3>1, <3>2
  <2> QED  BY <1>1, <2>1, <2>2, <2>3, <2>4, <2>5 DEF Step
<1>2. CASE Tick
  <2>1. ttl' \in [Cluster -> {NoExpiry} \cup 1 .. Seconds]
    <3> SUFFICES ASSUME NEW k \in Cluster
                 PROVE  ttl'[k] \in {NoExpiry} \cup 1 .. Seconds
      BY <1>2 DEF Tick
    <3>1. CASE ttl[k] = NoExpiry \/ k \in Expired
      BY <1>2, <3>1 DEF Tick
    <3>2. CASE ttl[k] # NoExpiry /\ k \notin Expired
      <4>1. ttl[k] # 1 /\ ttl[k] \in 1 .. Seconds
        BY <3>2 DEF Expired
      <4> QED  BY <1>2, <3>2, <4>1 DEF Tick
    <3> QED  BY <3>1, <3>2
  <2>2. fresh' \in [Cluster -> [Host -> 0 .. Seconds]]
    <3>1. ASSUME NEW k \in Cluster, NEW h \in Host
          PROVE  (IF fresh[k][h] = 0 THEN 0 ELSE fresh[k][h] - 1) \in 0 .. Seconds
      <4>1. fresh[k][h] \in 0 .. Seconds
        OBVIOUS
      <4> QED  BY <4>1, CountDown
    <3> QED  BY <1>2, <3>1 DEF Tick
  <2>3. hosts' \in [Cluster -> SUBSET Host] /\ raced' \subseteq Item
    BY <1>2 DEF Tick, Expired, Item
  <2> QED  BY <1>2, <2>1, <2>2, <2>3 DEF Tick
<1>3. CASE UNCHANGED vars
  BY <1>3 DEF vars
<1> QED  BY <1>1, <1>2, <1>3 DEF Next

\* Commands, failures and the clock preserve what the repository promises.
LEMMA RepoStep ==
  ASSUME RepoInv, [Next]_vars
  PROVE  TtlCoversWrites' /\ PendingWriteStored' /\ LostOnlyByExpiryRace'
<1> USE SecondsNat DEF RepoInv, TypeOK, TtlCoversWrites, PendingWriteStored,
                       LostOnlyByExpiryRace, Writes, NoExpiry
<1>1. ASSUME NEW w \in Worker, NEW k \in Cluster, NEW h \in Host, Step(w, k, h)
      PROVE  TtlCoversWrites' /\ PendingWriteStored' /\ LostOnlyByExpiryRace'
  <2>1. CASE WriteHostState(w, k, h)
    BY <2>1 DEF WriteHostState
  <2>2. CASE Hset(w, k, h)
    BY <2>2 DEF Hset, ApplyHset
  <2>3. CASE Expire(w, k, h)
    BY <2>3 DEF Expire, ApplyExpire
  <2>4. CASE Refused(w, k, h)
    BY <2>4 DEF Refused
  <2>5. CASE Fails(w, k, h)
    <3>1. /\ stage[w] # "idle" /\ target[w] = <<k, h>>
          /\ stage' = [stage EXCEPT ![w] = "idle"] /\ UNCHANGED <<target, fresh>>
      BY <2>5 DEF Fails, Leave
    <3>2. CASE ApplyHset(k, h)
      BY <3>1, <3>2 DEF ApplyHset
    <3>3. CASE ApplyExpire(k)
      BY <3>1, <3>3 DEF ApplyExpire
    <3>4. CASE UNCHANGED <<hosts, ttl, raced>>
      BY <3>1, <3>4
    <3> QED  BY <2>5, <3>2, <3>3, <3>4 DEF Fails
  <2> QED  BY <1>1, <2>1, <2>2, <2>3, <2>4, <2>5 DEF Step
<1>2. CASE Tick
  <2>1. ASSUME NEW k \in Cluster, NEW h \in Host
        PROVE  /\ ttl'[k] = IF k \in Expired \/ ttl[k] = NoExpiry
                            THEN NoExpiry ELSE ttl[k] - 1
               /\ fresh'[k][h] = IF fresh[k][h] = 0 THEN 0 ELSE fresh[k][h] - 1
               /\ hosts'[k] = IF k \in Expired THEN {} ELSE hosts[k]
    BY <1>2 DEF Tick
  <2>2. TtlCoversWrites'
    BY <2>1
  <2>3. raced \subseteq raced' /\ UNCHANGED <<stage, target>>
    BY <1>2 DEF Tick
  <2>4. ASSUME NEW w \in Worker, NEW k \in Cluster, NEW h \in Host, k \in Expired,
               Writes(w, k, h), stage[w] = "expire"
        PROVE  <<k, h>> \in raced'
    BY <1>2, <2>4 DEF Tick
  <2>5. PendingWriteStored'
    BY <2>1, <2>3, <2>4
  <2>6. ASSUME NEW k \in Cluster, NEW h \in Host, k \in Expired
        PROVE  fresh'[k][h] = 0
    <3>1. fresh[k][h] <= 1 /\ fresh[k][h] \in 0 .. Seconds
      BY <2>6 DEF Expired
    <3> QED  BY <2>1, <3>1, CountDown, ZenonT(30)
  <2>7. LostOnlyByExpiryRace'
    BY <2>1, <2>3, <2>6
  <2> QED  BY <2>2, <2>5, <2>7
<1>3. CASE UNCHANGED vars
  BY <1>3 DEF vars
<1> QED  BY <1>1, <1>2, <1>3 DEF Next

\* Every reachable state of the host store satisfies RepoInv.
THEOREM RepoInvariance == Spec => []RepoInv
<1>1. RepoInv /\ [Next]_vars => RepoInv'
  BY TypeStep, RepoStep DEF RepoInv
<1> QED  BY RepoInit, <1>1, PTL DEF Spec

\* WriteHostState and the clock of Valkey keep the types of their variables.
THEOREM TypeCorrect == Spec => []TypeOK
<1>1. RepoInv => TypeOK
  BY DEF RepoInv
<1> QED  BY <1>1, RepoInvariance, PTL

\* WriteHostState: a state written with success is only ever lost, before its
\* TTL has elapsed, when its key expired between its HSET and its EXPIRE.
THEOREM LossIsTheRace == Spec => []LostOnlyByExpiryRace
BY RepoInvariance, PTL DEF RepoInv

\* WriteHostState: refreshing the key never shortens another host's life.
THEOREM ExpirationCovers == Spec => []TtlCoversWrites
BY RepoInvariance, PTL DEF RepoInv

\* A step only leaves a key without expiration to a write that goes on, or that
\* failed.
LEMMA NoForgottenStep ==
  ASSUME TypeOK, NoForgottenKey, [Next]_vars
  PROVE  NoForgottenKey'
<1> USE SecondsNat DEF TypeOK, NoForgottenKey, Writes, NoExpiry, Stages, Item
<1>1. ASSUME NEW w \in Worker, NEW k \in Cluster, NEW h \in Host, Step(w, k, h)
      PROVE  NoForgottenKey'
  <2>1. CASE WriteHostState(w, k, h)
    BY <2>1 DEF WriteHostState
  <2>2. CASE Hset(w, k, h)
    BY <2>2 DEF Hset, ApplyHset
  <2>3. CASE Expire(w, k, h)
    <3>1. hosts'[k] = {} \/ ttl'[k] # NoExpiry
      BY <2>3 DEF Expire, ApplyExpire
    <3>2. ASSUME NEW j \in Cluster, j # k
          PROVE  /\ hosts'[j] = hosts[j] /\ ttl'[j] = ttl[j]
                 /\ j \in orphaned => j \in orphaned'
                 /\ \A v \in Worker, i \in Host : Writes(v, j, i) => Writes(v, j, i)'
      BY <2>3, <3>2 DEF Expire, ApplyExpire
    <3> SUFFICES ASSUME NEW j \in Cluster, hosts'[j] # {}, ttl'[j] = NoExpiry
                 PROVE  \/ j \in orphaned'
                        \/ \E v \in Worker, i \in Host : Writes(v, j, i)'
      OBVIOUS
    <3>3. CASE j = k
      BY <3>1, <3>3
    <3>4. CASE j # k
      <4>1. j \in orphaned \/ \E v \in Worker, i \in Host : Writes(v, j, i)
        BY <3>2, <3>4
      <4> QED  BY <3>2, <3>4, <4>1
    <3> QED  BY <3>3, <3>4
  <2>4. CASE Refused(w, k, h)
    BY <2>4 DEF Refused
  <2>5. CASE Fails(w, k, h)
    <3>1. hosts'[k] # {} /\ ttl'[k] = NoExpiry => k \in orphaned'
      BY <2>5 DEF Fails, Leave
    <3>2. ASSUME NEW j \in Cluster, j # k
          PROVE  /\ hosts'[j] = hosts[j] /\ ttl'[j] = ttl[j]
                 /\ j \in orphaned => j \in orphaned'
                 /\ \A v \in Worker, i \in Host : Writes(v, j, i) => Writes(v, j, i)'
      <4>1. hosts'[j] = hosts[j] /\ ttl'[j] = ttl[j]
        <5>1. CASE ApplyHset(k, h)
          BY <3>2, <5>1 DEF ApplyHset
        <5>2. CASE ApplyExpire(k)
          BY <3>2, <5>2 DEF ApplyExpire
        <5>3. CASE UNCHANGED <<hosts, ttl, raced>>
          BY <5>3
        <5> QED  BY <2>5, <5>1, <5>2, <5>3 DEF Fails
      <4>2. j \in orphaned => j \in orphaned'
        BY <2>5 DEF Fails, Leave
      <4>3. \A v \in Worker, i \in Host : Writes(v, j, i) => Writes(v, j, i)'
        BY <2>5, <3>2 DEF Fails, Leave
      <4> QED  BY <4>1, <4>2, <4>3
    <3> SUFFICES ASSUME NEW j \in Cluster, hosts'[j] # {}, ttl'[j] = NoExpiry
                 PROVE  \/ j \in orphaned'
                        \/ \E v \in Worker, i \in Host : Writes(v, j, i)'
      OBVIOUS
    <3>3. CASE j = k
      BY <3>1, <3>3
    <3>4. CASE j # k
      <4>1. j \in orphaned \/ \E v \in Worker, i \in Host : Writes(v, j, i)
        BY <3>2, <3>4
      <4> QED  BY <3>2, <3>4, <4>1
    <3> QED  BY <3>3, <3>4
  <2> QED  BY <1>1, <2>1, <2>2, <2>3, <2>4, <2>5 DEF Step
<1>2. CASE Tick
  <2>1. ASSUME NEW k \in Cluster, hosts'[k] # {}, ttl'[k] = NoExpiry
        PROVE  hosts[k] # {} /\ ttl[k] = NoExpiry
    <3>1. k \notin Expired
      BY <1>2, <2>1 DEF Tick
    <3>2. ttl[k] = NoExpiry \/ (ttl[k] # 1 /\ ttl[k] \in 1 .. Seconds)
      BY <3>1 DEF Expired
    <3> QED  BY <1>2, <2>1, <3>1, <3>2 DEF Tick
  <2>2. UNCHANGED <<stage, target, orphaned>>
    BY <1>2 DEF Tick
  <2> QED  BY <2>1, <2>2
<1>3. CASE UNCHANGED vars
  BY <1>3 DEF vars
<1> QED  BY <1>1, <1>2, <1>3 DEF Next

\* WriteHostState: a key without expiration is being written, or was left
\* behind by a write that failed.
THEOREM NoKeyForgotten == Spec => []NoForgottenKey
<1>1. TypeOK /\ NoForgottenKey /\ [Next]_vars => NoForgottenKey'
  BY NoForgottenStep
<1>2. Spec => []TypeOK
  BY RepoInvariance, PTL DEF RepoInv
<1> QED  BY RepoInit, <1>1, <1>2, PTL DEF Spec

\* HSET is a write of the store, whose promise may be renewed by the way.
LEMMA HsetWrites ==
  ASSUME TypeOK, NEW k \in Cluster, NEW h \in Host, ApplyHset(k, h),
         UNCHANGED fresh
  PROVE  Store!Next
<1>1. Kept' \in {Kept, Kept \cup {<<k, h>>}}
  BY DEF TypeOK, ApplyHset, Kept, Item
<1>2. Store!Write(k, h)
  BY <1>1 DEF ApplyHset, Store!Write, Kept
<1> QED  BY <1>2 DEF Store!Next

\* Without a second to live, EXPIRE forgets the cluster, to which nothing is
\* owed then; otherwise it leaves the hosts alone.
LEMMA ExpireForgets ==
  ASSUME TypeOK, NEW k \in Cluster, ApplyExpire(k), Seconds = 0,
         fresh' \in [Cluster -> [Host -> 0 .. Seconds]]
  PROVE  Store!Next
<1>1. hosts' = [j \in Cluster |-> IF j \in {k} THEN {} ELSE hosts[j]]
  BY DEF TypeOK, ApplyExpire
<1>2. Kept' = {}
  BY DEF Kept, Item
<1>3. Store!Forget({k})
  BY <1>1, <1>2 DEF Store!Forget, Kept
<1> QED  BY <1>3 DEF Store!Next

\* A second forgets the keys that expire, which TtlCoversWrites owes nothing.
LEMMA TickForgets ==
  ASSUME TypeOK, TtlCoversWrites, Tick
  PROVE  Store!Next
<1>1. ASSUME NEW i \in Kept'
      PROVE  i \in Kept /\ i[1] \notin Expired
  <2>1. PICK k \in Cluster, h \in Host : i = <<k, h>>
    BY <1>1 DEF Kept, Item
  <2>2. fresh'[k][h] > 0 /\ <<k, h>> \notin raced'
    BY <1>1, <2>1 DEF Kept
  <2>3. fresh'[k][h] = IF fresh[k][h] = 0 THEN 0 ELSE fresh[k][h] - 1
    BY DEF Tick
  <2>4. fresh[k][h] \in Nat /\ ttl[k] \in Int
    BY SecondsNat DEF TypeOK, NoExpiry
  <2>5. fresh[k][h] > 1
    BY <2>2, <2>3, <2>4
  <2>6. k \notin Expired
    BY <2>4, <2>5 DEF TtlCoversWrites, Expired, NoExpiry
  <2>7. <<k, h>> \notin raced
    BY <2>2 DEF Tick
  <2> QED  BY <2>1, <2>4, <2>5, <2>6, <2>7 DEF Kept, Item
<1>2. PICK gone \in SUBSET Cluster : gone = Expired
  BY DEF Expired
<1>3. Store!Forget(gone)
  BY <1>1, <1>2 DEF Tick, Store!Forget, Kept
<1> QED  BY <1>3 DEF Store!Next

\* Every step of the repository is a step of the store, or none.
LEMMA StoreStep ==
  ASSUME RepoInv, TypeOK', [Next]_vars
  PROVE  [Store!Next]_(Store!vars)
<1> USE DEF RepoInv
<1> SUFFICES Store!Next \/ (hosts' = hosts /\ Kept' = Kept)
  BY DEF Store!vars, Kept
<1>1. ASSUME NEW w \in Worker, NEW k \in Cluster, NEW h \in Host, Step(w, k, h)
      PROVE  Store!Next \/ (hosts' = hosts /\ Kept' = Kept)
  <2>1. CASE WriteHostState(w, k, h)
    BY <2>1 DEF WriteHostState, Kept
  <2>2. CASE Hset(w, k, h)
    BY <2>2, HsetWrites DEF Hset
  <2>3. CASE Expire(w, k, h)
    <3>1. CASE Seconds = 0
      BY <2>3, <3>1, ExpireForgets DEF Expire, TypeOK
    <3>2. CASE Seconds # 0
      <4>1. hosts' = hosts /\ raced' = raced
        BY <2>3, <3>2 DEF Expire, ApplyExpire
      <4>2. fresh' = [fresh EXCEPT ![k][h] = Seconds] /\ Seconds > 0
        BY <2>3, <3>2, SecondsNat DEF Expire
      <4>3. \A i \in Item : fresh'[i[1]][i[2]] = IF i = <<k, h>> THEN Seconds
                                                 ELSE fresh[i[1]][i[2]]
        <5>1. TypeOK
          OBVIOUS
        <5>2. ASSUME NEW j \in Cluster, NEW l \in Host
              PROVE  fresh'[j][l] = IF <<j, l>> = <<k, h>> THEN Seconds
                                    ELSE fresh[j][l]
          <6>1. fresh \in [Cluster -> [Host -> 0 .. Seconds]]
            BY <5>1 DEF TypeOK
          <6>2. CASE j = k /\ l = h
            BY <4>2, <6>1, <6>2
          <6>3. CASE ~(j = k /\ l = h)
            BY <4>2, <6>1, <6>3
          <6> QED  BY <6>2, <6>3
        <5> QED  BY <5>2 DEF Item
      <4>4. CASE <<k, h>> \in raced
        <5>1. Kept' = Kept
          BY <4>1, <4>3, <4>4 DEF Kept
        <5> QED  BY <4>1, <5>1
      <4>5. CASE <<k, h>> \notin raced
        <5>1. h \in hosts[k]
          BY <2>3, <4>2, <4>5 DEF Expire, PendingWriteStored
        <5>2. Kept' = Kept \cup {<<k, h>>}
          BY <4>1, <4>2, <4>3, <4>5 DEF Kept, Item
        <5>3. Store!Promise(k, h)
          BY <4>1, <5>1, <5>2 DEF Store!Promise, Kept
        <5> QED  BY <5>3 DEF Store!Next
      <4> QED  BY <4>4, <4>5
    <3> QED  BY <3>1, <3>2
  <2>4. CASE Refused(w, k, h)
    BY <2>4 DEF Refused, Kept
  <2>5. CASE Fails(w, k, h)
    <3>1. CASE ApplyHset(k, h)
      BY <2>5, <3>1, HsetWrites DEF Fails
    <3>2. CASE ApplyExpire(k)
      <4>1. CASE Seconds = 0
        BY <2>5, <3>2, <4>1, ExpireForgets DEF TypeOK
      <4>2. CASE Seconds # 0
        BY <2>5, <3>2, <4>2 DEF Fails, ApplyExpire, Kept
      <4> QED  BY <4>1, <4>2
    <3>3. CASE UNCHANGED <<hosts, ttl, raced>>
      BY <2>5, <3>3 DEF Fails, Kept
    <3> QED  BY <2>5, <3>1, <3>2, <3>3 DEF Fails
  <2> QED  BY <1>1, <2>1, <2>2, <2>3, <2>4, <2>5 DEF Step
<1>2. CASE Tick
  BY <1>2, TickForgets
<1>3. CASE UNCHANGED vars
  BY <1>3 DEF vars, Kept
<1> QED  BY <1>1, <1>2, <1>3 DEF Next

\* An empty store owes nothing.
LEMMA StoreInit == Init => Store!Init
BY DEF Init, Store!Init, Kept, Item

\* WriteHostState and the expiration of keys implement HostStore.tla: hosts only
\* go all together, and never while one of them is owed.
THEOREM ImplementsStore == Spec => StoreSpec
<1>1. Spec => [](RepoInv /\ TypeOK)
  BY RepoInvariance, PTL DEF RepoInv
<1> QED
  BY <1>1, StoreInit, StoreStep, PTL DEF Spec, StoreSpec, Store!Spec
================================================================================
