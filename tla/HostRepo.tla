------------------------------- MODULE HostRepo -------------------------------
(***************************************************************************)
(* ValkeyRepo (internal/domain/repo/host/valkey.go): the host states of a  *)
(* cluster are the fields of one Valkey hash, whose key expires as a       *)
(* whole.  WriteHostState sends two commands, HSET then EXPIRE, that are   *)
(* not atomic together: other writers, the clock and failures come in      *)
(* between.  The workers are the ConsumeClaim goroutines of all pods; the  *)
(* retry decorator runs WriteHostState again from the start after a        *)
(* retryable error.                                                        *)
(*                                                                         *)
(* Time advances in seconds, the unit of EXPIRE.  The content of a host    *)
(* state is abstracted away: a host is stored or it is not.                *)
(***************************************************************************)
EXTENDS Integers

CONSTANTS Worker,           \* goroutines that process HostState events
          Cluster, Host,
          Expiration,       \* valkey.ttl, in units of UnitsPerSecond
          UnitsPerSecond    \* resolution of the configured duration

ASSUME RepoAssumption ==
    /\ Expiration \in Nat
    /\ UnitsPerSecond \in Nat \ {0}

VARIABLES hosts,            \* hosts[k]: the fields of key k; {}: no such key
          ttl,              \* ttl[k]: seconds left before key k expires
          stage,            \* stage[w]: where WriteHostState is
          target,           \* target[w]: the <<cluster, host>> being written
          fresh,            \* fresh[k][h]: seconds left of the TTL of the last
                            \* write of h that returned nil
          orphaned,         \* keys a write left without expiration
          raced             \* <<k, h>> lost between its HSET and its EXPIRE

vars == <<hosts, ttl, stage, target, fresh, orphaned, raced>>

Stages == {"idle", "hset", "expire"}

\* int64(r.expiration.Seconds()): fractions of a second are dropped.
Seconds == Expiration \div UnitsPerSecond

\* A key that exists and has no TTL.
NoExpiry == -1

Item == Cluster \X Host

Writes(w, k, h) == stage[w] # "idle" /\ target[w] = <<k, h>>

Init ==
    /\ hosts = [k \in Cluster |-> {}]
    /\ ttl = [k \in Cluster |-> NoExpiry]
    /\ stage = [w \in Worker |-> "idle"]
    /\ target \in [Worker -> Item]
    /\ fresh = [k \in Cluster |-> [h \in Host |-> 0]]
    /\ orphaned = {}
    /\ raced = {}

\* What HSET does in Valkey: a new key has no TTL, an existing one keeps its.
ApplyHset(k, h) ==
    /\ hosts' = [hosts EXCEPT ![k] = @ \cup {h}]
    /\ raced' = raced \ {<<k, h>>}
    /\ UNCHANGED ttl

\* What EXPIRE does in Valkey: nothing without a key; with zero seconds the
\* key is deleted.
ApplyExpire(k) ==
    /\ hosts' = IF Seconds = 0 THEN [hosts EXCEPT ![k] = {}] ELSE hosts
    /\ ttl' = IF hosts[k] = {} \/ Seconds = 0 THEN [ttl EXCEPT ![k] = NoExpiry]
                                             ELSE [ttl EXCEPT ![k] = Seconds]
    /\ UNCHANGED raced

\* The write ends without its EXPIRE: the key may stay without expiration.
Leave(w, k) ==
    /\ stage' = [stage EXCEPT ![w] = "idle"]
    /\ orphaned' = IF hosts'[k] # {} /\ ttl'[k] = NoExpiry
                   THEN orphaned \cup {k} ELSE orphaned

\* Mutant: EXPIRE is sent without a HSET before it.
ExpireFirst(w, k, h) ==
    /\ stage[w] = "idle"
    /\ stage' = [stage EXCEPT ![w] = "expire"]
    /\ target' = [target EXCEPT ![w] = <<k, h>>]
    /\ UNCHANGED <<hosts, ttl, fresh, orphaned, raced>>

WriteHostState(w, k, h) ==
    /\ stage[w] = "idle"
    /\ stage' = [stage EXCEPT ![w] = "hset"]
    /\ target' = [target EXCEPT ![w] = <<k, h>>]
    /\ UNCHANGED <<hosts, ttl, fresh, orphaned, raced>>

Hset(w, k, h) ==
    /\ Writes(w, k, h) /\ stage[w] = "hset"
    /\ ApplyHset(k, h)
    /\ stage' = [stage EXCEPT ![w] = "expire"]
    /\ UNCHANGED <<target, fresh, orphaned>>

\* Mutant: EXPIRE NX, which keeps the expiration a key already has.
ExpireIfNone(w, k, h) ==
    /\ Writes(w, k, h) /\ stage[w] = "expire"
    /\ ttl' = IF hosts[k] # {} /\ ttl[k] = NoExpiry
              THEN [ttl EXCEPT ![k] = Seconds] ELSE ttl
    /\ stage' = [stage EXCEPT ![w] = "idle"]
    /\ fresh' = [fresh EXCEPT ![k][h] = Seconds]
    /\ orphaned' = orphaned \ {k}
    /\ UNCHANGED <<hosts, raced, target>>

\* Mutant: the configured duration is not converted to seconds.
ExpireUnits(w, k, h) ==
    /\ Writes(w, k, h) /\ stage[w] = "expire"
    /\ ttl' = IF hosts[k] = {} THEN ttl ELSE [ttl EXCEPT ![k] = Expiration]
    /\ stage' = [stage EXCEPT ![w] = "idle"]
    /\ fresh' = [fresh EXCEPT ![k][h] = Seconds]
    /\ orphaned' = orphaned \ {k}
    /\ UNCHANGED <<hosts, raced, target>>

\* EXPIRE is answered, with 1 or with 0: WriteHostState returns nil.
Expire(w, k, h) ==
    /\ Writes(w, k, h) /\ stage[w] = "expire"
    /\ ApplyExpire(k)
    /\ stage' = [stage EXCEPT ![w] = "idle"]
    /\ fresh' = [fresh EXCEPT ![k][h] = Seconds]
    /\ orphaned' = orphaned \ {k}
    /\ UNCHANGED target

\* Mutant: a refused command is not attempted again.
RefusedIgnored(w, k, h) ==
    /\ Writes(w, k, h)
    /\ stage' = [stage EXCEPT ![w] = "idle"]
    /\ UNCHANGED <<hosts, ttl, target, fresh, orphaned, raced>>

\* Mutant: the attempt after a refused command goes on with the next one.
RefusedSkipped(w, k, h) ==
    /\ Writes(w, k, h)
    /\ stage' = [stage EXCEPT ![w] = "expire"]
    /\ UNCHANGED <<hosts, ttl, target, fresh, orphaned, raced>>

\* isRetryable: the connection was refused or the server said TRYAGAIN; the
\* command was not executed, and the whole processing is attempted again.
Refused(w, k, h) ==
    /\ Writes(w, k, h)
    /\ stage' = [stage EXCEPT ![w] = "hset"]
    /\ UNCHANGED <<hosts, ttl, target, fresh, orphaned, raced>>

\* Any other error (reset, timeout, cancelled context), or the end of the
\* process: the command in flight was executed or not.
Fails(w, k, h) ==
    /\ Writes(w, k, h)
    /\ \/ stage[w] = "hset" /\ ApplyHset(k, h)
       \/ stage[w] = "expire" /\ ApplyExpire(k)
       \/ UNCHANGED <<hosts, ttl, raced>>
    /\ Leave(w, k)
    /\ UNCHANGED <<target, fresh>>

\* A second passes: keys expire, with all their fields.
Expired == {k \in Cluster : ttl[k] = 1}

Tick ==
    /\ hosts' = [k \in Cluster |-> IF k \in Expired THEN {} ELSE hosts[k]]
    /\ ttl' = [k \in Cluster |-> IF k \in Expired \/ ttl[k] = NoExpiry
                                 THEN NoExpiry ELSE ttl[k] - 1]
    /\ raced' = raced \cup
          {i \in Expired \X Host :
              \E w \in Worker : stage[w] = "expire" /\ target[w] = i}
    /\ fresh' = [k \in Cluster |->
                   [h \in Host |-> IF fresh[k][h] = 0 THEN 0 ELSE fresh[k][h] - 1]]
    /\ UNCHANGED <<stage, target, orphaned>>

Step(w, k, h) ==
    \/ WriteHostState(w, k, h)
    \/ Hset(w, k, h)
    \/ Expire(w, k, h)
    \/ Refused(w, k, h)
    \/ Fails(w, k, h)

Next ==
    \/ \E w \in Worker, k \in Cluster, h \in Host : Step(w, k, h)
    \/ Tick

Spec == Init /\ [][Next]_vars

-------------------------------------------------------------------------------
(* Properties.                                                             *)

\* Every variable keeps its type.
TypeOK ==
    /\ hosts \in [Cluster -> SUBSET Host]
    /\ ttl \in [Cluster -> {NoExpiry} \cup 1 .. Seconds]
    /\ stage \in [Worker -> Stages]
    /\ target \in [Worker -> Item]
    /\ fresh \in [Cluster -> [Host -> 0 .. Seconds]]
    /\ orphaned \subseteq Cluster
    /\ raced \subseteq Item

\* A host state whose write returned nil stays readable for the whole TTL,
\* however many other hosts of the cluster are written or fail meanwhile,
\* unless its key expired between its own HSET and EXPIRE.
LostOnlyByExpiryRace ==
    \A k \in Cluster, h \in Host :
        (fresh[k][h] > 0 /\ <<k, h>> \notin raced) => h \in hosts[k]

\* A key with an expiration lives at least as long as any promise made for
\* one of its hosts: a write never shortens the life of the other fields.
TtlCoversWrites ==
    \A k \in Cluster, h \in Host : ttl[k] # NoExpiry => fresh[k][h] <= ttl[k]

\* A key without expiration is one whose write is still under way, or one
\* that a failed write left behind; a later write of the cluster repairs it.
NoForgottenKey ==
    \A k \in Cluster :
        (hosts[k] # {} /\ ttl[k] = NoExpiry) =>
            \/ k \in orphaned
            \/ \E w \in Worker, h \in Host : Writes(w, k, h)

\* What makes LostOnlyByExpiryRace inductive: a write between its two commands
\* has its host stored, unless the key expired under it.
PendingWriteStored ==
    \A w \in Worker, k \in Cluster, h \in Host :
        (Seconds > 0 /\ Writes(w, k, h) /\ stage[w] = "expire") =>
            h \in hosts[k] \/ <<k, h>> \in raced

RepoInv ==
    TypeOK /\ TtlCoversWrites /\ PendingWriteStored /\ LostOnlyByExpiryRace

\* The repository implements the host store, in which the hosts of a cluster
\* only go all together: it owes the hosts whose write returned nil within the
\* TTL, those lost to the race excepted.
Kept == {i \in Item : fresh[i[1]][i[2]] > 0 /\ i \notin raced}

Store == INSTANCE HostStore WITH stored <- hosts, kept <- Kept
StoreSpec == Store!Spec

\* valkey_test.go, TestInsertAndRead: after WriteHostState returned nil,
\* GetHostStates returns the host (here, until the TTL has elapsed).
InsertAndRead ==
    \A k \in Cluster, h \in Host : fresh[k][h] > 0 => h \in hosts[k]
===============================================================================
