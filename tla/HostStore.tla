------------------------------- MODULE HostStore -------------------------------
(***************************************************************************)
(* What the store of the hosts promises to those who join the hosts of a   *)
(* cluster to its state, without saying how: hosts come one at a time, and *)
(* go with all the others of their cluster, never alone.  The store owes   *)
(* the hosts it promised to keep: it holds each of them until the promise  *)
(* is over or the cluster is gone.                                         *)
(*                                                                         *)
(* HostRepo.tla, with the two commands of a write and the clock, and       *)
(* MainProcessing.tla, with the messages that cause the writes, are shown  *)
(* to implement this module.                                               *)
(***************************************************************************)
CONSTANTS Cluster, Host

VARIABLES stored,     \* stored[k]: the hosts of cluster k
          kept        \* the hosts <<k, h>> that the store owes

vars == <<stored, kept>>

Init ==
    /\ stored = [k \in Cluster |-> {}]
    /\ kept = {}

\* A host is written; the promise may come at once, later or never.
Write(k, h) ==
    /\ stored' = [stored EXCEPT ![k] = @ \cup {h}]
    /\ kept' \in {kept, kept \cup {<<k, h>>}}

Promise(k, h) ==
    /\ h \in stored[k]
    /\ kept' = kept \cup {<<k, h>>}
    /\ UNCHANGED stored

\* Promises end, and whole clusters go.
Forget(gone) ==
    /\ stored' = [k \in Cluster |-> IF k \in gone THEN {} ELSE stored[k]]
    /\ kept' \subseteq {i \in kept : i[1] \notin gone}

Next ==
    \/ \E k \in Cluster, h \in Host : Write(k, h) \/ Promise(k, h)
    \/ \E gone \in SUBSET Cluster : Forget(gone)

Spec == Init /\ [][Next]_vars
===============================================================================
