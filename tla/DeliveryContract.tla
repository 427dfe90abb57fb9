--------------------------- MODULE DeliveryContract ---------------------------
(***************************************************************************)
(* What the consumer promises the owner of the topic, without saying how:  *)
(* every message of a partition is dealt with (projected, sent to the dead *)
(* letter queue, or dumped in the log), first-time handling follows the    *)
(* order of the partition, and the offset stored in the broker only ever   *)
(* moves forward, over messages that have been dealt with.                 *)
(*                                                                         *)
(* JSONHandler.tla is shown to implement this module.                      *)
(***************************************************************************)
EXTENDS Naturals

CONSTANTS Partition,  \* the partitions of the consumed topics
          LogEnd      \* LogEnd[p]: the number of messages in partition p

VARIABLES handled,    \* the messages <<p, o>> that have been dealt with
          committed   \* committed[p]: the offset stored for the group

vars == <<handled, committed>>

PrefixHandled(p, n) == \A o \in 0 .. n - 1 : <<p, o>> \in handled

Init ==
    /\ handled = {}
    /\ committed = [p \in Partition |-> 0]

\* A message is dealt with once all earlier messages of its partition are.
Handle(p, o) ==
    /\ PrefixHandled(p, o)
    /\ handled' = handled \cup {<<p, o>>}
    /\ UNCHANGED committed

\* The group's offsets move forward, never past an unhandled message.
Commit ==
    /\ \A p \in Partition :
          /\ committed[p] <= committed'[p]
          /\ committed'[p] <= LogEnd[p]
          /\ PrefixHandled(p, committed'[p])
    /\ UNCHANGED handled

Next ==
    \/ \E p \in Partition : \E o \in 0 .. LogEnd[p] - 1 : Handle(p, o)
    \/ Commit

Spec == Init /\ [][Next]_vars
===============================================================================
