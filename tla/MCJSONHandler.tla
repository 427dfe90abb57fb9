---------------------------- MODULE MCJSONHandler ----------------------------
(* Constants that give JSONHandler.tla its instances for TLC. *)
EXTENDS JSONHandler, TLC

CONSTANTS c1, c2, p1, p2

TwoPods == {c1, c2}
PodSymmetry == Permutations({c1, c2})

TwoMessages == [p \in Partition |-> 2]
OneMessage == [p \in Partition |-> 1]

\* One message of p1 is not JSON.
FirstMalformed == {<<p1, 0>>}
SecondMalformed == {<<p1, 1>>}
===============================================================================
