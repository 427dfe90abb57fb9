------------------------------ MODULE MCLateData ------------------------------
(* The instances of LateData.tla checked by TLC: a day is midnight, the      *)
(* morning, 2PM and the evening.                                             *)
EXTENDS LateData
===============================================================================
