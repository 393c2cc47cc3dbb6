------------------------------- MODULE UsageLog -------------------------------
(***************************************************************************)
(* What the usage log promises, whatever files and summaries it keeps: for *)
(* every day the number of its requests, to which only a request of that   *)
(* day adds.                                                               *)
(***************************************************************************)
EXTENDS Integers

CONSTANT Days

VARIABLES today, counted

InitA == today = 1 /\ counted = [d \in Days |-> 0]

Add == counted' = [counted EXCEPT ![today] = @ + 1] /\ UNCHANGED today

Midnight == today + 1 \in Days /\ today' = today + 1 /\ UNCHANGED counted

SpecA == InitA /\ [][Add \/ Midnight]_<<today, counted>>
=============================================================================
