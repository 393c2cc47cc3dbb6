------------------------------ MODULE MCUsage ------------------------------
(* Instances of UsageArchive: see usage.cfg and usage_loss.cfg. *)
EXTENDS UsagePanel

CONSTANTS jan, feb

\* Two days in one month, the others in the next.
TwoMonths == [d \in Days |-> IF d <= 2 THEN jan ELSE feb]
=============================================================================
