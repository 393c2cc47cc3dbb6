------------------------------- MODULE MCLedger -------------------------------
(* Instance of Ledger: see ledger.cfg. *)
EXTENDS Ledger

\* Two packs, of two credits and of one.
TwoOne == [p \in Packs |-> IF p = 1 THEN 2 ELSE 1]
=============================================================================
