------------------------------ MODULE MCCatalog ------------------------------
(* ModelCatalog for TLC: see catalog.cfg.                                    *)
EXTENDS ModelCatalog, TLC

CONSTANTS m1, m2, m3, m4, c1, c2, g1

Info(window, max) == [window |-> window, max |-> max, hidden |-> FALSE]

\* The second account answers with one of two tables: one that has the models of
\* the first's with other windows and tiers, and one that has nothing in common
\* with it.
SomeTables ==
  [a \in Accounts |->
     IF a = 1
       THEN {(m1 :> Info(0, TRUE)) @@ (m2 :> Info(2, FALSE)) @@ (m3 :> Info(1, FALSE))}
       ELSE {(m1 :> Info(1, FALSE)) @@ (m3 :> Info(0, FALSE))
               @@ (m2 :> [window |-> 1, max |-> FALSE, hidden |-> TRUE]),
             m4 :> Info(1, TRUE)}]

Ask(named, base, norm, asTier, tools) ==
  [named |-> named, base |-> base, norm |-> norm, tier |-> asTier, work |-> FALSE,
   tools |-> tools]

SomeAsks == {Ask(TRUE, m4, m1, "max", FALSE), Ask(FALSE, m1, m1, "bare", TRUE)}

\* One model is the Work channel's name of another.
SomePlain == [m \in Models |-> IF m = m4 THEN m1 ELSE m]

\* Clients behave alike.
Interchangeable == Permutations(Clients)
=============================================================================
