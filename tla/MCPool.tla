------------------------------- MODULE MCPool -------------------------------
(* The pool on a small instance: see pool.cfg. *)
EXTENDS Pool, TLC

\* Requests are interchangeable.
Symmetry == Permutations(Clients)

\* Bound: a failed save is followed at once by a save that succeeds or by a
\* restart.  RotationProofs shows the same invariants for any number of failures.
OneFailedSave == ~saved => saved'

\* The capability tables and the pick stamp are read by no action of Pool but
\* their own setters, and are not in state.json: two states that differ only
\* there have the same future on everything else.
Quotient ==
  <<present, disk, saved, held, now,
    [u \in Uids |-> [entry[u] EXCEPT !.models = {}, !.maxProbed = FALSE,
       !.maxModels = {}, !.modelBlocks = {}, !.maxBlocks = {}, !.lastUsed = 0]]>>
=============================================================================
