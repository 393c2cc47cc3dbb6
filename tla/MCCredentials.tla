---------------------------- MODULE MCCredentials ----------------------------
(* Instance of Credentials: see credentials.cfg. *)
EXTENDS Credentials, FiniteSets, TLC

CONSTANTS link, json

TwoSources == [l \in Logins |-> IF l = link THEN "link" ELSE "json"]

\* What is in an Auth nobody refers to is never read (Receive and Restart
\* overwrite it), and neither is the age of a login nobody holds.
Known == {Login(a) : a \in {b \in Auths : ~Fresh(b)}}
           \cup (IF file = NoFile THEN {} ELSE {file.login})

View == <<[a \in Auths |-> IF Fresh(a) THEN NoAuth ELSE auth[a]],
          lock, pool, disabled, files, live, due \cap Known, locals, pending,
          given, hurt, stored \cap {link}, overwritten \cap {link}, overlap>>

\* Bound: one login at a time gets hurt, and the second is refreshed once.
OneHurt == Cardinality(hurt') <= 1 /\ live'[json] <= 1

Interchangeable == Permutations(Auths) \cup Permutations(Workers)
=============================================================================
