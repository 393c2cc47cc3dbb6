---------------------------- MODULE PoolRelogin -----------------------------
(***************************************************************************)
(* The pool together with what it cannot see: whether upstream still       *)
(* accepts the login session of an account.  A session dies upstream; the  *)
(* user logs in again through the console (login.go and the import handler *)
(* save the auth file and call Pool.Add) or puts a new auth file in place  *)
(* and restarts.                                                           *)
(***************************************************************************)
EXTENDS Pool

VARIABLE dead  \* the accounts whose stored login session upstream rejects

varsR == <<vars, dead>>

InitR == Init /\ dead = {}

SessionDies(u) ==
  /\ u \in present \ dead
  /\ dead' = dead \cup {u}
  /\ UNCHANGED vars

\* A token refresh finds the session dead.
DisableDead(u) == u \in dead /\ Disable(u) /\ UNCHANGED dead

\* Add keeps the state of an account that is already there.
Relogin(u) ==
  /\ dead' = dead \ {u}
  /\ Add(u) \/ (u \in present /\ UNCHANGED vars)

\* The restart may find new auth files for some accounts.
RestartWithFiles(files, replaced) ==
  /\ Restart(files)
  /\ dead' = dead \ replaced

NextR ==
  \/ \E u \in Uids : SessionDies(u) \/ DisableDead(u) \/ Relogin(u)
  \/ \E u \in Uids : Remove(u) /\ UNCHANGED dead
  \/ \E files \in SUBSET Uids : \E replaced \in SUBSET files :
       RestartWithFiles(files, replaced)

SpecR == InitR /\ [][NextR]_varsR

\* "Disabled = the session is dead, disabled for good (needs a re-login or a
\* new file to recover)" (pool.go:70): an account whose session upstream
\* accepts again is not left disabled.
DisabledOnlyWhileDead == \A u \in present : entry[u].disabled => u \in dead
=============================================================================
