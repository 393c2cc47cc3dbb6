-------------------------- MODULE CredentialProofs --------------------------
(***************************************************************************)
(* For any number of goroutines, Auths and logins: no order of refreshes,  *)
(* imports, logins, deletes, failures and restarts kills an account by     *)
(* itself, leaves a file that cannot be refreshed from, brings a deleted   *)
(* account back, or reports a login that no save of its own brought to the *)
(* file or lost to another one.                                            *)
(*                                                                         *)
(* The argument: of a login that was not hurt, at most one Auth is in use, *)
(* and it has the token that upstream accepts.  An exchange therefore      *)
(* advances both, and nobody else holds the token it spends.               *)
(***************************************************************************)
EXTENDS Credentials, TLAPS

\* A worker that has just received a link owns an Auth whose token is not yet
\* exchanged; every other Auth at work, and the one in the pool, is in use.
Loose(w) == pc[w] = "exchange" /\ job[w] \in {"import", "callback"}

Holds(w) ==
  /\ pc[w] \in {"look", "check", "lock", "exchange", "save", "rename", "add"}
  /\ ~Loose(w)

InUse(a) == a = pool \/ \E w \in Workers : at[w] = a /\ Holds(w)

Sound(l) == l \notin hurt /\ Source[l] # "jwt"

\* Where a worker is, it has an Auth, and the lock of it while it calls or renames.
AtOK ==
  \A w \in Workers :
    /\ pc[w] \in {"idle", "listed", "unlink"} <=> at[w] = NoAuth
    /\ pc[w] \in {"exchange", "rename"} => lock[at[w]] = w

\* Each kind of call has its own points.
JobsOK ==
  \A w \in Workers :
    /\ job[w] = "nickname" => pc[w] \in {"idle", "save", "rename"}
    /\ job[w] = "delete" => pc[w] \in {"idle", "unlink"}
    /\ pc[w] = "unlink" => job[w] = "delete"
    /\ pc[w] \in {"listed", "look", "check", "lock", "disable"}
         => job[w] \in {"request", "schedule", "refresh"}

LooseOK ==
  \A w \in Workers : Loose(w) =>
    /\ auth[at[w]].token = 0 /\ Source[Login(at[w])] = "link"
    /\ at[w] # pool /\ \A v \in Workers \ {w} : at[v] # at[w]

\* A credential that got through came by an exchange or by an import.
Issued(c) ==
  /\ Source[c.login] = "link" => live[c.login] >= 1
  /\ Source[c.login] = "json" => c.login \in given

\* An Auth in use has the token that upstream accepts, and no other Auth has it.
Accepted ==
  \A a \in Auths : InUse(a) =>
    Issued(auth[a]) /\ (Sound(Login(a)) => auth[a].token = live[Login(a)])

Unique ==
  \A a, b \in Auths :
    InUse(a) /\ InUse(b) /\ Login(a) = Login(b) /\ Sound(Login(a)) => a = b

\* Nobody exchanged the token of a document that was not imported.
Ungiven ==
  \A l \in Logins : Source[l] = "json" /\ l \notin given /\ Sound(l) => live[l] = 0

FileOK == file # NoFile => Issued(file) /\ Backed(file)

\* The temporary file is that of a worker about to rename it.
TmpOK ==
  tmp # NoFile =>
    /\ Issued(tmp)
    /\ Sound(tmp.login) => \E w \in Workers : pc[w] = "rename" /\ auth[at[w]] = tmp

Tokens == Accepted /\ Unique /\ Ungiven /\ FileOK /\ TmpOK

\* Who is about to disable the account was refused the token of a hurt login.
DisabledOK == \A w \in Workers : pc[w] = "disable" => Login(at[w]) \in hurt

\* While there is no entry only imports and logins are at work, and a file that
\* is there will be removed or get its entry.
DeleteOK ==
  pool = NoAuth /\ ~overlap =>
    /\ \A w \in Workers : pc[w] # "idle" => job[w] \in {"import", "callback", "delete"}
    /\ file # NoFile => \E w \in Workers : pc[w] \in {"unlink", "add"}

\* The temporary file a worker is about to rename is its own, if it is there and
\* was not written over; a credential that is added has been renamed.
PageOK ==
  /\ ReportedSuccessIsStored
  /\ \A w \in Workers :
       /\ pc[w] = "rename" /\ tmp # NoFile =>
            tmp.login = Login(at[w]) \/ Login(at[w]) \in overwritten
       /\ pc[w] \in {"add", "succeed"} => Login(at[w]) \in stored \cup overwritten

Control == TypeOKK /\ AtOK /\ JobsOK /\ LooseOK

CredInv == Control /\ Tokens /\ DisabledOK /\ DeleteOK /\ PageOK

-----------------------------------------------------------------------------
(* Types. *)

LocalTypes ==
  /\ pc \in [Workers -> Points] /\ job \in [Workers -> Jobs]
  /\ at \in [Workers -> Auths \cup {NoAuth}]

LEMMA MoveTypes ==
  ASSUME LocalTypes, NEW w \in Workers,
         \/ Done(w) \/ \E point \in Points : Goto(w, point)
         \/ \E kind \in Jobs, point \in Points, a \in Auths \cup {NoAuth} :
              Begin(w, kind, point, a)
  PROVE  LocalTypes'
<1>1. CASE Done(w)
  BY <1>1 DEF LocalTypes, Done, Points, Jobs
<1>2. ASSUME NEW point \in Points, Goto(w, point) PROVE LocalTypes'
  BY <1>2 DEF LocalTypes, Goto
<1>3. ASSUME NEW kind \in Jobs, NEW point \in Points, NEW a \in Auths \cup {NoAuth},
             Begin(w, kind, point, a)
      PROVE  LocalTypes'
  BY <1>3 DEF LocalTypes, Begin
<1> QED BY <1>1, <1>2, <1>3

LEMMA LocalTypesStep ==
  ASSUME TypeOKK, [NextK]_cvars PROVE LocalTypes'
<1>0. LocalTypes /\ pool \in Auths \cup {NoAuth}
  BY DEF TypeOKK, LocalTypes
<1>1. ASSUME NEW w \in Workers, Request(w) PROVE LocalTypes'
  BY <1>1, <1>0, MoveTypes DEF Points, Jobs, Request
<1>2. ASSUME NEW w \in Workers, Schedule(w) PROVE LocalTypes'
  BY <1>2, <1>0, MoveTypes DEF Points, Jobs, Schedule
<1>3. ASSUME NEW w \in Workers, RefreshByHand(w) PROVE LocalTypes'
  BY <1>3, <1>0, MoveTypes DEF Points, Jobs, RefreshByHand
<1>4. ASSUME NEW w \in Workers, Rename(w) PROVE LocalTypes'
  BY <1>4, <1>0, MoveTypes DEF Points, Jobs, Rename
<1>5. ASSUME NEW w \in Workers, Delete(w) PROVE LocalTypes'
  BY <1>5, <1>0, MoveTypes DEF Points, Jobs, Delete
<1>6. ASSUME NEW w \in Workers, Unlink(w) PROVE LocalTypes'
  BY <1>6, <1>0, MoveTypes DEF Points, Jobs, Unlink
<1>7. ASSUME NEW w \in Workers, Fetch(w) PROVE LocalTypes'
  BY <1>7, <1>0, MoveTypes DEF Points, Fetch, LocalTypes
<1>8. ASSUME NEW w \in Workers, Look(w) PROVE LocalTypes'
  BY <1>8, <1>0, MoveTypes DEF Points, Jobs, Look
<1>9. ASSUME NEW w \in Workers, Check(w) PROVE LocalTypes'
  BY <1>9, <1>0, MoveTypes DEF Points, Jobs, Check
<1>10. ASSUME NEW w \in Workers, Lock(w) PROVE LocalTypes'
  BY <1>10, <1>0, MoveTypes DEF Points, Jobs, Lock
<1>11. ASSUME NEW w \in Workers, Exchanged(w) PROVE LocalTypes'
  BY <1>11, <1>0, MoveTypes DEF Points, Jobs, Exchanged, Renewed, Accepts
<1>12. ASSUME NEW w \in Workers, Rejected(w) PROVE LocalTypes'
  BY <1>12, <1>0, MoveTypes DEF Points, Jobs, Rejected, Refused
<1>13. ASSUME NEW w \in Workers, Unreached(w) PROVE LocalTypes'
  BY <1>13, <1>0, MoveTypes DEF Points, Jobs, Unreached, Refused
<1>14. ASSUME NEW w \in Workers, AnswerLost(w) PROVE LocalTypes'
  BY <1>14, <1>0, MoveTypes DEF Points, Jobs, AnswerLost, Refused, Accepts
<1>15. ASSUME NEW w \in Workers, Disable(w) PROVE LocalTypes'
  BY <1>15, <1>0, MoveTypes DEF Points, Jobs, Disable
<1>16. ASSUME NEW w \in Workers, Write(w) PROVE LocalTypes'
  BY <1>16, <1>0, MoveTypes DEF Points, Jobs, Write
<1>17. ASSUME NEW w \in Workers, WriteFails(w) PROVE LocalTypes'
  BY <1>17, <1>0, MoveTypes DEF Points, Jobs, WriteFails, SaveFails, AfterSave
<1>18. ASSUME NEW w \in Workers, RenameTmp(w) PROVE LocalTypes'
  BY <1>18, <1>0, MoveTypes DEF Points, Jobs, RenameTmp, AfterSave
<1>19. ASSUME NEW w \in Workers, RenameFails(w) PROVE LocalTypes'
  BY <1>19, <1>0, MoveTypes DEF Points, Jobs, RenameFails, SaveFails, AfterSave
<1>20. ASSUME NEW w \in Workers, Add(w) PROVE LocalTypes'
  BY <1>20, <1>0, MoveTypes DEF Points, Jobs, Add
<1>21. ASSUME NEW w \in Workers, Mark(w) PROVE LocalTypes'
  BY <1>21, <1>0, MoveTypes DEF Points, Jobs, Mark
<1>22. ASSUME NEW w \in Workers, NEW a \in Auths, NEW l \in Logins, ImportLink(w, a, l)
      PROVE LocalTypes'
  BY <1>22, <1>0, MoveTypes DEF Points, Jobs, ImportLink, Receive
<1>23. ASSUME NEW w \in Workers, NEW a \in Auths, NEW l \in Logins, ImportJSON(w, a, l)
      PROVE LocalTypes'
  BY <1>23, <1>0, MoveTypes DEF Points, Jobs, ImportJSON, Receive
<1>24. ASSUME NEW w \in Workers, NEW a \in Auths, NEW l \in Logins, Callback(w, a, l)
      PROVE LocalTypes'
  BY <1>24, <1>0, MoveTypes DEF Points, Jobs, Callback, Receive
<1>25. ASSUME NEW l \in Logins, LoginStart(l) PROVE LocalTypes'
  BY <1>25, <1>0 DEF LocalTypes, locals, LoginStart
<1>26. ASSUME NEW l \in Logins, LoginGone(l) PROVE LocalTypes'
  BY <1>26, <1>0 DEF LocalTypes, locals, LoginGone
<1>27. ASSUME NEW l \in Logins, Age(l) PROVE LocalTypes'
  BY <1>27, <1>0 DEF LocalTypes, locals, Age
<1>28. ASSUME NEW l \in Logins, Revoke(l) PROVE LocalTypes'
  BY <1>28, <1>0 DEF LocalTypes, locals, Revoke
<1>29. ASSUME NEW a \in Auths, Restart(a) PROVE LocalTypes'
  BY <1>29, <1>0 DEF LocalTypes, Points, Jobs, Restart
<1>30. CASE UNCHANGED cvars
  BY <1>30, <1>0 DEF LocalTypes, cvars, locals
<1> QED
  BY <1>1, <1>2, <1>3, <1>4, <1>5, <1>6, <1>7, <1>8, <1>9, <1>10, <1>11, <1>12, <1>13,
     <1>14, <1>15, <1>16, <1>17, <1>18, <1>19, <1>20, <1>21, <1>22, <1>23, <1>24, <1>25,
        <1>26, <1>27, <1>28, <1>29, <1>30 DEF NextK, Start, Work

LEMMA TypesStep ==
  ASSUME TypeOKK, AtOK, [NextK]_cvars PROVE TypeOKK'
<1>0. LocalTypes'
  BY LocalTypesStep
<1> USE CredentialAssumption, <1>0
   DEF TypeOKK, AtOK, LocalTypes, Credential, memory, files, history, saves, locals,
      Take, Leave, Login
<1>1. ASSUME NEW w \in Workers, Request(w) PROVE TypeOKK'
  BY <1>1 DEF Request
<1>2. ASSUME NEW w \in Workers, Schedule(w) PROVE TypeOKK'
  BY <1>2 DEF Schedule
<1>3. ASSUME NEW w \in Workers, RefreshByHand(w) PROVE TypeOKK'
  BY <1>3 DEF RefreshByHand
<1>4. ASSUME NEW w \in Workers, Rename(w) PROVE TypeOKK'
  BY <1>4 DEF Rename
<1>5. ASSUME NEW w \in Workers, Delete(w) PROVE TypeOKK'
  BY <1>5 DEF Delete
<1>6. ASSUME NEW w \in Workers, Unlink(w) PROVE TypeOKK'
  BY <1>6 DEF Unlink
<1>7. ASSUME NEW w \in Workers, Fetch(w) PROVE TypeOKK'
  BY <1>7 DEF Fetch
<1>8. ASSUME NEW w \in Workers, Look(w) PROVE TypeOKK'
  BY <1>8 DEF Look
<1>9. ASSUME NEW w \in Workers, Check(w) PROVE TypeOKK'
  BY <1>9 DEF Check
<1>10. ASSUME NEW w \in Workers, Lock(w) PROVE TypeOKK'
  BY <1>10 DEF Lock
<1>11. ASSUME NEW w \in Workers, Exchanged(w) PROVE TypeOKK'
  <2>1. at[w] \in Auths /\ Login(at[w]) \in Logins
    BY <1>11 DEF Exchanged, Renewed, Accepts
  <2> QED
    BY <1>11, <2>1 DEF Exchanged, Renewed, Accepts
<1>12. ASSUME NEW w \in Workers, Rejected(w) PROVE TypeOKK'
  <2>1. at[w] \in Auths /\ Login(at[w]) \in Logins
    BY <1>12 DEF Rejected, Refused
  <2> QED
    BY <1>12, <2>1 DEF Rejected, Refused
<1>13. ASSUME NEW w \in Workers, Unreached(w) PROVE TypeOKK'
  <2>1. at[w] \in Auths /\ Login(at[w]) \in Logins
    BY <1>13 DEF Unreached, Refused
  <2> QED
    BY <1>13, <2>1 DEF Unreached, Refused
<1>14. ASSUME NEW w \in Workers, AnswerLost(w) PROVE TypeOKK'
  <2>1. at[w] \in Auths /\ Login(at[w]) \in Logins
    BY <1>14 DEF AnswerLost, Refused, Accepts
  <2> QED
    BY <1>14, <2>1 DEF AnswerLost, Refused, Accepts
<1>15. ASSUME NEW w \in Workers, Disable(w) PROVE TypeOKK'
  BY <1>15 DEF Disable
<1>16. ASSUME NEW w \in Workers, Write(w) PROVE TypeOKK'
  <2>1. \A v \in Workers : pc[v] \in {"save", "rename"} => auth[at[v]] \in Credential
    OBVIOUS
  <2> QED
    BY <1>16, <2>1 DEF Write
<1>17. ASSUME NEW w \in Workers, WriteFails(w) PROVE TypeOKK'
  <2>1. at[w] \in Auths /\ Login(at[w]) \in Logins
    BY <1>17 DEF WriteFails, SaveFails, AfterSave
  <2> QED
    BY <1>17, <2>1 DEF WriteFails, SaveFails, AfterSave
<1>18. ASSUME NEW w \in Workers, RenameTmp(w) PROVE TypeOKK'
  <2>1. at[w] \in Auths /\ Login(at[w]) \in Logins
    BY <1>18 DEF RenameTmp, AfterSave
  <2> QED
    BY <1>18, <2>1 DEF RenameTmp, AfterSave
<1>19. ASSUME NEW w \in Workers, RenameFails(w) PROVE TypeOKK'
  <2>1. at[w] \in Auths /\ Login(at[w]) \in Logins
    BY <1>19 DEF RenameFails, SaveFails, AfterSave
  <2> QED
    BY <1>19, <2>1 DEF RenameFails, SaveFails, AfterSave
<1>20. ASSUME NEW w \in Workers, Add(w) PROVE TypeOKK'
  <2>1. at[w] \in Auths /\ Login(at[w]) \in Logins
    BY <1>20 DEF Add
  <2> QED
    BY <1>20, <2>1 DEF Add
<1>21. ASSUME NEW w \in Workers, Mark(w) PROVE TypeOKK'
  BY <1>21 DEF Mark
<1>22. ASSUME NEW w \in Workers, NEW a \in Auths, NEW l \in Logins, ImportLink(w, a, l)
      PROVE TypeOKK'
  <2>1. auth' \in [Auths -> Credential]
    BY <1>22 DEF ImportLink, Receive
  <2>2. lock' \in [Auths -> Workers \cup {NoWorker}]
    BY <1>22 DEF ImportLink, Receive
  <2> QED
    BY <1>22, <2>1, <2>2 DEF ImportLink, Receive
<1>23. ASSUME NEW w \in Workers, NEW a \in Auths, NEW l \in Logins, ImportJSON(w, a, l)
      PROVE TypeOKK'
  <2>1. auth' \in [Auths -> Credential]
    BY <1>23 DEF ImportJSON, Receive
  <2>2. lock' \in [Auths -> Workers \cup {NoWorker}]
    BY <1>23 DEF ImportJSON, Receive
  <2> QED
    BY <1>23, <2>1, <2>2 DEF ImportJSON, Receive
<1>24. ASSUME NEW w \in Workers, NEW a \in Auths, NEW l \in Logins, Callback(w, a, l)
      PROVE TypeOKK'
  <2>1. auth' \in [Auths -> Credential]
    BY <1>24 DEF Callback, Receive
  <2>2. lock' \in [Auths -> Workers \cup {NoWorker}]
    BY <1>24 DEF Callback, Receive
  <2> QED
    BY <1>24, <2>1, <2>2 DEF Callback, Receive
<1>25. ASSUME NEW l \in Logins, LoginStart(l) PROVE TypeOKK'
  BY <1>25 DEF LoginStart
<1>26. ASSUME NEW l \in Logins, LoginGone(l) PROVE TypeOKK'
  BY <1>26 DEF LoginGone
<1>27. ASSUME NEW l \in Logins, Age(l) PROVE TypeOKK'
  BY <1>27 DEF Age
<1>28. ASSUME NEW l \in Logins, Revoke(l) PROVE TypeOKK'
  BY <1>28 DEF Revoke
<1>29. ASSUME NEW a \in Auths, Restart(a) PROVE TypeOKK'
  <2>1. /\ auth' \in [Auths -> Credential] /\ lock' \in [Auths -> Workers \cup {NoWorker}]
        /\ pool' \in Auths \cup {NoAuth}
    BY <1>29, SMTT(20) DEF Restart
  <2>2. hurt' \subseteq Logins
    <3>1. ASSUME NEW w \in Workers, Unsaved(w) PROVE Login(at[w]) \in Logins
      <4>1. at[w] \in Auths
        BY <3>1 DEF Unsaved, AtOK
      <4> QED
        BY <4>1
    <3>2. hurt' = hurt \cup {Login(at[w]) : w \in {v \in Workers : Unsaved(v)}}
      BY <1>29 DEF Restart
    <3> QED
      BY <3>1, <3>2
  <2>3. /\ pc' \in [Workers -> Points] /\ job' \in [Workers -> Jobs]
        /\ at' \in [Workers -> Auths \cup {NoAuth}]
    BY <1>29 DEF Restart
  <2> QED
    BY <1>29, <2>1, <2>2, <2>3, SMTT(20) DEF Restart
<1>30. CASE UNCHANGED cvars
  BY <1>30 DEF cvars
<1> QED
  BY <1>1, <1>2, <1>3, <1>4, <1>5, <1>6, <1>7, <1>8, <1>9, <1>10, <1>11, <1>12, <1>13,
     <1>14, <1>15, <1>16, <1>17, <1>18, <1>19, <1>20, <1>21, <1>22, <1>23, <1>24, <1>25,
        <1>26, <1>27, <1>28, <1>29, <1>30 DEF NextK, Start, Work
-----------------------------------------------------------------------------
(* Control. *)

LEMMA AtStep ==
  ASSUME TypeOKK, AtOK, [NextK]_cvars PROVE AtOK'
<1> USE CredentialAssumption
   DEF TypeOKK, AtOK, memory, files, history, saves, locals, Goto, Done, Begin, Take, Leave
<1>1. ASSUME NEW w \in Workers, Request(w) PROVE AtOK'
  BY <1>1 DEF Request
<1>2. ASSUME NEW w \in Workers, Schedule(w) PROVE AtOK'
  BY <1>2 DEF Schedule
<1>3. ASSUME NEW w \in Workers, RefreshByHand(w) PROVE AtOK'
  BY <1>3 DEF RefreshByHand
<1>4. ASSUME NEW w \in Workers, Rename(w) PROVE AtOK'
  BY <1>4 DEF Rename
<1>5. ASSUME NEW w \in Workers, Delete(w) PROVE AtOK'
  BY <1>5 DEF Delete
<1>6. ASSUME NEW w \in Workers, Unlink(w) PROVE AtOK'
  BY <1>6 DEF Unlink
<1>7. ASSUME NEW w \in Workers, Fetch(w) PROVE AtOK'
  BY <1>7 DEF Fetch
<1>8. ASSUME NEW w \in Workers, Look(w) PROVE AtOK'
  BY <1>8 DEF Look
<1>9. ASSUME NEW w \in Workers, Check(w) PROVE AtOK'
  BY <1>9 DEF Check
<1>10. ASSUME NEW w \in Workers, Lock(w) PROVE AtOK'
  BY <1>10 DEF Lock
<1>11. ASSUME NEW w \in Workers, Exchanged(w) PROVE AtOK'
  BY <1>11 DEF Exchanged, Renewed, Accepts
<1>12. ASSUME NEW w \in Workers, Rejected(w) PROVE AtOK'
  BY <1>12 DEF Rejected, Refused
<1>13. ASSUME NEW w \in Workers, Unreached(w) PROVE AtOK'
  BY <1>13 DEF Unreached, Refused
<1>14. ASSUME NEW w \in Workers, AnswerLost(w) PROVE AtOK'
  BY <1>14 DEF AnswerLost, Refused, Accepts
<1>15. ASSUME NEW w \in Workers, Disable(w) PROVE AtOK'
  BY <1>15 DEF Disable
<1>16. ASSUME NEW w \in Workers, Write(w) PROVE AtOK'
  BY <1>16 DEF Write
<1>17. ASSUME NEW w \in Workers, WriteFails(w) PROVE AtOK'
  BY <1>17 DEF WriteFails, SaveFails, AfterSave
<1>18. ASSUME NEW w \in Workers, RenameTmp(w) PROVE AtOK'
  BY <1>18 DEF RenameTmp, AfterSave
<1>19. ASSUME NEW w \in Workers, RenameFails(w) PROVE AtOK'
  BY <1>19 DEF RenameFails, SaveFails, AfterSave
<1>20. ASSUME NEW w \in Workers, Add(w) PROVE AtOK'
  BY <1>20 DEF Add
<1>21. ASSUME NEW w \in Workers, Mark(w) PROVE AtOK'
  BY <1>21 DEF Mark
<1>22. ASSUME NEW w \in Workers, NEW a \in Auths, NEW l \in Logins, ImportLink(w, a, l)
      PROVE AtOK'
  BY <1>22 DEF ImportLink, Receive
<1>23. ASSUME NEW w \in Workers, NEW a \in Auths, NEW l \in Logins, ImportJSON(w, a, l)
      PROVE AtOK'
  BY <1>23 DEF ImportJSON, Receive
<1>24. ASSUME NEW w \in Workers, NEW a \in Auths, NEW l \in Logins, Callback(w, a, l)
      PROVE AtOK'
  BY <1>24 DEF Callback, Receive
<1>25. ASSUME NEW l \in Logins, LoginStart(l) PROVE AtOK'
  BY <1>25 DEF LoginStart
<1>26. ASSUME NEW l \in Logins, LoginGone(l) PROVE AtOK'
  BY <1>26 DEF LoginGone
<1>27. ASSUME NEW l \in Logins, Age(l) PROVE AtOK'
  BY <1>27 DEF Age
<1>28. ASSUME NEW l \in Logins, Revoke(l) PROVE AtOK'
  BY <1>28 DEF Revoke
<1>29. ASSUME NEW a \in Auths, Restart(a) PROVE AtOK'
  BY <1>29 DEF Restart, Unsaved
<1>30. CASE UNCHANGED cvars
  BY <1>30 DEF cvars
<1> QED
  BY <1>1, <1>2, <1>3, <1>4, <1>5, <1>6, <1>7, <1>8, <1>9, <1>10, <1>11, <1>12, <1>13,
     <1>14, <1>15, <1>16, <1>17, <1>18, <1>19, <1>20, <1>21, <1>22, <1>23, <1>24, <1>25,
        <1>26, <1>27, <1>28, <1>29, <1>30 DEF NextK, Start, Work

LEMMA JobsStep ==
  ASSUME TypeOKK, JobsOK, [NextK]_cvars PROVE JobsOK'
<1> USE DEF TypeOKK, JobsOK, memory, files, history, saves, locals, Goto, Done, Begin, Take, Leave
<1>1. ASSUME NEW w \in Workers, Request(w) PROVE JobsOK'
  BY <1>1 DEF Request
<1>2. ASSUME NEW w \in Workers, Schedule(w) PROVE JobsOK'
  BY <1>2 DEF Schedule
<1>3. ASSUME NEW w \in Workers, RefreshByHand(w) PROVE JobsOK'
  BY <1>3 DEF RefreshByHand
<1>4. ASSUME NEW w \in Workers, Rename(w) PROVE JobsOK'
  BY <1>4 DEF Rename
<1>5. ASSUME NEW w \in Workers, Delete(w) PROVE JobsOK'
  BY <1>5 DEF Delete
<1>6. ASSUME NEW w \in Workers, Unlink(w) PROVE JobsOK'
  BY <1>6 DEF Unlink
<1>7. ASSUME NEW w \in Workers, Fetch(w) PROVE JobsOK'
  BY <1>7 DEF Fetch
<1>8. ASSUME NEW w \in Workers, Look(w) PROVE JobsOK'
  BY <1>8 DEF Look
<1>9. ASSUME NEW w \in Workers, Check(w) PROVE JobsOK'
  BY <1>9 DEF Check
<1>10. ASSUME NEW w \in Workers, Lock(w) PROVE JobsOK'
  BY <1>10 DEF Lock
<1>11. ASSUME NEW w \in Workers, Exchanged(w) PROVE JobsOK'
  BY <1>11 DEF Exchanged, Renewed, Accepts
<1>12. ASSUME NEW w \in Workers, Rejected(w) PROVE JobsOK'
  BY <1>12 DEF Rejected, Refused
<1>13. ASSUME NEW w \in Workers, Unreached(w) PROVE JobsOK'
  BY <1>13 DEF Unreached, Refused
<1>14. ASSUME NEW w \in Workers, AnswerLost(w) PROVE JobsOK'
  BY <1>14 DEF AnswerLost, Refused, Accepts
<1>15. ASSUME NEW w \in Workers, Disable(w) PROVE JobsOK'
  BY <1>15 DEF Disable
<1>16. ASSUME NEW w \in Workers, Write(w) PROVE JobsOK'
  BY <1>16 DEF Write
<1>17. ASSUME NEW w \in Workers, WriteFails(w) PROVE JobsOK'
  BY <1>17 DEF WriteFails, SaveFails, AfterSave
<1>18. ASSUME NEW w \in Workers, RenameTmp(w) PROVE JobsOK'
  BY <1>18 DEF RenameTmp, AfterSave
<1>19. ASSUME NEW w \in Workers, RenameFails(w) PROVE JobsOK'
  BY <1>19 DEF RenameFails, SaveFails, AfterSave
<1>20. ASSUME NEW w \in Workers, Add(w) PROVE JobsOK'
  BY <1>20 DEF Add
<1>21. ASSUME NEW w \in Workers, Mark(w) PROVE JobsOK'
  BY <1>21 DEF Mark
<1>22. ASSUME NEW w \in Workers, NEW a \in Auths, NEW l \in Logins, ImportLink(w, a, l)
      PROVE JobsOK'
  BY <1>22 DEF ImportLink, Receive
<1>23. ASSUME NEW w \in Workers, NEW a \in Auths, NEW l \in Logins, ImportJSON(w, a, l)
      PROVE JobsOK'
  BY <1>23 DEF ImportJSON, Receive
<1>24. ASSUME NEW w \in Workers, NEW a \in Auths, NEW l \in Logins, Callback(w, a, l)
      PROVE JobsOK'
  BY <1>24 DEF Callback, Receive
<1>25. ASSUME NEW l \in Logins, LoginStart(l) PROVE JobsOK'
  BY <1>25 DEF LoginStart
<1>26. ASSUME NEW l \in Logins, LoginGone(l) PROVE JobsOK'
  BY <1>26 DEF LoginGone
<1>27. ASSUME NEW l \in Logins, Age(l) PROVE JobsOK'
  BY <1>27 DEF Age
<1>28. ASSUME NEW l \in Logins, Revoke(l) PROVE JobsOK'
  BY <1>28 DEF Revoke
<1>29. ASSUME NEW a \in Auths, Restart(a) PROVE JobsOK'
  BY <1>29 DEF Restart, Unsaved
<1>30. CASE UNCHANGED cvars
  BY <1>30 DEF cvars
<1> QED
  BY <1>1, <1>2, <1>3, <1>4, <1>5, <1>6, <1>7, <1>8, <1>9, <1>10, <1>11, <1>12, <1>13,
     <1>14, <1>15, <1>16, <1>17, <1>18, <1>19, <1>20, <1>21, <1>22, <1>23, <1>24, <1>25,
        <1>26, <1>27, <1>28, <1>29, <1>30 DEF NextK, Start, Work

LEMMA LooseStep ==
  ASSUME TypeOKK, AtOK, JobsOK, LooseOK, [NextK]_cvars PROVE LooseOK'
<1> USE CredentialAssumption DEF TypeOKK, Credential, AtOK, JobsOK, LooseOK, Loose, Login,
      Fresh, memory, files, history, saves, locals, Goto, Done, Begin, Take, Leave
<1>1. ASSUME NEW w \in Workers, Request(w) PROVE LooseOK'
  BY <1>1 DEF Request
<1>2. ASSUME NEW w \in Workers, Schedule(w) PROVE LooseOK'
  BY <1>2 DEF Schedule
<1>3. ASSUME NEW w \in Workers, RefreshByHand(w) PROVE LooseOK'
  BY <1>3 DEF RefreshByHand
<1>4. ASSUME NEW w \in Workers, Rename(w) PROVE LooseOK'
  BY <1>4 DEF Rename
<1>5. ASSUME NEW w \in Workers, Delete(w) PROVE LooseOK'
  BY <1>5 DEF Delete
<1>6. ASSUME NEW w \in Workers, Unlink(w) PROVE LooseOK'
  BY <1>6 DEF Unlink
<1>7. ASSUME NEW w \in Workers, Fetch(w) PROVE LooseOK'
  BY <1>7 DEF Fetch
<1>8. ASSUME NEW w \in Workers, Look(w) PROVE LooseOK'
  BY <1>8 DEF Look
<1>9. ASSUME NEW w \in Workers, Check(w) PROVE LooseOK'
  BY <1>9 DEF Check
<1>10. ASSUME NEW w \in Workers, Lock(w) PROVE LooseOK'
  BY <1>10 DEF Lock
<1>11. ASSUME NEW w \in Workers, Exchanged(w) PROVE LooseOK'
  BY <1>11 DEF Exchanged, Renewed, Accepts
<1>12. ASSUME NEW w \in Workers, Rejected(w) PROVE LooseOK'
  BY <1>12 DEF Rejected, Refused
<1>13. ASSUME NEW w \in Workers, Unreached(w) PROVE LooseOK'
  BY <1>13 DEF Unreached, Refused
<1>14. ASSUME NEW w \in Workers, AnswerLost(w) PROVE LooseOK'
  BY <1>14 DEF AnswerLost, Refused, Accepts
<1>15. ASSUME NEW w \in Workers, Disable(w) PROVE LooseOK'
  BY <1>15, SMTT(20) DEF Disable
<1>16. ASSUME NEW w \in Workers, Write(w) PROVE LooseOK'
  BY <1>16 DEF Write
<1>17. ASSUME NEW w \in Workers, WriteFails(w) PROVE LooseOK'
  BY <1>17 DEF WriteFails, SaveFails, AfterSave
<1>18. ASSUME NEW w \in Workers, RenameTmp(w) PROVE LooseOK'
  BY <1>18 DEF RenameTmp, AfterSave
<1>19. ASSUME NEW w \in Workers, RenameFails(w) PROVE LooseOK'
  BY <1>19 DEF RenameFails, SaveFails, AfterSave
<1>20. ASSUME NEW w \in Workers, Add(w) PROVE LooseOK'
  BY <1>20 DEF Add
<1>21. ASSUME NEW w \in Workers, Mark(w) PROVE LooseOK'
  BY <1>21 DEF Mark
<1>22. ASSUME NEW w \in Workers, NEW a \in Auths, NEW l \in Logins, ImportLink(w, a, l)
      PROVE LooseOK'
  <2>1. CASE Source[l] = "link"
    BY <1>22, <2>1 DEF ImportLink, Receive
  <2>2. CASE Source[l] # "link"
    BY <1>22, <2>2 DEF ImportLink, Receive
  <2> QED
    BY <2>1, <2>2
<1>23. ASSUME NEW w \in Workers, NEW a \in Auths, NEW l \in Logins, ImportJSON(w, a, l)
      PROVE LooseOK'
  <2>1. CASE Source[l] = "link"
    BY <1>23, <2>1 DEF ImportJSON, Receive
  <2>2. CASE Source[l] # "link"
    BY <1>23, <2>2 DEF ImportJSON, Receive
  <2> QED
    BY <2>1, <2>2
<1>24. ASSUME NEW w \in Workers, NEW a \in Auths, NEW l \in Logins, Callback(w, a, l)
      PROVE LooseOK'
  <2>1. CASE Source[l] = "link"
    BY <1>24, <2>1 DEF Callback, Receive
  <2>2. CASE Source[l] # "link"
    BY <1>24, <2>2 DEF Callback, Receive
  <2> QED
    BY <2>1, <2>2
<1>25. ASSUME NEW l \in Logins, LoginStart(l) PROVE LooseOK'
  BY <1>25 DEF LoginStart
<1>26. ASSUME NEW l \in Logins, LoginGone(l) PROVE LooseOK'
  BY <1>26 DEF LoginGone
<1>27. ASSUME NEW l \in Logins, Age(l) PROVE LooseOK'
  BY <1>27 DEF Age
<1>28. ASSUME NEW l \in Logins, Revoke(l) PROVE LooseOK'
  BY <1>28 DEF Revoke
<1>29. ASSUME NEW a \in Auths, Restart(a) PROVE LooseOK'
  BY <1>29 DEF Restart, Unsaved
<1>30. CASE UNCHANGED cvars
  BY <1>30 DEF cvars
<1> QED
  BY <1>1, <1>2, <1>3, <1>4, <1>5, <1>6, <1>7, <1>8, <1>9, <1>10, <1>11, <1>12, <1>13,
     <1>14, <1>15, <1>16, <1>17, <1>18, <1>19, <1>20, <1>21, <1>22, <1>23, <1>24, <1>25,
        <1>26, <1>27, <1>28, <1>29, <1>30 DEF NextK, Start, Work
-----------------------------------------------------------------------------
(* Tokens. *)

\* A step that brings no Auth into use and changes no credential, but for logins
\* that get hurt.
Quiet ==
  /\ UNCHANGED <<auth, tmp, given>> /\ file' \in {file, NoFile}
  /\ hurt \subseteq hurt'
  /\ \A l \in Logins : live'[l] = live[l] \/ (live'[l] > live[l] /\ l \in hurt')
  /\ \A a \in Auths : InUse(a)' => InUse(a)
  /\ \A w \in Workers : Unsaved(w) =>
       \/ Login(at[w]) \in hurt'
       \/ pc'[w] = pc[w] /\ job'[w] = job[w] /\ at'[w] = at[w]

LEMMA QuietKeeps ==
  ASSUME TypeOKK, AtOK, TypeOKK', Tokens, Quiet PROVE Tokens'
<1> USE CredentialAssumption DEF TypeOKK, Credential, Quiet, Sound, Issued, Login
<1>1. Accepted' /\ Unique' /\ Ungiven'
  BY DEF Tokens, Accepted, Unique, Ungiven
<1>2. FileOK'
  BY DEF Tokens, FileOK, Backed, Unsaved
<1>3. TmpOK'
  BY DEF Tokens, TmpOK, Unsaved, AtOK
<1> QED BY <1>1, <1>2, <1>3 DEF Tokens

QuietStep ==
  \/ \E w \in Workers :
       \/ Request(w) \/ Schedule(w) \/ RefreshByHand(w) \/ Rename(w) \/ Delete(w)
       \/ Unlink(w) \/ Fetch(w) \/ Look(w) \/ Check(w) \/ Lock(w) \/ Rejected(w)
       \/ Unreached(w) \/ AnswerLost(w) \/ Disable(w) \/ WriteFails(w)
       \/ RenameFails(w) \/ Add(w) \/ Mark(w)
  \/ \E l \in Logins : LoginStart(l) \/ LoginGone(l) \/ Age(l) \/ Revoke(l)

LEMMA QuietSteps ==
  ASSUME Control, QuietStep PROVE Quiet
<1> USE CredentialAssumption DEF Control, TypeOKK, Credential, AtOK, JobsOK, Quiet, InUse,
      Holds, Loose, Login, Unsaved, memory, files, history, saves, locals, Goto, Done, Begin,
         Take, Leave
<1>1. ASSUME NEW w \in Workers, Request(w) PROVE Quiet
  BY <1>1 DEF Request
<1>2. ASSUME NEW w \in Workers, Schedule(w) PROVE Quiet
  BY <1>2 DEF Schedule
<1>3. ASSUME NEW w \in Workers, RefreshByHand(w) PROVE Quiet
  BY <1>3 DEF RefreshByHand
<1>4. ASSUME NEW w \in Workers, Rename(w) PROVE Quiet
  BY <1>4 DEF Rename
<1>5. ASSUME NEW w \in Workers, Delete(w) PROVE Quiet
  BY <1>5 DEF Delete
<1>6. ASSUME NEW w \in Workers, Unlink(w) PROVE Quiet
  BY <1>6 DEF Unlink
<1>7. ASSUME NEW w \in Workers, Fetch(w) PROVE Quiet
  BY <1>7 DEF Fetch
<1>8. ASSUME NEW w \in Workers, Look(w) PROVE Quiet
  BY <1>8, SMTT(20) DEF Look
<1>9. ASSUME NEW w \in Workers, Check(w) PROVE Quiet
  BY <1>9 DEF Check
<1>10. ASSUME NEW w \in Workers, Lock(w) PROVE Quiet
  BY <1>10 DEF Lock
<1>11. ASSUME NEW w \in Workers, Rejected(w) PROVE Quiet
  BY <1>11 DEF Rejected, Refused
<1>12. ASSUME NEW w \in Workers, Unreached(w) PROVE Quiet
  BY <1>12 DEF Unreached, Refused
<1>13. ASSUME NEW w \in Workers, AnswerLost(w) PROVE Quiet
  BY <1>13 DEF AnswerLost, Refused, Accepts
<1>14. ASSUME NEW w \in Workers, Disable(w) PROVE Quiet
  BY <1>14 DEF Disable
<1>15. ASSUME NEW w \in Workers, WriteFails(w) PROVE Quiet
  BY <1>15 DEF WriteFails, SaveFails, AfterSave
<1>16. ASSUME NEW w \in Workers, RenameFails(w) PROVE Quiet
  BY <1>16, SMTT(30) DEF RenameFails, SaveFails, AfterSave
<1>17. ASSUME NEW w \in Workers, Add(w) PROVE Quiet
  BY <1>17 DEF Add
<1>18. ASSUME NEW w \in Workers, Mark(w) PROVE Quiet
  BY <1>18 DEF Mark
<1>19. ASSUME NEW l \in Logins, LoginStart(l) PROVE Quiet
  BY <1>19 DEF LoginStart
<1>20. ASSUME NEW l \in Logins, LoginGone(l) PROVE Quiet
  BY <1>20 DEF LoginGone
<1>21. ASSUME NEW l \in Logins, Age(l) PROVE Quiet
  BY <1>21 DEF Age
<1>22. ASSUME NEW l \in Logins, Revoke(l) PROVE Quiet
  BY <1>22 DEF Revoke
<1> QED
  BY <1>1, <1>2, <1>3, <1>4, <1>5, <1>6, <1>7, <1>8, <1>9, <1>10, <1>11, <1>12, <1>13,
     <1>14, <1>15, <1>16, <1>17, <1>18, <1>19, <1>20, <1>21, <1>22 DEF QuietStep

\* A received link is not in use before its exchange; a document is imported once,
\* and a bare access token is nothing that can be spent.
LEMMA ReceiveTokens ==
  ASSUME Control, Control', Tokens, NEW w \in Workers, NEW a \in Auths, NEW l \in Logins,
         ImportLink(w, a, l) \/ ImportJSON(w, a, l) \/ Callback(w, a, l)
  PROVE  Tokens'
<1> USE CredentialAssumption
   DEF Control, TypeOKK, Credential, AtOK, Tokens, Login, Sound, Issued
<1>1. Fresh(a) /\ auth' = [auth EXCEPT ![a] = [login |-> l, token |-> 0]]
  BY DEF ImportLink, ImportJSON, Callback, Receive
<1>2. UNCHANGED <<pool, file, tmp, live, hurt>> /\ given \subseteq given'
  BY DEF ImportLink, ImportJSON, Callback, Receive, files
<1>3. \A v \in Workers \ {w} : pc'[v] = pc[v] /\ job'[v] = job[v] /\ at'[v] = at[v] /\ at[v] # a
  BY DEF ImportLink, ImportJSON, Callback, Receive, Begin, Fresh
<1>4. pc[w] = "idle" /\ at[w] = NoAuth /\ at'[w] = a /\ job'[w] \in {"import", "callback"}
  BY DEF ImportLink, ImportJSON, Callback, Receive, Begin
<1>5. \/ Source[l] = "link" /\ pc'[w] = "exchange" /\ given' = given
      \/ Source[l] = "jwt" /\ given' = given
      \/ Source[l] = "json" /\ l \notin given /\ given' = given \cup {l}
  BY DEF ImportLink, ImportJSON, Callback, Receive, Begin
<1>6. \A b \in Auths \ {a} : InUse(b)' => InUse(b)
  BY <1>1, <1>2, <1>3, <1>4 DEF InUse, Holds, Loose
<1>7. Source[l] = "link" => ~InUse(a)'
  BY <1>1, <1>2, <1>3, <1>4, <1>5 DEF InUse, Holds, Loose, Fresh
<1>8. Ungiven'
  BY <1>2, <1>5 DEF Ungiven
<1>9. Accepted'
  BY <1>1, <1>2, <1>5, <1>6, <1>7 DEF Accepted, Ungiven
<1>10. Unique'
  BY <1>1, <1>2, <1>5, <1>6, <1>7 DEF Accepted, Unique
<1>11. FileOK'
  BY <1>1, <1>2, <1>3, <1>4, SMTT(30) DEF FileOK, Backed, Unsaved
<1>12. TmpOK'
  BY <1>1, <1>2, <1>3, <1>4, SMTT(30) DEF TmpOK
<1> QED BY <1>8, <1>9, <1>10, <1>11, <1>12

\* An exchange advances the token upstream and the only Auth that has it.
LEMMA ExchangeTokens ==
  ASSUME Control, Control', Tokens, NEW w \in Workers, Exchanged(w)
  PROVE  Tokens'
<1> DEFINE a == at[w]
           l == Login(a)
<1> USE CredentialAssumption DEF Control, TypeOKK, Credential, Tokens, Login, Sound, Issued
<1>1. a \in Auths /\ l \in Logins /\ pc[w] = "exchange" /\ lock[a] = w
  BY DEF Exchanged, AtOK
<1>2. /\ auth[a].token = live[l] /\ Source[l] # "jwt"
      /\ live' = [live EXCEPT ![l] = @ + 1]
      /\ auth' = [auth EXCEPT ![a].token = @ + 1]
      /\ UNCHANGED <<pool, file, tmp, given, hurt>>
  BY DEF Exchanged, Accepts, HasRefreshToken, files, history, saves
<1>3. \A v \in Workers \ {w} : pc'[v] = pc[v] /\ job'[v] = job[v] /\ at'[v] = at[v]
  BY DEF Exchanged, Renewed, Goto, Done
<1>4. \/ pc'[w] = "save" /\ at'[w] = a /\ job'[w] = job[w]
      \/ Loose(w) /\ pc'[w] \in {"idle", "fail"}
  BY <1>1 DEF Exchanged, Renewed, Goto, Done, Loose
<1>5. \A b \in Auths : InUse(b)' => InUse(b) \/ b = a
  BY <1>1, <1>2, <1>3, <1>4 DEF InUse, Holds, Loose
<1>6. /\ ~Loose(w) => InUse(a)
      /\ Loose(w) => Source[l] = "link" /\ live[l] = 0
  BY <1>1, <1>2 DEF InUse, Holds, Loose, LooseOK
<1>7. \A b \in Auths \ {a} : InUse(b) => auth[b].login # l \/ ~Sound(l)
  BY <1>1, <1>6 DEF Accepted, Unique
<1>8. /\ auth'[a].login = l /\ auth'[a].token = live'[l] /\ live'[l] = live[l] + 1
      /\ \A b \in Auths \ {a} : auth'[b] = auth[b]
      /\ \A m \in Logins \ {l} : live'[m] = live[m]
  BY <1>1, <1>2
<1>9. Ungiven'
  BY <1>1, <1>2, <1>6, <1>8 DEF Ungiven, Accepted
<1>10. Accepted'
  BY <1>1, <1>2, <1>5, <1>6, <1>7, <1>8, SMTT(20) DEF Accepted
<1>11. Unique'
  BY <1>1, <1>2, <1>5, <1>6, <1>7, <1>8 DEF Unique
<1>12. FileOK'
  <2>1. CASE file # NoFile /\ file.login = l /\ Sound(l)
    <3>1. ~Loose(w)
      BY <2>1, <1>6 DEF FileOK
    <3> QED
      BY <2>1, <3>1, <1>1, <1>2, <1>4, <1>8, SMTT(20) DEF FileOK, Backed, Unsaved, JobsOK
  <2>2. CASE file # NoFile /\ ~(file.login = l /\ Sound(l))
    <3>1. CASE file.login = l
      BY <3>1, <2>2, <1>2, SMTT(20) DEF FileOK, Backed
    <3>2. CASE file.login # l
      <4>1. file.login \in Logins /\ file \in Credential
        BY <2>2
      <4>2. live'[file.login] = live[file.login]
        BY <3>2, <4>1, <1>8
      <4>3. \A v \in Workers : Unsaved(v) => v # w
        BY <1>1 DEF Unsaved
      <4>4. \A v \in Workers : Unsaved(v) => Unsaved(v)' /\ job'[v] = job[v] /\ at'[v] = at[v]
        BY <4>3, <1>3 DEF Unsaved
      <4>5. \A v \in Workers : Unsaved(v) /\ Login(at[v]) = file.login
              => auth'[at[v]].login = file.login
        <5> SUFFICES ASSUME NEW v \in Workers, Unsaved(v), Login(at[v]) = file.login
                     PROVE  auth'[at[v]].login = file.login
          OBVIOUS
        <5>0. pc[v] \notin {"idle", "listed", "unlink"} /\ AtOK
          BY DEF Unsaved
        <5>1. at[v] # NoAuth /\ at[v] \in Auths
          <6>1. at[v] # NoAuth
            BY <5>0 DEF AtOK
          <6> QED
            BY <6>1
        <5>2. at[v] # a
          BY <3>2, <5>1
        <5> QED
          BY <5>1, <5>2, <1>8
      <4>6. Backed(file)
        BY <2>2 DEF FileOK
      <4>7. Backed(file)'
        <5>1. CASE file.login \in hurt \/ Source[file.login] = "jwt"
          BY <5>1, <1>2 DEF Backed
        <5>2. CASE file.token = live[file.login]
          BY <5>2, <4>2, <1>2 DEF Backed
        <5>3. CASE \E v \in Workers : Unsaved(v) /\ job[v] # "nickname" /\ Login(at[v]) = file.login
          <6>1. PICK v \in Workers :
                  Unsaved(v) /\ job[v] # "nickname" /\ Login(at[v]) = file.login
            BY <5>3
          <6>2. /\ Unsaved(v)' /\ job'[v] = job[v] /\ at'[v] = at[v]
                /\ auth'[at[v]].login = file.login
            BY <4>4, <4>5, <6>1
          <6>3. Unsaved(v)' /\ job'[v] # "nickname" /\ auth'[at'[v]].login = file.login
            BY <6>1, <6>2
          <6>4. file' = file
            BY <1>2
          <6> QED
            BY <6>3, <6>4 DEF Backed
        <5> QED
          BY <4>6, <5>1, <5>2, <5>3 DEF Backed
      <4> QED
        BY <4>2, <4>7, <2>2, <1>2 DEF FileOK
    <3> QED
      BY <3>1, <3>2
  <2> QED
    BY <2>1, <2>2, <1>2 DEF FileOK
<1>13. TmpOK'
  BY <1>1, <1>2, <1>3, <1>8, SMTT(30) DEF TmpOK, AtOK
<1> QED BY <1>9, <1>10, <1>11, <1>12, <1>13

LEMMA WriteTokens ==
  ASSUME Control, Control', Tokens, NEW w \in Workers, Write(w)
  PROVE  Tokens'
<1> USE CredentialAssumption DEF Control, TypeOKK, Credential, Tokens, Login, Sound, Issued
<1>1. /\ pc[w] = "save" /\ pc' = [pc EXCEPT ![w] = "rename"] /\ tmp' = auth[at[w]]
      /\ UNCHANGED <<auth, pool, file, live, given, hurt, job, at>>
  BY DEF Write, Goto
<1>2. at[w] \in Auths /\ InUse(at[w])
  BY <1>1 DEF AtOK, InUse, Holds, Loose
<1>3. \A a \in Auths : InUse(a)' => InUse(a)
  BY <1>1 DEF InUse, Holds, Loose
<1>4. Accepted' /\ Unique' /\ Ungiven'
  BY <1>1, <1>3 DEF Accepted, Unique, Ungiven
<1>5. FileOK'
  BY <1>1 DEF FileOK, Backed, Unsaved
<1>6. TmpOK'
  BY <1>1, <1>2 DEF TmpOK, Accepted
<1> QED BY <1>4, <1>5, <1>6

\* Whoever wrote the temporary file, its token is the one upstream accepts.
LEMMA RenameTokens ==
  ASSUME Control, Control', Tokens, NEW w \in Workers, RenameTmp(w)
  PROVE  Tokens'
<1> USE CredentialAssumption DEF Control, TypeOKK, Credential, Tokens, Login, Sound, Issued
<1>1. /\ pc[w] = "rename" /\ tmp # NoFile /\ file' = tmp /\ tmp' = NoFile
      /\ UNCHANGED <<auth, pool, live, given, hurt>>
  BY DEF RenameTmp
<1>2. \A a \in Auths : InUse(a)' => InUse(a)
  BY DEF RenameTmp, AfterSave, Goto, Done, InUse, Holds, Loose
<1>3. Accepted' /\ Unique' /\ Ungiven'
  BY <1>1, <1>2 DEF Accepted, Unique, Ungiven
<1>4. Sound(tmp.login) => tmp.token = live[tmp.login]
  <2> SUFFICES ASSUME Sound(tmp.login) PROVE tmp.token = live[tmp.login]
    OBVIOUS
  <2>1. PICK v \in Workers : pc[v] = "rename" /\ auth[at[v]] = tmp
    BY <1>1 DEF TmpOK
  <2>2. at[v] \in Auths /\ InUse(at[v])
    BY <2>1 DEF AtOK, InUse, Holds, Loose
  <2> QED
    BY <2>1, <2>2 DEF Accepted
<1>5. FileOK'
  BY <1>1, <1>4 DEF FileOK, TmpOK, Backed
<1> QED BY <1>1, <1>3, <1>5 DEF TmpOK

\* After a restart the file is all there is.
LEMMA RestartTokens ==
  ASSUME Control, Control', Tokens, NEW a \in Auths, Restart(a)
  PROVE  Tokens'
<1> USE CredentialAssumption DEF Control, TypeOKK, Credential, Tokens, Login, Sound, Issued
<1>1. /\ hurt \subseteq hurt' /\ \A w \in Workers : Unsaved(w) => auth[at[w]].login \in hurt'
      /\ UNCHANGED <<file, tmp, live, given>>
  BY DEF Restart, files
<1>2. \A b \in Auths : InUse(b)' => b = a /\ file # NoFile /\ auth'[a] = file
  BY DEF Restart, InUse, Holds, AtOK
<1>3. file # NoFile /\ file.login \notin hurt' /\ Source[file.login] # "jwt" => file.token = live[file.login]
  BY <1>1 DEF FileOK, Backed
<1>4. Accepted' /\ Unique' /\ Ungiven'
  BY <1>1, <1>2, <1>3 DEF Accepted, Unique, Ungiven, FileOK
<1>5. FileOK'
  BY <1>1, <1>3 DEF FileOK, Backed
<1>6. TmpOK'
  BY <1>1 DEF TmpOK, Unsaved
<1> QED BY <1>4, <1>5, <1>6

LEMMA TokensStep ==
  ASSUME Control, Control', Tokens, [NextK]_cvars PROVE Tokens'
<1>1. CASE QuietStep
  BY <1>1, QuietSteps, QuietKeeps DEF Control
<1>2. CASE UNCHANGED cvars
  <2>1. Quiet
    BY <1>2 DEF cvars, memory, files, history, saves, locals, Quiet, InUse, Holds, Loose
  <2> QED
    BY <2>1, QuietKeeps DEF Control
<1>3. ASSUME NEW w \in Workers, NEW a \in Auths, NEW l \in Logins,
             ImportLink(w, a, l) \/ ImportJSON(w, a, l) \/ Callback(w, a, l)
      PROVE  Tokens'
  BY <1>3, ReceiveTokens
<1>4. ASSUME NEW w \in Workers, Exchanged(w) \/ Write(w) \/ RenameTmp(w) PROVE Tokens'
  BY <1>4, ExchangeTokens, WriteTokens, RenameTokens
<1>5. ASSUME NEW a \in Auths, Restart(a) PROVE Tokens'
  BY <1>5, RestartTokens
<1> QED
  BY <1>1, <1>2, <1>3, <1>4, <1>5 DEF NextK, Start, Work, QuietStep

-----------------------------------------------------------------------------
(* What follows. *)

\* A token that is refused to an Auth in use is that of a hurt login.
LEMMA DisabledStep ==
  ASSUME Control, Tokens, DisabledOK, [NextK]_cvars PROVE DisabledOK'
<1> USE CredentialAssumption DEF Control, TypeOKK, Credential, AtOK, DisabledOK, Login,
      Fresh, memory, files, history, saves, locals, Goto, Done, Begin, Take, Leave
<1>1. ASSUME NEW w \in Workers, Request(w) PROVE DisabledOK'
  BY <1>1 DEF Request
<1>2. ASSUME NEW w \in Workers, Schedule(w) PROVE DisabledOK'
  BY <1>2 DEF Schedule
<1>3. ASSUME NEW w \in Workers, RefreshByHand(w) PROVE DisabledOK'
  BY <1>3 DEF RefreshByHand
<1>4. ASSUME NEW w \in Workers, Rename(w) PROVE DisabledOK'
  BY <1>4 DEF Rename
<1>5. ASSUME NEW w \in Workers, Delete(w) PROVE DisabledOK'
  BY <1>5 DEF Delete
<1>6. ASSUME NEW w \in Workers, Unlink(w) PROVE DisabledOK'
  BY <1>6 DEF Unlink
<1>7. ASSUME NEW w \in Workers, Fetch(w) PROVE DisabledOK'
  BY <1>7 DEF Fetch
<1>8. ASSUME NEW w \in Workers, Look(w) PROVE DisabledOK'
  BY <1>8 DEF Look
<1>9. ASSUME NEW w \in Workers, Check(w) PROVE DisabledOK'
  BY <1>9 DEF Check
<1>10. ASSUME NEW w \in Workers, Lock(w) PROVE DisabledOK'
  BY <1>10 DEF Lock
<1>11. ASSUME NEW w \in Workers, Exchanged(w) PROVE DisabledOK'
  BY <1>11 DEF Exchanged, Renewed, Accepts
<1>12. ASSUME NEW w \in Workers, Rejected(w) PROVE DisabledOK'
  <2>1. CASE job[w] \in {"request", "schedule", "refresh"}
    <3>1. at[w] \in Auths /\ InUse(at[w])
      BY <1>12, <2>1 DEF Rejected, AtOK, InUse, Holds, Loose
    <3>2. Login(at[w]) \in hurt
      BY <1>12, <3>1 DEF Rejected, Accepts, HasRefreshToken, Tokens, Accepted, Sound
    <3> QED
      BY <1>12, <3>2 DEF Rejected, Refused
  <2>2. CASE job[w] \notin {"request", "schedule", "refresh"}
    BY <1>12, <2>2 DEF Rejected, Refused
  <2> QED
    BY <2>1, <2>2
<1>13. ASSUME NEW w \in Workers, Unreached(w) PROVE DisabledOK'
  BY <1>13 DEF Unreached, Refused
<1>14. ASSUME NEW w \in Workers, AnswerLost(w) PROVE DisabledOK'
  BY <1>14 DEF AnswerLost, Refused, Accepts
<1>15. ASSUME NEW w \in Workers, Disable(w) PROVE DisabledOK'
  BY <1>15 DEF Disable
<1>16. ASSUME NEW w \in Workers, Write(w) PROVE DisabledOK'
  BY <1>16 DEF Write
<1>17. ASSUME NEW w \in Workers, WriteFails(w) PROVE DisabledOK'
  BY <1>17 DEF WriteFails, SaveFails, AfterSave
<1>18. ASSUME NEW w \in Workers, RenameTmp(w) PROVE DisabledOK'
  BY <1>18 DEF RenameTmp, AfterSave
<1>19. ASSUME NEW w \in Workers, RenameFails(w) PROVE DisabledOK'
  BY <1>19 DEF RenameFails, SaveFails, AfterSave
<1>20. ASSUME NEW w \in Workers, Add(w) PROVE DisabledOK'
  BY <1>20 DEF Add
<1>21. ASSUME NEW w \in Workers, Mark(w) PROVE DisabledOK'
  BY <1>21 DEF Mark
<1>22. ASSUME NEW w \in Workers, NEW a \in Auths, NEW l \in Logins, ImportLink(w, a, l)
      PROVE DisabledOK'
  BY <1>22 DEF ImportLink, Receive
<1>23. ASSUME NEW w \in Workers, NEW a \in Auths, NEW l \in Logins, ImportJSON(w, a, l)
      PROVE DisabledOK'
  BY <1>23 DEF ImportJSON, Receive
<1>24. ASSUME NEW w \in Workers, NEW a \in Auths, NEW l \in Logins, Callback(w, a, l)
      PROVE DisabledOK'
  BY <1>24 DEF Callback, Receive
<1>25. ASSUME NEW l \in Logins, LoginStart(l) PROVE DisabledOK'
  BY <1>25 DEF LoginStart
<1>26. ASSUME NEW l \in Logins, LoginGone(l) PROVE DisabledOK'
  BY <1>26 DEF LoginGone
<1>27. ASSUME NEW l \in Logins, Age(l) PROVE DisabledOK'
  BY <1>27 DEF Age
<1>28. ASSUME NEW l \in Logins, Revoke(l) PROVE DisabledOK'
  BY <1>28 DEF Revoke
<1>29. ASSUME NEW a \in Auths, Restart(a) PROVE DisabledOK'
  BY <1>29 DEF Restart, Unsaved
<1>30. CASE UNCHANGED cvars
  BY <1>30 DEF cvars
<1> QED
  BY <1>1, <1>2, <1>3, <1>4, <1>5, <1>6, <1>7, <1>8, <1>9, <1>10, <1>11, <1>12, <1>13,
     <1>14, <1>15, <1>16, <1>17, <1>18, <1>19, <1>20, <1>21, <1>22, <1>23, <1>24, <1>25,
        <1>26, <1>27, <1>28, <1>29, <1>30 DEF NextK, Start, Work

LEMMA OnlyDisable ==
  ASSUME [NextK]_cvars, disabled', ~disabled
  PROVE  \E w \in Workers : Disable(w)
<1> USE DEF memory
<1>1. ASSUME NEW w \in Workers, Start(w) PROVE FALSE
  BY <1>1 DEF Start, Request, Schedule, RefreshByHand, Rename, Delete, ImportLink,
     ImportJSON, Callback, Receive
<1>2. ASSUME NEW w \in Workers, Work(w), ~Disable(w) PROVE FALSE
  BY <1>2 DEF Work, Unlink, Fetch, Look, Check, Lock, Exchanged, Rejected, Unreached,
     AnswerLost, Write, WriteFails, SaveFails, RenameTmp, RenameFails, Add, Mark
<1>3. ASSUME NEW l \in Logins, LoginStart(l) \/ LoginGone(l) \/ Age(l) \/ Revoke(l)
      PROVE FALSE
  BY <1>3 DEF LoginStart, LoginGone, Age, Revoke
<1>4. ASSUME NEW a \in Auths, Restart(a) PROVE FALSE
  BY <1>4 DEF Restart
<1>5. CASE UNCHANGED cvars
  BY <1>5 DEF cvars
<1> QED BY <1>1, <1>2, <1>3, <1>4, <1>5 DEF NextK

LEMMA DeleteStep ==
  ASSUME Control, DeleteOK, [NextK]_cvars PROVE DeleteOK'
<1> USE CredentialAssumption DEF Control, TypeOKK, AtOK, JobsOK, DeleteOK, memory, files,
   history, saves, locals, Goto, Done, Begin, Take, Leave
<1>1. ASSUME NEW w \in Workers, Request(w) PROVE DeleteOK'
  BY <1>1 DEF Request
<1>2. ASSUME NEW w \in Workers, Schedule(w) PROVE DeleteOK'
  BY <1>2 DEF Schedule
<1>3. ASSUME NEW w \in Workers, RefreshByHand(w) PROVE DeleteOK'
  BY <1>3 DEF RefreshByHand
<1>4. ASSUME NEW w \in Workers, Rename(w) PROVE DeleteOK'
  BY <1>4 DEF Rename
<1>5. ASSUME NEW w \in Workers, Delete(w) PROVE DeleteOK'
  BY <1>5 DEF Delete
<1>6. ASSUME NEW w \in Workers, Unlink(w) PROVE DeleteOK'
  BY <1>6 DEF Unlink
<1>7. ASSUME NEW w \in Workers, Fetch(w) PROVE DeleteOK'
  BY <1>7 DEF Fetch
<1>8. ASSUME NEW w \in Workers, Look(w) PROVE DeleteOK'
  BY <1>8 DEF Look
<1>9. ASSUME NEW w \in Workers, Check(w) PROVE DeleteOK'
  BY <1>9 DEF Check
<1>10. ASSUME NEW w \in Workers, Lock(w) PROVE DeleteOK'
  BY <1>10 DEF Lock
<1>11. ASSUME NEW w \in Workers, Exchanged(w) PROVE DeleteOK'
  BY <1>11 DEF Exchanged, Renewed, Accepts
<1>12. ASSUME NEW w \in Workers, Rejected(w) PROVE DeleteOK'
  BY <1>12 DEF Rejected, Refused
<1>13. ASSUME NEW w \in Workers, Unreached(w) PROVE DeleteOK'
  BY <1>13 DEF Unreached, Refused
<1>14. ASSUME NEW w \in Workers, AnswerLost(w) PROVE DeleteOK'
  BY <1>14 DEF AnswerLost, Refused, Accepts
<1>15. ASSUME NEW w \in Workers, Disable(w) PROVE DeleteOK'
  BY <1>15 DEF Disable
<1>16. ASSUME NEW w \in Workers, Write(w) PROVE DeleteOK'
  BY <1>16 DEF Write
<1>17. ASSUME NEW w \in Workers, WriteFails(w) PROVE DeleteOK'
  BY <1>17 DEF WriteFails, SaveFails, AfterSave
<1>18. ASSUME NEW w \in Workers, RenameTmp(w) PROVE DeleteOK'
  BY <1>18 DEF RenameTmp, AfterSave
<1>19. ASSUME NEW w \in Workers, RenameFails(w) PROVE DeleteOK'
  BY <1>19 DEF RenameFails, SaveFails, AfterSave
<1>20. ASSUME NEW w \in Workers, Add(w) PROVE DeleteOK'
  BY <1>20 DEF Add
<1>21. ASSUME NEW w \in Workers, Mark(w) PROVE DeleteOK'
  BY <1>21 DEF Mark
<1>22. ASSUME NEW w \in Workers, NEW a \in Auths, NEW l \in Logins, ImportLink(w, a, l)
      PROVE DeleteOK'
  BY <1>22 DEF ImportLink, Receive
<1>23. ASSUME NEW w \in Workers, NEW a \in Auths, NEW l \in Logins, ImportJSON(w, a, l)
      PROVE DeleteOK'
  BY <1>23 DEF ImportJSON, Receive
<1>24. ASSUME NEW w \in Workers, NEW a \in Auths, NEW l \in Logins, Callback(w, a, l)
      PROVE DeleteOK'
  BY <1>24 DEF Callback, Receive
<1>25. ASSUME NEW l \in Logins, LoginStart(l) PROVE DeleteOK'
  BY <1>25 DEF LoginStart
<1>26. ASSUME NEW l \in Logins, LoginGone(l) PROVE DeleteOK'
  BY <1>26 DEF LoginGone
<1>27. ASSUME NEW l \in Logins, Age(l) PROVE DeleteOK'
  BY <1>27 DEF Age
<1>28. ASSUME NEW l \in Logins, Revoke(l) PROVE DeleteOK'
  BY <1>28 DEF Revoke
<1>29. ASSUME NEW a \in Auths, Restart(a) PROVE DeleteOK'
  BY <1>29 DEF Restart, Unsaved
<1>30. CASE UNCHANGED cvars
  BY <1>30 DEF cvars
<1> QED
  BY <1>1, <1>2, <1>3, <1>4, <1>5, <1>6, <1>7, <1>8, <1>9, <1>10, <1>11, <1>12, <1>13,
     <1>14, <1>15, <1>16, <1>17, <1>18, <1>19, <1>20, <1>21, <1>22, <1>23, <1>24, <1>25,
        <1>26, <1>27, <1>28, <1>29, <1>30 DEF NextK, Start, Work

LEMMA PageStep ==
  ASSUME Control, PageOK, [NextK]_cvars PROVE PageOK'
<1> USE CredentialAssumption DEF Control, TypeOKK, Credential, AtOK, PageOK,
      ReportedSuccessIsStored, Login, memory, files, history, saves, locals, Goto, Done, Begin,
         Take, Leave
<1>1. ASSUME NEW w \in Workers, Request(w) PROVE PageOK'
  BY <1>1 DEF Request
<1>2. ASSUME NEW w \in Workers, Schedule(w) PROVE PageOK'
  BY <1>2 DEF Schedule
<1>3. ASSUME NEW w \in Workers, RefreshByHand(w) PROVE PageOK'
  BY <1>3 DEF RefreshByHand
<1>4. ASSUME NEW w \in Workers, Rename(w) PROVE PageOK'
  BY <1>4 DEF Rename
<1>5. ASSUME NEW w \in Workers, Delete(w) PROVE PageOK'
  BY <1>5 DEF Delete
<1>6. ASSUME NEW w \in Workers, Unlink(w) PROVE PageOK'
  BY <1>6 DEF Unlink
<1>7. ASSUME NEW w \in Workers, Fetch(w) PROVE PageOK'
  BY <1>7 DEF Fetch
<1>8. ASSUME NEW w \in Workers, Look(w) PROVE PageOK'
  BY <1>8 DEF Look
<1>9. ASSUME NEW w \in Workers, Check(w) PROVE PageOK'
  BY <1>9 DEF Check
<1>10. ASSUME NEW w \in Workers, Lock(w) PROVE PageOK'
  BY <1>10 DEF Lock
<1>11. ASSUME NEW w \in Workers, Exchanged(w) PROVE PageOK'
  BY <1>11 DEF Exchanged, Renewed, Accepts
<1>12. ASSUME NEW w \in Workers, Rejected(w) PROVE PageOK'
  BY <1>12 DEF Rejected, Refused
<1>13. ASSUME NEW w \in Workers, Unreached(w) PROVE PageOK'
  BY <1>13 DEF Unreached, Refused
<1>14. ASSUME NEW w \in Workers, AnswerLost(w) PROVE PageOK'
  BY <1>14 DEF AnswerLost, Refused, Accepts
<1>15. ASSUME NEW w \in Workers, Disable(w) PROVE PageOK'
  BY <1>15 DEF Disable
<1>16. ASSUME NEW w \in Workers, Write(w) PROVE PageOK'
  BY <1>16 DEF Write
<1>17. ASSUME NEW w \in Workers, WriteFails(w) PROVE PageOK'
  BY <1>17 DEF WriteFails, SaveFails, AfterSave
<1>18. ASSUME NEW w \in Workers, RenameTmp(w) PROVE PageOK'
  BY <1>18 DEF RenameTmp, AfterSave
<1>19. ASSUME NEW w \in Workers, RenameFails(w) PROVE PageOK'
  BY <1>19 DEF RenameFails, SaveFails, AfterSave
<1>20. ASSUME NEW w \in Workers, Add(w) PROVE PageOK'
  BY <1>20 DEF Add
<1>21. ASSUME NEW w \in Workers, Mark(w) PROVE PageOK'
  BY <1>21 DEF Mark
<1>22. ASSUME NEW w \in Workers, NEW a \in Auths, NEW l \in Logins, ImportLink(w, a, l)
      PROVE PageOK'
  <2>1. \A v \in Workers : pc'[v] \in {"rename", "add", "succeed"} =>
          pc'[v] = pc[v] /\ at'[v] = at[v] /\ at[v] \in Auths /\ at[v] # a
    BY <1>22 DEF ImportLink, Receive, Fresh
  <2>2. UNCHANGED <<tmp, pending, stored, overwritten>> /\ \A b \in Auths \ {a} : auth'[b] = auth[b]
    BY <1>22 DEF ImportLink, Receive
  <2> QED
    BY <2>1, <2>2
<1>23. ASSUME NEW w \in Workers, NEW a \in Auths, NEW l \in Logins, ImportJSON(w, a, l)
      PROVE PageOK'
  <2>1. \A v \in Workers : pc'[v] \in {"rename", "add", "succeed"} =>
          pc'[v] = pc[v] /\ at'[v] = at[v] /\ at[v] \in Auths /\ at[v] # a
    BY <1>23 DEF ImportJSON, Receive, Fresh
  <2>2. UNCHANGED <<tmp, pending, stored, overwritten>> /\ \A b \in Auths \ {a} : auth'[b] = auth[b]
    BY <1>23 DEF ImportJSON, Receive
  <2> QED
    BY <2>1, <2>2
<1>24. ASSUME NEW w \in Workers, NEW a \in Auths, NEW l \in Logins, Callback(w, a, l)
      PROVE PageOK'
  <2>1. \A v \in Workers : pc'[v] \in {"rename", "add", "succeed"} =>
          pc'[v] = pc[v] /\ at'[v] = at[v] /\ at[v] \in Auths /\ at[v] # a
    BY <1>24 DEF Callback, Receive, Fresh
  <2>2. UNCHANGED <<tmp, pending, stored, overwritten>> /\ \A b \in Auths \ {a} : auth'[b] = auth[b]
    BY <1>24 DEF Callback, Receive
  <2> QED
    BY <2>1, <2>2
<1>25. ASSUME NEW l \in Logins, LoginStart(l) PROVE PageOK'
  BY <1>25 DEF LoginStart
<1>26. ASSUME NEW l \in Logins, LoginGone(l) PROVE PageOK'
  BY <1>26 DEF LoginGone
<1>27. ASSUME NEW l \in Logins, Age(l) PROVE PageOK'
  BY <1>27 DEF Age
<1>28. ASSUME NEW l \in Logins, Revoke(l) PROVE PageOK'
  BY <1>28 DEF Revoke
<1>29. ASSUME NEW a \in Auths, Restart(a) PROVE PageOK'
  BY <1>29 DEF Restart, Unsaved
<1>30. CASE UNCHANGED cvars
  BY <1>30 DEF cvars
<1> QED
  BY <1>1, <1>2, <1>3, <1>4, <1>5, <1>6, <1>7, <1>8, <1>9, <1>10, <1>11, <1>12, <1>13,
     <1>14, <1>15, <1>16, <1>17, <1>18, <1>19, <1>20, <1>21, <1>22, <1>23, <1>24, <1>25,
        <1>26, <1>27, <1>28, <1>29, <1>30 DEF NextK, Start, Work
-----------------------------------------------------------------------------
LEMMA InitCred == InitK => CredInv
<1> SUFFICES ASSUME InitK PROVE CredInv
  OBVIOUS
<1> USE CredentialAssumption DEF InitK
<1>1. auth \in [Auths -> Credential]
  BY DEF Credential
<1>2. Control
  BY <1>1 DEF Control, TypeOKK, Points, Jobs, AtOK, JobsOK, LooseOK, Loose
<1>3. Tokens
  BY DEF Tokens, Accepted, Unique, Ungiven, FileOK, TmpOK, InUse, Holds
<1>4. DisabledOK /\ DeleteOK /\ PageOK
  BY DEF DisabledOK, DeleteOK, PageOK, ReportedSuccessIsStored
<1> QED BY <1>2, <1>3, <1>4 DEF CredInv

LEMMA StepCred == CredInv /\ [NextK]_cvars => CredInv'
<1> SUFFICES ASSUME CredInv, [NextK]_cvars PROVE CredInv'
  OBVIOUS
<1>1. Control'
  BY TypesStep, AtStep, JobsStep, LooseStep DEF CredInv, Control
<1>2. Tokens'
  BY <1>1, TokensStep DEF CredInv
<1>3. DisabledOK' /\ DeleteOK' /\ PageOK'
  BY DisabledStep, DeleteStep, PageStep DEF CredInv
<1> QED BY <1>1, <1>2, <1>3 DEF CredInv

LEMMA CredInvariant == SpecK => []CredInv
BY InitCred, StepCred, PTL DEF SpecK

\* Types of the credentials and of everybody who moves them.
THEOREM CredentialTypes == SpecK => []TypeOKK
<1>1. CredInv => TypeOKK
  BY DEF CredInv, Control
<1> QED BY <1>1, CredInvariant, PTL

\* However many goroutines refresh, import, log in and delete at once, it takes the
\* rejection of a login that something outside has hurt to disable the account.
THEOREM OverlapsKillNothing == SpecK => NoOverlapKills
<1>1. CredInv /\ [NextK]_cvars =>
        [disabled' /\ ~disabled =>
           \E w \in Workers : pc[w] = "disable" /\ Login(at[w]) \in hurt]_cvars
  BY OnlyDisable DEF CredInv, DisabledOK, Disable
<1> QED BY <1>1, CredInvariant, PTL DEF SpecK, NoOverlapKills

\* The file of a login that nothing hurt can be refreshed from after a restart,
\* although Auths of several logins share it and its temporary file.
THEOREM FileStaysGood == SpecK => []RestartCanRefresh
<1>1. CredInv => RestartCanRefresh
  BY DEF CredInv, Tokens, FileOK, RestartCanRefresh
<1> QED BY <1>1, CredInvariant, PTL

\* A delete that met nobody at work, and could remove the file, is final.
THEOREM DeletedStaysDeleted == SpecK => []NoOrphanFile
<1>1. CredInv => NoOrphanFile
  BY DEF CredInv, DeleteOK, NoOrphanFile
<1> QED BY <1>1, CredInvariant, PTL

\* Whichever callback comes when, a login that is reported as a success was put
\* into the file by a rename, or its temporary file was written over by another
\* save of the account.
THEOREM SuccessIsStored == SpecK => []ReportedSuccessIsStored
<1>1. CredInv => ReportedSuccessIsStored
  BY DEF CredInv, PageOK
<1> QED BY <1>1, CredInvariant, PTL
=============================================================================
