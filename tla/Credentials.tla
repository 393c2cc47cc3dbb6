----------------------------- MODULE Credentials -----------------------------
(***************************************************************************)
(* The credential of one account: the Auth in memory (internal/auth), its  *)
(* file, the refresh token that upstream accepts, and everybody who moves  *)
(* them: requests and the scheduler that refresh, the console that         *)
(* imports, deletes, renames and refreshes by hand, and the login page     *)
(* with its callback (internal/server/login.go, accounts.go).              *)
(*                                                                         *)
(* A login is one authorization by the user: upstream hands out a refresh  *)
(* token and replaces it at every exchange, so a credential is a login and *)
(* the number of its token.  Each Auth has its own lock; the file and its  *)
(* ".tmp" belong to the account, so that two Auths of it share them.  A    *)
(* worker is a goroutine; a step is a critical section of a lock, one file *)
(* operation, or the upstream call made under the lock of the Auth.        *)
(***************************************************************************)
EXTENDS Integers

CONSTANTS
  Auths,      \* *Auth values that may exist at a time
  NoAuth,
  Logins,
  Source,     \* what the user brings: a callback link with a refresh token,
              \* one with an access token only, or a JSON document
  Workers, NoWorker,
  NoFile,
  MaxToken    \* bound on the exchanges of a login

ASSUME CredentialAssumption ==
  /\ NoAuth \notin Auths /\ NoWorker \notin Workers
  /\ Source \in [Logins -> {"link", "jwt", "json"}]
  /\ MaxToken \in Nat
  /\ NoFile \notin [login: Logins, token: Nat]

VARIABLES
  auth,      \* the credential in each Auth
  lock,      \* Auth.mu
  pool,      \* the Auth of the pool's entry; NoAuth: there is no entry
  disabled,  \* entry.disabled
  file, tmp, \* trae-<uid>.json and its temporary file
  live,      \* upstream: the token of a login that it accepts
  due,       \* the logins whose access token is about to expire
  pc, job, at,  \* of each worker: where it is, what it does, on which Auth
  pending,   \* the login page's state of a login
  given,     \* JSON documents imported
  hurt,      \* history: logins that lost a token on the way
  stored,    \* history: logins that a rename put into the file
  overwritten, \* history: logins whose temporary file another save wrote over
  overlap    \* history: the latest delete met a worker at work, or failed

locals == <<pc, job, at>>
memory == <<auth, lock, pool, disabled>>
files == <<file, tmp>>
saves == <<stored, overwritten>>
history == <<given, hurt, saves, overlap>>
cvars == <<memory, files, live, due, locals, pending, history>>

Credential == [login: Logins, token: Nat]

Points == {"idle", "listed", "look", "check", "lock", "exchange", "save",
           "rename", "add", "disable", "succeed", "fail", "unlink"}

Jobs == {"request", "schedule", "refresh", "nickname", "import", "callback",
         "delete"}

TypeOKK ==
  /\ auth \in [Auths -> Credential]
  /\ lock \in [Auths -> Workers \cup {NoWorker}]
  /\ pool \in Auths \cup {NoAuth} /\ disabled \in BOOLEAN
  /\ file \in Credential \cup {NoFile} /\ tmp \in Credential \cup {NoFile}
  /\ live \in [Logins -> Nat] /\ due \subseteq Logins
  /\ pc \in [Workers -> Points] /\ job \in [Workers -> Jobs]
  /\ at \in [Workers -> Auths \cup {NoAuth}]
  /\ pending \in [Logins -> {"none", "pending", "success", "failed"}]
  /\ given \subseteq Logins /\ hurt \subseteq Logins /\ stored \subseteq Logins
  /\ overwritten \subseteq Logins
  /\ overlap \in BOOLEAN

InitK ==
  /\ auth \in [Auths -> {[login |-> l, token |-> 0] : l \in Logins}]
  /\ \A a, b \in Auths : auth[a] = auth[b]
  /\ lock = [a \in Auths |-> NoWorker]
  /\ pool = NoAuth /\ disabled = FALSE
  /\ file = NoFile /\ tmp = NoFile
  /\ live = [l \in Logins |-> 0] /\ due = {}
  /\ pc = [w \in Workers |-> "idle"]
  /\ job = [w \in Workers |-> "request"]
  /\ at = [w \in Workers |-> NoAuth]
  /\ pending = [l \in Logins |-> "none"]
  /\ given = {} /\ hurt = {} /\ stored = {} /\ overwritten = {}
  /\ overlap = FALSE

Login(a) == auth[a].login
HasRefreshToken(a) == Source[Login(a)] # "jwt"
NeedsRefresh(a) == Login(a) \in due

\* An Auth nobody refers to.
Fresh(a) == a # pool /\ \A w \in Workers : at[w] # a

Goto(w, point) == pc' = [pc EXCEPT ![w] = point] /\ UNCHANGED <<job, at>>

\* The call returns, and lets go of the Auth.
Done(w) ==
  /\ pc' = [pc EXCEPT ![w] = "idle"]
  /\ at' = [at EXCEPT ![w] = NoAuth]
  /\ job' = [job EXCEPT ![w] = "request"]

Begin(w, kind, point, a) ==
  /\ pc[w] = "idle"
  /\ pc' = [pc EXCEPT ![w] = point]
  /\ job' = [job EXCEPT ![w] = kind]
  /\ at' = [at EXCEPT ![w] = a]

Take(w, a) == lock[a] = NoWorker /\ lock' = [lock EXCEPT ![a] = w]
Leave(a) == lock' = [lock EXCEPT ![a] = NoWorker]

-----------------------------------------------------------------------------
(* The calls *)

\* A pick hands the handler the Auth of an account that is not disabled.
Request(w) ==
  /\ pool # NoAuth /\ ~disabled
  /\ Begin(w, "request", "check", pool)
  /\ UNCHANGED <<memory, files, live, due, pending, history>>

\* RunRefreshNow lists the accounts first and asks for the Auth afterwards.
Schedule(w) ==
  /\ pool # NoAuth /\ ~disabled
  /\ \A v \in Workers : job[v] = "schedule" => pc[v] = "idle"
  /\ Begin(w, "schedule", "listed", NoAuth)
  /\ UNCHANGED <<memory, files, live, due, pending, history>>

\* adminRefreshAccount
RefreshByHand(w) ==
  /\ pool # NoAuth
  /\ Begin(w, "refresh", "lock", pool)
  /\ UNCHANGED <<memory, files, live, due, pending, history>>

\* adminPatchAccount with a nickname: the credential is saved as it is.
Rename(w) ==
  /\ pool # NoAuth
  /\ Begin(w, "nickname", "save", pool)
  /\ UNCHANGED <<memory, files, live, due, pending, history>>

\* ParseCallback: with a refresh token the token is exchanged, else the access
\* token is all there is.  The Auth is the worker's own.
Receive(w, kind, a, l) ==
  /\ Fresh(a)
  /\ auth' = [auth EXCEPT ![a] = [login |-> l, token |-> 0]]
  /\ IF Source[l] = "link"
       THEN Begin(w, kind, "exchange", a) /\ Take(w, a)
       ELSE Begin(w, kind, "save", a) /\ UNCHANGED lock
  /\ UNCHANGED <<pool, disabled, files, live, due, pending, hurt, saves, overlap>>

\* importFromCallback
ImportLink(w, a, l) ==
  /\ Source[l] # "json"
  /\ Receive(w, "import", a, l) /\ UNCHANGED given

\* importFromJSON: the credential is complete.  A document is imported once.
ImportJSON(w, a, l) ==
  /\ Source[l] = "json" /\ l \notin given
  /\ Receive(w, "import", a, l) /\ given' = given \cup {l}

\* authorizeCallback: a link may come twice, and after its login was cancelled.
Callback(w, a, l) ==
  /\ Source[l] # "json"
  /\ Receive(w, "callback", a, l) /\ UNCHANGED given

\* adminDeleteAccount: first the entry, then the file; without an entry a file
\* that was left behind.
Delete(w) ==
  /\ Begin(w, "delete", "unlink", NoAuth)
  /\ pool' = NoAuth /\ disabled' = FALSE
  /\ overlap' = \E v \in Workers : pc[v] # "idle"
  /\ UNCHANGED <<auth, lock, files, live, due, pending, given, hurt, saves>>

\* Mutant of Unlink: only the entry is deleted.
UnlinkForgotten(w) ==
  /\ pc[w] = "unlink" /\ Done(w)
  /\ UNCHANGED <<memory, files, live, due, pending, history>>

Unlink(w) ==
  /\ pc[w] = "unlink" /\ Done(w)
  /\ \/ file' = NoFile /\ UNCHANGED overlap
     \/ overlap' = TRUE /\ UNCHANGED file
  /\ UNCHANGED <<memory, tmp, live, due, pending, given, hurt, saves>>

-----------------------------------------------------------------------------
(* Refreshing *)

\* RunRefreshNow: the entry may be gone by now.
Fetch(w) ==
  /\ pc[w] = "listed"
  /\ IF pool = NoAuth
       THEN Done(w)
       ELSE /\ pc' = [pc EXCEPT ![w] = "look"]
            /\ at' = [at EXCEPT ![w] = pool] /\ UNCHANGED job
  /\ UNCHANGED <<memory, files, live, due, pending, history>>

\* Two reads under the read lock; the exchange does not repeat them.
Look(w) ==
  /\ pc[w] = "look" /\ lock[at[w]] = NoWorker
  /\ IF HasRefreshToken(at[w]) /\ NeedsRefresh(at[w])
       THEN Goto(w, "lock") ELSE Done(w)
  /\ UNCHANGED <<memory, files, live, due, pending, history>>

\* RefreshTokenIfNeeded looks under the lock.
Check(w) ==
  /\ pc[w] = "check" /\ lock[at[w]] = NoWorker
  /\ IF NeedsRefresh(at[w])
       THEN Goto(w, "exchange") /\ Take(w, at[w])
       ELSE Done(w) /\ UNCHANGED lock
  /\ UNCHANGED <<auth, pool, disabled, files, live, due, pending, history>>

\* RefreshToken
Lock(w) ==
  /\ pc[w] = "lock" /\ Take(w, at[w]) /\ Goto(w, "exchange")
  /\ UNCHANGED <<auth, pool, disabled, files, live, due, pending, history>>

\* Mutant of Refused: whoever is refused disables the account.
RefusedAny(w, dead) ==
  CASE dead -> Goto(w, "disable")
    [] job[w] = "callback" /\ ~dead -> Goto(w, "fail")
    [] OTHER -> Done(w)

\* What follows a failed exchange: a dead session disables the account, unless
\* the credential is not yet in the pool.
Refused(w, dead) ==
  CASE job[w] = "callback" -> Goto(w, "fail")
    [] job[w] \in {"request", "schedule", "refresh"} /\ dead -> Goto(w, "disable")
    [] OTHER -> Done(w)

Accepts(a) == HasRefreshToken(a) /\ auth[a].token = live[Login(a)]

\* Mutant of Renewed: a request goes on without saving.
RenewedUnsaved(w) == IF job[w] = "request" THEN Done(w) ELSE Goto(w, "save")

\* The caller saves.  Without a uid, from the link or from GetUserInfo, the
\* credential is dropped.
Renewed(w) ==
  \/ Goto(w, "save")
  \/ job[w] = "import" /\ Done(w)
  \/ job[w] = "callback" /\ Goto(w, "fail")

\* Upstream replaces the token ("rotated at every ExchangeToken", auth.go:27).
Exchanged(w) ==
  /\ pc[w] = "exchange" /\ Accepts(at[w])
  /\ live[Login(at[w])] < MaxToken
  /\ live' = [live EXCEPT ![Login(at[w])] = @ + 1]
  /\ auth' = [auth EXCEPT ![at[w]].token = @ + 1]
  /\ due' = due \ {Login(at[w])}
  /\ Leave(at[w])
  /\ Renewed(w)
  /\ UNCHANGED <<pool, disabled, files, pending, history>>

\* The token is not the one upstream accepts.
Rejected(w) ==
  /\ pc[w] = "exchange" /\ HasRefreshToken(at[w]) /\ ~Accepts(at[w])
  /\ Leave(at[w]) /\ Refused(w, TRUE)
  /\ UNCHANGED <<auth, pool, disabled, files, live, due, pending, history>>

\* The request does not get through, or there is no refresh token to send.
Unreached(w) ==
  /\ pc[w] = "exchange"
  /\ Leave(at[w]) /\ Refused(w, FALSE)
  /\ UNCHANGED <<auth, pool, disabled, files, live, due, pending, history>>

\* Upstream replaced the token and its answer is lost.
AnswerLost(w) ==
  /\ pc[w] = "exchange" /\ Accepts(at[w])
  /\ live[Login(at[w])] < MaxToken
  /\ live' = [live EXCEPT ![Login(at[w])] = @ + 1]
  /\ hurt' = hurt \cup {Login(at[w])}
  /\ Leave(at[w]) /\ Refused(w, FALSE)
  /\ UNCHANGED <<auth, pool, disabled, files, due, pending, given, saves, overlap>>

\* The pool disables the account by its uid, whatever its Auth is by now.
Disable(w) ==
  /\ pc[w] = "disable" /\ Done(w)
  /\ disabled' = (pool # NoAuth)
  /\ UNCHANGED <<auth, lock, pool, files, live, due, pending, history>>

-----------------------------------------------------------------------------
(* SaveAtomic, in a critical section after that of the exchange *)

\* Mutant of AfterSave: a login is a success also when it could not be stored.
AfterSaveBlind(w, ok) ==
  CASE job[w] \in {"import", "callback"} /\ ok -> Goto(w, "add")
    [] job[w] = "callback" /\ ~ok -> Goto(w, "succeed")
    [] OTHER -> Done(w)

AfterSave(w, ok) ==
  CASE job[w] \in {"import", "callback"} /\ ok -> Goto(w, "add")
    [] job[w] = "callback" /\ ~ok -> Goto(w, "fail")
    [] OTHER -> Done(w)

\* Requests and the scheduler ignore that a save failed.
SaveFails(w) ==
  /\ hurt' = hurt \cup {Login(at[w])}
  /\ Leave(at[w]) /\ AfterSave(w, FALSE)
  /\ UNCHANGED <<auth, pool, disabled, files, live, due, pending, given, saves,
                 overlap>>

Write(w) ==
  /\ pc[w] = "save" /\ Take(w, at[w]) /\ Goto(w, "rename")
  /\ tmp' = auth[at[w]]
  /\ overwritten' = overwritten \cup {Login(at[v]) : v \in {u \in Workers : pc[u] = "rename"}}
  /\ UNCHANGED <<auth, pool, disabled, file, live, due, pending, given, hurt, stored,
                 overlap>>

WriteFails(w) == pc[w] = "save" /\ lock[at[w]] = NoWorker /\ SaveFails(w)

\* Another Auth of the account may have written or taken away the temporary file.
RenameTmp(w) ==
  /\ pc[w] = "rename" /\ tmp # NoFile
  /\ file' = tmp /\ tmp' = NoFile /\ stored' = stored \cup {tmp.login}
  /\ Leave(at[w]) /\ AfterSave(w, TRUE)
  /\ UNCHANGED <<auth, pool, disabled, live, due, pending, given, hurt, overwritten,
                 overlap>>

RenameFails(w) == pc[w] = "rename" /\ SaveFails(w)

\* Pool.Add replaces the Auth of an entry and nothing else.
Add(w) ==
  /\ pc[w] = "add"
  /\ pool' = at[w]
  /\ disabled' = (pool # NoAuth /\ disabled)
  /\ IF job[w] = "callback" THEN Goto(w, "succeed") ELSE Done(w)
  /\ UNCHANGED <<auth, lock, files, live, due, pending, history>>

-----------------------------------------------------------------------------
(* The login page *)

\* adminLoginStart; a link belongs to at most one pending login.
LoginStart(l) ==
  /\ Source[l] # "json" /\ pending[l] = "none"
  /\ pending' = [pending EXCEPT ![l] = "pending"]
  /\ UNCHANGED <<memory, files, live, due, locals, history>>

\* adminLoginCancel, and getPending of one that is older than ten minutes.
LoginGone(l) ==
  /\ pending[l] # "none"
  /\ pending' = [pending EXCEPT ![l] = "none"]
  /\ UNCHANGED <<memory, files, live, due, locals, history>>

\* markPendingByMachine: the callback finds its login by the device pair, if it
\* is still there, and sets its state whatever it was.
Mark(w) ==
  /\ pc[w] \in {"succeed", "fail"} /\ Done(w)
  /\ LET l == Login(at[w])
     IN  pending' = [pending EXCEPT ![l] =
           IF @ = "none" THEN @ ELSE IF pc[w] = "succeed" THEN "success" ELSE "failed"]
  /\ UNCHANGED <<memory, files, live, due, history>>

-----------------------------------------------------------------------------
(* The environment *)

\* Access tokens grow old.
Age(l) ==
  /\ due' = due \cup {l}
  /\ UNCHANGED <<memory, files, live, locals, pending, history>>

\* Upstream ends a session.
Revoke(l) ==
  /\ live[l] < MaxToken
  /\ live' = [live EXCEPT ![l] = @ + 1]
  /\ hurt' = hurt \cup {l}
  /\ UNCHANGED <<memory, files, due, locals, pending, given, saves, overlap>>

Unsaved(w) == pc[w] \in {"save", "rename"}

\* The process stops and starts again: LoadDir reads the files, Pool.New and
\* SyncToDir make the entry.
Restart(a) ==
  /\ hurt' = hurt \cup {Login(at[w]) : w \in {v \in Workers : Unsaved(v)}}
  /\ pc' = [w \in Workers |-> "idle"] /\ at' = [w \in Workers |-> NoAuth]
  /\ job' = [w \in Workers |-> "request"]
  /\ lock' = [b \in Auths |-> NoWorker]
  /\ IF file = NoFile
       THEN pool' = NoAuth /\ UNCHANGED auth
       ELSE pool' = a /\ auth' = [auth EXCEPT ![a] = file]
  /\ disabled' = (disabled /\ pool # NoAuth /\ file # NoFile)
  /\ pending' = [l \in Logins |-> "none"]
  /\ UNCHANGED <<files, live, due, given, saves, overlap>>

-----------------------------------------------------------------------------
Start(w) ==
  \/ Request(w) \/ Schedule(w) \/ RefreshByHand(w) \/ Rename(w) \/ Delete(w)
  \/ \E a \in Auths, l \in Logins :
       ImportLink(w, a, l) \/ ImportJSON(w, a, l) \/ Callback(w, a, l)

Work(w) ==
  \/ Unlink(w) \/ Fetch(w) \/ Look(w) \/ Check(w) \/ Lock(w)
  \/ Exchanged(w) \/ Rejected(w) \/ Unreached(w) \/ AnswerLost(w) \/ Disable(w)
  \/ Write(w) \/ WriteFails(w) \/ RenameTmp(w) \/ RenameFails(w) \/ Add(w) \/ Mark(w)

NextK ==
  \/ \E w \in Workers : Start(w) \/ Work(w)
  \/ \E l \in Logins : LoginStart(l) \/ LoginGone(l) \/ Age(l) \/ Revoke(l)
  \/ \E a \in Auths : Restart(a)

SpecK == InitK /\ [][NextK]_cvars

-----------------------------------------------------------------------------
(* Properties *)

\* However requests, the scheduler, the console and the login page overlap,
\* none of them spends a token that another one needs, and no link that comes
\* twice harms the account: the rejection that disables it is of a login that
\* upstream's lost answer, a failed save, a stop before a save or the end of its
\* session had hurt ("a failure leaves the fields, so that the old token can be
\* tried again", client.go:228).  The pool goes by the uid, so that this may be
\* the login of an Auth that is no longer the pool's: only such a late rejection
\* disables an account whose present login is good.
NoOverlapKills ==
  [][disabled' /\ ~disabled =>
       \E w \in Workers : pc[w] = "disable" /\ Login(at[w]) \in hurt]_cvars

\* What a restart finds can still be refreshed: the token in the file is the one
\* upstream accepts, or its successor is about to be saved (RefreshToken "the
\* caller saves", SaveAtomic).
Backed(c) ==
  \/ c.login \in hurt \/ Source[c.login] = "jwt"
  \/ c.token = live[c.login]
  \/ \E w \in Workers : Unsaved(w) /\ job[w] # "nickname" /\ Login(at[w]) = c.login

RestartCanRefresh == file # NoFile => Backed(file)

\* A deleted account does not come back at the next start: no file is left
\* without an entry, unless a save was under way during the delete.
NoOrphanFile ==
  pool = NoAuth /\ file # NoFile /\ ~overlap => \E w \in Workers : pc[w] # "idle"

\* The login page reports a success only of a login that a rename has put into
\* the file ("captured and stored", login.go:28), unless another save of the
\* account wrote the temporary file, which they share, before the rename: then
\* the rename may have stored the other login, and both Auths call it a success.
ReportedSuccessIsStored ==
  \A l \in Logins : pending[l] = "success" => l \in stored \cup overwritten
=============================================================================
