---------------------------- MODULE ChatRotation ----------------------------
(***************************************************************************)
(* The /v1/chat/completions handler (internal/server/handler.go) rotating  *)
(* over the accounts of the pool: the dev/max loop of chatCompletions, the *)
(* work loop of executeWorkRequest it falls back to, the handling of       *)
(* errors inside a stream, and the goroutine that probes the work balance. *)
(*                                                                         *)
(* One client is one request at a time.  A step is one critical section of *)
(* the pool's mutex together with the local work up to the next one; two   *)
(* sections are one step only where no other call can tell (NoteSuccess    *)
(* with RecordSuccess, Acquire with AccountMaxEntitled, which read and     *)
(* write different fields).  A call upstream lies between two steps, and   *)
(* its answer is any member of Answers.  Meanwhile other requests, the     *)
(* hourly probe and the console change the pool.  Requests refused before  *)
(* the loop (bad body, unknown model) do not touch the pool and are left   *)
(* out, and so is the persistence of a refreshed token.                    *)
(***************************************************************************)
EXTENDS Pool

CONSTANTS
  MaxRotate,    \* HandlerConfig.MaxRotate (3)
  WorkEnabled,  \* TW2A_WORK_MODE is not "disabled"
  Sessions,     \* session keys
  NoSession,    \* the request has none
  NoModel,      \* the model of a client without a request
  Requests,     \* the requests clients send
  Answers       \* what upstream may do

\* Two accounts that tie are ordered by uid; a uid is its place in that order.
ASSUME RotationAssumption ==
  /\ Uids \subseteq Nat /\ IsFiniteSet(Uids)
  /\ MaxRotate \in Nat \ {0}
  /\ WorkEnabled \in BOOLEAN
  /\ NoSession \notin Sessions
  /\ Requests \subseteq [session: Sessions \cup {NoSession}, model: Models,
                         max: BOOLEAN, stream: BOOLEAN, work: BOOLEAN]
  /\ Answers \subseteq {"refresh_fails", "busy", "plan", "soft", "dead", "client",
                        "other", "ok"}

VARIABLES
  pc,        \* where each request is
  req,       \* the request, and the locals of its handler
  affinity,  \* Pool.affinity, with and without the "work:" prefix
  probes     \* goroutines: an account, and whether its zero was already stored

rvars == <<pc, req, affinity, probes>>
cvars == <<vars, rvars>>

Points == {"idle", "filter", "pick", "hold", "call", "gate", "plan", "stream",
           "work", "wcall", "wread", "exit"}

Request == [
  session: Sessions \cup {NoSession}, model: Models \cup {NoModel},
  filter: SUBSET Models, stream: BOOLEAN,
  max: BOOLEAN,                    \* tier = TierMax
  cur: BOOLEAN,                    \* curTier = TierMax
  i: 0..MaxRotate, tried: SUBSET Uids, acct: Uids \cup {NoUid},
  wi: 0..MaxRotate, wtried: SUBSET Uids,  \* executeWorkRequest's i and tried
  after: {"work", "pick", "stream", "exit"} ]  \* what follows a 1005, or a
                                               \* visit to the work channel
Idle == [session |-> NoSession, model |-> NoModel, filter |-> {},
         stream |-> FALSE, max |-> FALSE, cur |-> FALSE,
         i |-> 0, tried |-> {}, acct |-> NoUid,
         wi |-> 0, wtried |-> {}, after |-> "exit"]

TypeOKC ==
  /\ TypeOK
  /\ pc \in [Clients -> Points]
  /\ req \in [Clients -> Request]
  /\ affinity \in [{"dev", "work"} \X Sessions -> Uids \cup {NoUid}]
  /\ probes \subseteq Uids \X {"asking", "zero"}

-----------------------------------------------------------------------------
(* Selection *)

Better(u, v) ==
  \/ Before(entry[u], entry[v])
  \/ ~Before(entry[v], entry[u]) /\ u < v

Best(S) == CHOOSE u \in S : \A v \in S \ {u} : Better(u, v)

\* pickBestCandidateLocked: of the first five by rule, the best that was not
\* used within MinPickGap; if all were, the one used longest ago.
PickBest(S) ==
  LET top == {u \in S : Cardinality({v \in S : Better(v, u)}) < 5}
      rested == {u \in top : now - entry[u].lastUsed >= MinPickGap}
      oldest == {u \in top : \A v \in top : entry[u].lastUsed <= entry[v].lastUsed}
  IN  Best(IF rested # {} THEN rested ELSE oldest)

Candidates(r, tried, max) ==
  {u \in present \ tried : Serves(entry[u], r.filter, max, now)}

\* Mutant of Chosen: the session's cache goes first.
ChosenBound(r, tried, max) ==
  LET S == Candidates(r, tried, max)
      bound == IF r.session = NoSession THEN NoUid
               ELSE affinity[<<"dev", r.session>>]
  IN  IF S = {} THEN NoUid ELSE IF bound \in S THEN bound ELSE PickBest(S)

\* pickAffinity: the account bound to the session, unless it cannot serve or
\* a candidate expires much earlier.
Chosen(r, tried, max) ==
  LET S == Candidates(r, tried, max)
      bound == IF r.session = NoSession THEN NoUid
               ELSE affinity[<<"dev", r.session>>]
  IN  IF S = {} THEN NoUid
      ELSE IF bound \notin S THEN PickBest(S)
      ELSE IF ExpirePressure(entry[Best(S)], entry[bound]) THEN Best(S)
      ELSE bound

WorkCandidates(r) == {u \in present \ r.wtried : HealthyWork(entry[u], now)}

\* PickWorkAffinity: the bound account, else the one with most work credits.
WorkChosen(r) ==
  LET S == WorkCandidates(r)
      bound == IF r.session = NoSession THEN NoUid
               ELSE affinity[<<"work", r.session>>]
      richest == {u \in S : \A v \in S : entry[v].workCredits <= entry[u].workCredits}
  IN  IF S = {} THEN NoUid
      ELSE IF bound \in S THEN bound
      ELSE CHOOSE u \in richest : \A v \in richest : u <= v

Bind(kind, session, u) ==
  affinity' = IF session = NoSession THEN affinity
              ELSE [affinity EXCEPT ![<<kind, session>>] = u]

-----------------------------------------------------------------------------
(* The control of one request *)

At(c, point) == pc[c] = point
Goto(c, point) == pc' = [pc EXCEPT ![c] = point]
Set(c, r) == req' = [req EXCEPT ![c] = r]

InitC ==
  /\ Init /\ present = Uids
  /\ pc = [c \in Clients |-> "idle"]
  /\ req = [c \in Clients |-> Idle]
  /\ affinity = [k \in {"dev", "work"} \X Sessions |-> NoUid]
  /\ probes = {}

\* A request answers its client, and only then the deferred release runs.
Finish(c) == Goto(c, "exit") /\ UNCHANGED req

\* The handler reads the stream to its end, whatever events are in it.
ReadOn(c) == Goto(c, "stream") /\ UNCHANGED req

\* The next iteration of the dev loop.
Rotate(c) ==
  Goto(c, "pick") /\ Set(c, [req[c] EXCEPT !.i = @ + 1])

\* A call of executeWorkRequest, and what to do if it answers nothing.
EnterWork(c, r, after) ==
  /\ Goto(c, "work")
  /\ Set(c, [r EXCEPT !.wi = 0, !.wtried = {}, !.after = after])

\* The max tier is dropped when no account is known to serve it.
Start(c) ==
  /\ At(c, "idle")
  /\ \E q \in Requests :
       LET served == \E u \in present :
                       ~entry[u].maxProbed \/ q.model \in entry[u].maxModels
           r == [Idle EXCEPT !.session = q.session, !.model = q.model,
                   !.stream = q.stream, !.max = q.max /\ served]
       IN  IF q.work THEN EnterWork(c, r, "exit")
           ELSE Goto(c, "filter") /\ Set(c, r)
  /\ UNCHANGED <<vars, affinity, probes>>

\* Accounts are filtered by a model only if one of them is known to have it.
ReadFilter(c) ==
  /\ At(c, "filter") /\ Goto(c, "pick")
  /\ LET known == \E u \in present : req[c].model \in entry[u].models
     IN  Set(c, [req[c] EXCEPT !.filter = IF known THEN {req[c].model} ELSE {}])
  /\ UNCHANGED <<vars, affinity, probes>>

Take(c, u, r) ==
  /\ Pick(u)
  /\ Bind("dev", r.session, u)
  /\ Set(c, [r EXCEPT !.tried = @ \cup {u}, !.acct = u])
  /\ Goto(c, "hold")
  /\ UNCHANGED probes

\* Mutant of PickAccount: one rotation too many.
PickAccountOnceMore(c) ==
  /\ At(c, "pick") /\ req[c].i <= MaxRotate
  /\ LET u == Chosen(req[c], req[c].tried, req[c].max)
     IN  u \in Candidates(req[c], req[c].tried, req[c].max) /\ Take(c, u, req[c])

PickAccount(c) ==
  /\ At(c, "pick") /\ req[c].i < MaxRotate
  /\ LET u == Chosen(req[c], req[c].tried, req[c].max)
     IN  u \in Candidates(req[c], req[c].tried, req[c].max) /\ Take(c, u, req[c])

\* Mutant of Downgrade: the request forgets whom it tried, and keeps its tier.
DowngradeKeepsTier(c) ==
  /\ At(c, "pick") /\ req[c].i < MaxRotate
  /\ req[c].max /\ Candidates(req[c], req[c].tried, TRUE) = {}
  /\ Set(c, [req[c] EXCEPT !.tried = {}])
  /\ UNCHANGED <<vars, pc, affinity, probes>>

\* No account is left for the max tier: the request falls to dev, forgets whom
\* it tried and picks again in the same iteration.
Downgrade(c) ==
  /\ At(c, "pick") /\ req[c].i < MaxRotate
  /\ req[c].max /\ Candidates(req[c], req[c].tried, TRUE) = {}
  /\ Set(c, [req[c] EXCEPT !.max = FALSE, !.tried = {}])
  /\ UNCHANGED <<vars, pc, affinity, probes>>

\* The budget is spent or no account is left: the work channel is the last
\* resort.
LeaveLoop(c) ==
  /\ At(c, "pick")
  /\ \/ req[c].i = MaxRotate
     \/ ~req[c].max /\ Candidates(req[c], req[c].tried, FALSE) = {}
  /\ EnterWork(c, req[c], "exit")
  /\ UNCHANGED <<vars, affinity, probes>>

\* acquireAcct gives back the previous account's lease and takes the new one.
GiveBack(c) ==
  /\ At(c, "hold") /\ Release(c)
  /\ UNCHANGED rvars

\* A pick for the max tier still asks whether this account is entitled.
Hold(c) ==
  /\ At(c, "hold") /\ Acquire(c, req[c].acct)
  /\ Set(c, [req[c] EXCEPT !.cur =
               req[c].max /\ MaxEntitled(entry[req[c].acct], req[c].model, now)])
  /\ Goto(c, "call")
  /\ UNCHANGED <<affinity, probes>>

-----------------------------------------------------------------------------
(* The answer to a call on the dev channel: of the token refresh, of the     *)
(* response header, or of the whole body when the client does not stream.    *)

\* A timeout before the first byte, 502 and 504 are everybody's: no rotation
\* and no penalty.  An unreadable body ends the request the same way.
Busy(c) ==
  /\ "busy" \in Answers
  /\ Finish(c) /\ UNCHANGED vars

\* 1005.  With money in the ledger it is a gate on the model, without it the
\* account is cooled down; the ledger is read in a critical section of its own.
Attribute(c, after) ==
  /\ Goto(c, IF entry[req[c].acct].credits > 0 THEN "gate" ELSE "plan")
  /\ Set(c, [req[c] EXCEPT !.after = after])
  /\ UNCHANGED vars

PlanLimit(c) ==
  /\ "plan" \in Answers
  /\ \E after \in IF req[c].stream THEN {"work"} ELSE {"work", "pick"} :
       Attribute(c, after)

\* The refresh fails for another reason than a dead session; 429 and 404.
Penalties == {<<"refresh_fails", ErrCooldown, "error">>,
              <<"soft", SoftCooldown, "soft">>}

\* Mutant of Penalised: the cooldown is not saved.
PenalisedUnsaved(c) ==
  /\ \E w \in Penalties :
       /\ w[1] \in Answers
       /\ UpdateOnly(req[c].acct, Cooled(entry[req[c].acct], w[2], w[3], now))
  /\ Rotate(c)

Penalised(c) ==
  /\ \E w \in Penalties :
       /\ w[1] \in Answers
       /\ UpdateAndSave(req[c].acct, Cooled(entry[req[c].acct], w[2], w[3], now))
  /\ Rotate(c)

SessionDead(c) ==
  /\ "dead" \in Answers
  /\ Disable(req[c].acct)
  /\ Rotate(c)

\* A rejected parameter is the client's, but on the max tier the account's.
ClientError(c) ==
  /\ "client" \in Answers
  /\ IF req[c].cur
       THEN BlockMaxModel(req[c].acct, req[c].model) /\ Rotate(c)
       ELSE Finish(c) /\ UNCHANGED vars

\* Everything else, a broken connection and the client's own departure among
\* them, counts as an error of the account.
OtherError(c) ==
  /\ "other" \in Answers
  /\ NoteError(req[c].acct)
  /\ Rotate(c)

Served(c) ==
  /\ "ok" \in Answers
  /\ NoteSuccess(req[c].acct)
  /\ ReadOn(c)

Call(c) ==
  /\ At(c, "call")
  /\ \/ Penalised(c) \/ Busy(c) \/ PlanLimit(c)
     \/ SessionDead(c) \/ ClientError(c) \/ OtherError(c) \/ Served(c)
  /\ UNCHANGED <<affinity, probes>>

\* The ledger was found with money, or empty, a critical section earlier.  Only
\* an error in the response header tries the work channel at once.
PlanGate(c) ==
  /\ At(c, "gate")
  /\ BlockModel(req[c].acct, req[c].model)
  /\ IF req[c].after = "stream" THEN ReadOn(c) ELSE Rotate(c)
  /\ UNCHANGED <<affinity, probes>>

PlanCool(c) ==
  /\ At(c, "plan")
  /\ UpdateAndSave(req[c].acct, Cooled(entry[req[c].acct], PlanCooldown, "plan", now))
  /\ CASE req[c].after = "work" -> EnterWork(c, req[c], "pick")
       [] req[c].after = "pick" -> Rotate(c)
       [] req[c].after = "stream" -> ReadOn(c)
  /\ UNCHANGED <<affinity, probes>>

-----------------------------------------------------------------------------
(* The body of a successful answer.  NoteSuccess was before the first byte  *)
(* of a stream, so an error inside it counts after the success.             *)

\* A usage event carries the balance after the charge.
UsageEvent(c) ==
  /\ At(c, "stream") /\ Account(req[c].acct)
  /\ UNCHANGED rvars

\* handleStreamError, on an error event.
StreamPlan(c) == "plan" \in Answers /\ Attribute(c, "stream")

StreamThrottled(c) ==
  /\ "soft" \in Answers
  /\ UpdateAndSave(req[c].acct, Cooled(entry[req[c].acct], SoftCooldown, "soft", now))
  /\ ReadOn(c)

StreamBreaks(c) ==
  /\ "other" \in Answers
  /\ IF req[c].cur THEN BlockMaxModel(req[c].acct, req[c].model)
                   ELSE NoteError(req[c].acct)
  /\ ReadOn(c)

StreamError(c) ==
  /\ At(c, "stream") /\ req[c].stream
  /\ StreamPlan(c) \/ StreamThrottled(c) \/ StreamBreaks(c)
  /\ UNCHANGED <<affinity, probes>>

StreamEnds(c) ==
  /\ At(c, "stream") /\ Finish(c)
  /\ UNCHANGED <<vars, affinity, probes>>

-----------------------------------------------------------------------------
(* executeWorkRequest *)

RotateWork(c) == Goto(c, "work") /\ Set(c, [req[c] EXCEPT !.wi = @ + 1])

PickWork(c) ==
  /\ At(c, "work") /\ WorkEnabled /\ req[c].wi < MaxRotate
  /\ LET u == WorkChosen(req[c])
     IN  /\ u \in WorkCandidates(req[c])
         /\ Bind("work", req[c].session, u)
         /\ Set(c, [req[c] EXCEPT !.wtried = @ \cup {u}, !.acct = u])
  /\ Goto(c, "wcall")
  /\ UNCHANGED <<vars, probes>>

\* Mutant of LeaveWork: it returns to the dev loop whoever called.
LeaveWorkToLoop(c) ==
  /\ At(c, "work")
  /\ ~WorkEnabled \/ req[c].wi = MaxRotate \/ WorkCandidates(req[c]) = {}
  /\ Goto(c, "pick")
  /\ UNCHANGED <<vars, req, affinity, probes>>

\* Nothing was written to the client: the dev loop goes on, or the request is
\* answered 503.
LeaveWork(c) ==
  /\ At(c, "work")
  /\ ~WorkEnabled \/ req[c].wi = MaxRotate \/ WorkCandidates(req[c]) = {}
  /\ IF req[c].after = "pick" THEN Rotate(c) ELSE Finish(c)
  /\ UNCHANGED <<vars, affinity, probes>>

\* A failed refresh, 429, and 400 for lack of credits; 401 and 403 are a dead
\* session.
WorkPenalties == {<<"refresh_fails", ErrCooldown, "error">>,
                  <<"soft", SoftCooldown, "soft">>,
                  <<"plan", PlanCooldown, "work_credits">>}

CallWork(c) ==
  /\ At(c, "wcall")
  /\ \/ /\ \/ \E w \in WorkPenalties :
                /\ w[1] \in Answers
                /\ UpdateAndSave(req[c].acct,
                                 WorkCooled(entry[req[c].acct], w[2], w[3], now))
           \/ "dead" \in Answers /\ Disable(req[c].acct)
           \/ "other" \in Answers /\ NoteWorkError(req[c].acct)
        /\ RotateWork(c)
        /\ UNCHANGED probes
     \/ /\ "ok" \in Answers
        /\ NoteWorkSuccess(req[c].acct)
        /\ probes' = probes \cup {<<req[c].acct, "asking">>}
        /\ Goto(c, IF req[c].stream THEN "exit" ELSE "wread")
        /\ UNCHANGED req
  /\ UNCHANGED affinity

\* Without streaming the body is read before anything is written.
ReadWork(c) ==
  /\ At(c, "wread")
  /\ \/ Finish(c) /\ UNCHANGED vars
     \/ "other" \in Answers /\ NoteWorkError(req[c].acct) /\ RotateWork(c)
  /\ UNCHANGED <<affinity, probes>>

\* The probe stores the balance, and cools an empty account down afterwards.
ProbeWork(u) ==
  /\ <<u, "asking">> \in probes
  /\ \/ probes' = probes \ {<<u, "asking">>} /\ UNCHANGED vars
     \/ \E c \in WorkCreditValues :
          /\ UpdateAndSave(u, WithWorkCredits(entry[u], c))
          /\ probes' = (probes \ {<<u, "asking">>})
                         \cup (IF c > 0 THEN {} ELSE {<<u, "zero">>})
  /\ UNCHANGED <<pc, req, affinity>>

ProbeCools(u) ==
  /\ <<u, "zero">> \in probes
  /\ UpdateAndSave(u, WorkCooled(entry[u], PlanCooldown, "work_credits", now))
  /\ probes' = probes \ {<<u, "zero">>}
  /\ UNCHANGED <<pc, req, affinity>>

\* Mutant of Exit: the deferred release is missing.
ExitKeepsLease(c) ==
  /\ At(c, "exit")
  /\ Goto(c, "idle") /\ Set(c, Idle)
  /\ UNCHANGED <<vars, affinity, probes>>

\* The handler returns.
Exit(c) ==
  /\ At(c, "exit")
  /\ \/ Release(c)
     \/ held[c] = NoUid /\ UNCHANGED vars
  /\ Goto(c, "idle") /\ Set(c, Idle)
  /\ UNCHANGED <<affinity, probes>>

-----------------------------------------------------------------------------
\* What else happens to the pool meanwhile: the hourly probe reports
\* balances, the catalog is refreshed, the user switches accounts.
Background(u) ==
  /\ \/ Account(u) \/ SetModels(u) \/ SetMaxModels(u)
     \/ \E on \in BOOLEAN : SetEnabled(u, on)
  /\ UNCHANGED rvars

Handle(c) ==
  \/ ReadFilter(c) \/ PickAccount(c) \/ Downgrade(c) \/ LeaveLoop(c)
  \/ GiveBack(c) \/ Hold(c) \/ Call(c) \/ PlanGate(c) \/ PlanCool(c)
  \/ StreamEnds(c)
  \/ PickWork(c) \/ LeaveWork(c) \/ CallWork(c) \/ ReadWork(c) \/ Exit(c)

NextC ==
  \/ \E c \in Clients : Start(c) \/ Handle(c) \/ UsageEvent(c) \/ StreamError(c)
  \/ \E u \in Uids : ProbeWork(u) \/ ProbeCools(u) \/ Background(u)
  \/ Tick /\ UNCHANGED rvars

\* The runtime schedules every handler, and every call upstream ends: it has a
\* timeout before the first byte, and a stream ends, however many error events
\* are in it, when upstream or the client leaves.
Fairness == \A c \in Clients : WF_cvars(Handle(c)) /\ SF_cvars(StreamEnds(c))

SpecC == InitC /\ [][NextC]_cvars /\ Fairness

-----------------------------------------------------------------------------
(* Properties *)

\* Every exit path of the handler gives back exactly the lease it took: an
\* account counts as many requests in flight as there are requests holding it,
\* and none once they have returned (acquireAcct and the deferred Release).
LeaseExact ==
  /\ \A u \in present : entry[u].inFlight = Cardinality(Holders(u))
  /\ \A c \in Clients : At(c, "idle") => held[c] = NoUid

\* Every request is answered, whatever upstream does and however the nested
\* loops, the downgrade and the work fallback combine.
EveryRequestEnds == \A c \in Clients : ~At(c, "idle") ~> At(c, "idle")

\* Rule 1 goes before the session's cache: while a candidate expires much
\* earlier than the account that was picked, and it was not used just now, it
\* is picked itself (pickAffinity, "expirePressure").
PressureFirst ==
  [][\A c \in Clients :
       PickAccount(c) =>
         LET u == req'[c].acct
             S == Candidates(req[c], req[c].tried, req[c].max)
         IN  \A v \in S :
               ExpirePressure(entry[v], entry[u]) /\ Cardinality(S) <= 5
                 => now - entry[v].lastUsed < MinPickGap]_cvars

\* The handlers use the pool only through its methods: every step of this
\* module is one step of Pool, or none.
PoolSpec == Spec
=============================================================================
