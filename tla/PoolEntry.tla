----------------------------- MODULE PoolEntry ------------------------------
(***************************************************************************)
(* One account of the pool: the type `entry` of internal/pool/pool.go and  *)
(* the body of every pool method that works on a single entry, as a pure   *)
(* operator from entries to entries.  The modules that hold entries in     *)
(* variables (Pool, and ChatRotation above it) apply these operators under *)
(* the pool's mutex, one method call per step.                             *)
(*                                                                         *)
(* Instants are natural numbers and 0 is Go's zero time.  A reason is kept *)
(* as the kind of the call that set it.  The models an account serves are  *)
(* a set, empty when it has not been probed (the code turns an empty probe *)
(* into nil); its max-tier set needs the flag maxProbed, because there an  *)
(* empty probe is knowledge.  A block table maps a model to the instant of *)
(* the block; NeverBlocked stands for a missing or an expired row, which   *)
(* no reader can tell apart.  Of the pack ledger only the two figures that *)
(* are computed from it are kept, credits and nearestExpire.               *)
(***************************************************************************)
EXTENDS Integers

CONSTANTS
  Uids,           \* the accounts that may ever exist
  Models,         \* model config names
  PlanCooldown,   \* HandlerConfig.PlanCooldown (12h)
  SoftCooldown,   \* HandlerConfig.SoftCooldown (60s)
  ErrCooldown,    \* HandlerConfig.ErrCooldown (10m)
  ErrThreshold,   \* HandlerConfig.ErrThreshold (3)
  ModelBlockTTL,  \* modelBlockTTL (1h)
  ExpireSlack,    \* affinityExpireSlack (1h)
  MinPickGap      \* minPickGap (100ms)

\* NewHandler replaces a non-positive duration or threshold by its default.
ASSUME DurationAssumption ==
  /\ {PlanCooldown, SoftCooldown, ErrCooldown} \subseteq Nat \ {0}
  /\ {ErrThreshold, ModelBlockTTL, ExpireSlack, MinPickGap} \subseteq Nat \ {0}

\* The reasons the code gives; only "" and "work_credits" are ever read back.
Reasons == {"", "plan", "soft", "error",
            "session_dead", "user_disabled", "work_credits"}

NeverBlocked == 0 - ModelBlockTTL

Entry == [
  credits: Int, nearestExpire: Nat, workCredits: Int,
  disabled: BOOLEAN, enabled: BOOLEAN,
  reason: Reasons, until: Nat, workReason: Reasons, workUntil: Nat,
  errCount: Nat, workErrCount: Nat,
  models: SUBSET Models, modelBlocks: [Models -> Int],
  maxProbed: BOOLEAN, maxModels: SUBSET Models, maxBlocks: [Models -> Int],
  checkinGen: Nat, checkinRetryAfter: Nat, checkinRetryCount: Nat,
  inFlight: Nat, lastUsed: Nat ]

\* &entry{a: a, enabled: true}, what Add and SyncToDir insert.
NewEntry == [
  credits |-> 0, nearestExpire |-> 0, workCredits |-> 0,
  disabled |-> FALSE, enabled |-> TRUE,
  reason |-> "", until |-> 0, workReason |-> "", workUntil |-> 0,
  errCount |-> 0, workErrCount |-> 0,
  models |-> {}, modelBlocks |-> [m \in Models |-> NeverBlocked],
  maxProbed |-> FALSE, maxModels |-> {},
  maxBlocks |-> [m \in Models |-> NeverBlocked],
  checkinGen |-> 0, checkinRetryAfter |-> 0, checkinRetryCount |-> 0,
  inFlight |-> 0, lastUsed |-> 0 ]

-----------------------------------------------------------------------------
(* What readers ask of an entry. *)

Cooling(e, now) == e.until # 0 /\ now < e.until
WorkCooling(e, now) == e.workUntil # 0 /\ now < e.workUntil

Healthy(e, now) == ~e.disabled /\ e.enabled /\ ~Cooling(e, now)
HealthyWork(e, now) == ~e.disabled /\ e.enabled /\ ~WorkCooling(e, now)

BlockedFor(e, m, now) == now - e.modelBlocks[m] < ModelBlockTTL
MaxBlockedFor(e, m, now) == now - e.maxBlocks[m] < ModelBlockTTL

\* filter is {} (no restriction, the code's "") or one model.
Serves(e, filter, wantMax, now) ==
  /\ Healthy(e, now)
  /\ \A m \in filter :
       /\ e.models = {} \/ m \in e.models
       /\ ~BlockedFor(e, m, now)
       /\ wantMax => /\ ~e.maxProbed \/ m \in e.maxModels
                     /\ ~MaxBlockedFor(e, m, now)

\* An unprobed account is let through even while its max tier is blocked.
MaxEntitled(e, m, now) ==
  ~e.maxProbed \/ (m \in e.maxModels /\ ~MaxBlockedFor(e, m, now))

\* Rule 1, an expiry before none; rule 2, fewest credits.  Ties are the
\* caller's (rule 3, the smaller uid).
Before(e, f) ==
  \/ e.nearestExpire # 0 /\ f.nearestExpire = 0
  \/ /\ e.nearestExpire # 0 /\ f.nearestExpire # 0
     /\ e.nearestExpire < f.nearestExpire
  \/ e.nearestExpire = f.nearestExpire /\ e.credits < f.credits

ExpirePressure(best, bound) ==
  /\ best.nearestExpire > 0
  /\ \/ bound.nearestExpire = 0
     \/ best.nearestExpire + ExpireSlack < bound.nearestExpire

-----------------------------------------------------------------------------
(* The bodies of the methods, on an entry that exists. *)

Cooled(e, d, why, now) ==
  [e EXCEPT !.until = now + d, !.reason = why, !.errCount = 0]

ErrorNoted(e, now) ==
  IF e.errCount + 1 >= ErrThreshold
    THEN Cooled(e, ErrCooldown, "error", now)
    ELSE [e EXCEPT !.errCount = @ + 1]

SuccessNoted(e) == [e EXCEPT !.errCount = 0]

WorkCooled(e, d, why, now) ==
  [e EXCEPT !.workUntil = now + d, !.workReason = why, !.workErrCount = 0]

WorkErrorNoted(e, now) ==
  IF e.workErrCount + 1 >= ErrThreshold
    THEN WorkCooled(e, ErrCooldown, "error", now)
    ELSE [e EXCEPT !.workErrCount = @ + 1]

WorkSuccessNoted(e) == [e EXCEPT !.workErrCount = 0]

WithWorkCredits(e, c) ==
  IF c > 0 /\ e.workReason = "work_credits"
    THEN [e EXCEPT !.workCredits = c, !.workUntil = 0, !.workReason = ""]
    ELSE [e EXCEPT !.workCredits = c]

Disabled(e, why) == [e EXCEPT !.disabled = TRUE, !.reason = why]

\* The PATCH handler passes "user enabled" or "user disabled"; the former is
\* never stored.
Switched(e, on) ==
  IF ~on THEN [e EXCEPT !.enabled = FALSE, !.reason = "user_disabled"]
  ELSE IF ~e.disabled /\ e.until = 0
    THEN [e EXCEPT !.enabled = TRUE, !.reason = ""]
    ELSE [e EXCEPT !.enabled = TRUE]

\* Mutants of Reenabled: the test of the balance, or of disabled, is missing.
ReenabledAtZero(e, remain) ==
  IF ~e.disabled
    THEN [e EXCEPT !.credits = remain, !.until = 0, !.reason = "", !.errCount = 0]
    ELSE [e EXCEPT !.credits = remain]
ReenabledFromDead(e, remain) ==
  [e EXCEPT !.credits = remain, !.disabled = FALSE, !.until = 0, !.errCount = 0]

Reenabled(e, remain) ==
  IF remain > 0 /\ ~e.disabled
    THEN [e EXCEPT !.credits = remain, !.until = 0, !.reason = "", !.errCount = 0]
    ELSE [e EXCEPT !.credits = remain]

Accounted(e, total, nearest) ==
  [e EXCEPT !.credits = total, !.nearestExpire = nearest]

ModelBlocked(e, m, now) == [e EXCEPT !.modelBlocks[m] = now]
MaxBlocked(e, m, now) == [e EXCEPT !.maxBlocks[m] = now]

\* {} clears what was known of the models, known = FALSE what was known of the
\* max tier.
ModelsSet(e, ms) == [e EXCEPT !.models = ms]
MaxModelsSet(e, known, ms) ==
  [e EXCEPT !.maxProbed = known, !.maxModels = IF known THEN ms ELSE {}]

\* A pick stamps the account it chose.
Stamped(e, now) == [e EXCEPT !.lastUsed = now]

LeaseTaken(e) == [e EXCEPT !.inFlight = @ + 1]

\* Mutant of LeaseGiven: the count is not tested.
LeaseGivenBlindly(e) == [e EXCEPT !.inFlight = @ - 1]
LeaseGiven(e) == IF e.inFlight > 0 THEN [e EXCEPT !.inFlight = @ - 1] ELSE e

-----------------------------------------------------------------------------
(* state.json: what saveLocked writes of an entry and load reads back.  An  *)
(* account without a row reads back as a new one, so the file is a total    *)
(* function whose default is Durable(NewEntry).                             *)

Stored == [
  credits: Int, nearestExpire: Nat, workCredits: Nat,
  disabled: BOOLEAN, enabled: BOOLEAN,
  reason: Reasons, until: Nat, workReason: Reasons, workUntil: Nat,
  checkinGen: Nat, checkinRetryAfter: Nat, checkinRetryCount: Nat ]

Durable(e) == [
  credits |-> e.credits, nearestExpire |-> e.nearestExpire,
  workCredits |-> IF e.workCredits > 0 THEN e.workCredits ELSE 0,
  disabled |-> e.disabled, enabled |-> e.enabled,
  reason |-> e.reason, until |-> e.until,
  workReason |-> e.workReason, workUntil |-> e.workUntil,
  checkinGen |-> e.checkinGen, checkinRetryAfter |-> e.checkinRetryAfter,
  checkinRetryCount |-> e.checkinRetryCount ]

Loaded(s) == [NewEntry EXCEPT
  !.credits = s.credits, !.nearestExpire = s.nearestExpire,
  !.workCredits = s.workCredits,
  !.disabled = s.disabled, !.enabled = s.enabled,
  !.reason = s.reason, !.until = s.until,
  !.workReason = s.workReason, !.workUntil = s.workUntil,
  !.checkinGen = s.checkinGen, !.checkinRetryAfter = s.checkinRetryAfter,
  !.checkinRetryCount = s.checkinRetryCount ]
=============================================================================
