-------------------------------- MODULE Pool --------------------------------
(***************************************************************************)
(* The account pool of one server process (internal/pool/pool.go): the     *)
(* in-memory index byUID, the state machine of cooldowns, disabling and    *)
(* the user's soft switch on both channels, the in-flight leases, and      *)
(* state.json, which nearly every method rewrites as a whole while it      *)
(* holds the mutex.                                                        *)
(*                                                                         *)
(* Every method is one step, because it runs under the pool's mutex.  The  *)
(* callers (request handlers, probe goroutines, the scheduler, the admin   *)
(* API) run concurrently, so any method may be called at any moment, also  *)
(* for an account that was removed meanwhile.  The process may stop and    *)
(* start again between any two calls.                                      *)
(***************************************************************************)
EXTENDS PoolEntry, FiniteSets

CONSTANTS
  Clients,       \* concurrent chat requests, the holders of leases
  NoUid,         \* heldUID = ""
  SaveOutcomes,  \* what the file system may answer to a save
  CreditValues, ExpireValues, WorkCreditValues,  \* what upstream may report
  MaxNow         \* bound on the clock

ASSUME PoolAssumption ==
  /\ NoUid \notin Uids
  /\ IsFiniteSet(Clients)
  /\ SaveOutcomes \subseteq BOOLEAN
  /\ CreditValues \subseteq Int
  /\ ExpireValues \subseteq Nat
  /\ WorkCreditValues \subseteq Int
  /\ MaxNow \in Nat

VARIABLES
  present,  \* the keys of byUID
  entry,    \* byUID[u]; NewEntry for an absent account
  disk,     \* state.json
  saved,    \* did this process's latest write of state.json succeed?
  held,     \* heldUID of each chat request
  now

vars == <<present, entry, disk, saved, held, now>>

TypeOK ==
  /\ present \subseteq Uids
  /\ entry \in [Uids -> Entry]
  /\ disk \in [Uids -> Stored]
  /\ saved \in BOOLEAN
  /\ held \in [Clients -> Uids \cup {NoUid}]
  /\ now \in Nat

\* The first start: the auth files there are, and no state.json.
Init ==
  /\ present \in SUBSET Uids
  /\ entry = [u \in Uids |-> NewEntry]
  /\ disk = [u \in Uids |-> Durable(NewEntry)]
  /\ saved = TRUE
  /\ held = [c \in Clients |-> NoUid]
  /\ now = 1

-----------------------------------------------------------------------------
(* saveLocked writes a temporary file and renames it; every failure is      *)
(* swallowed and leaves the previous file in place.                         *)
Save ==
  \E ok \in SaveOutcomes :
    /\ saved' = ok
    /\ disk' = IF ok THEN [u \in Uids |-> Durable(entry'[u])] ELSE disk

\* A method that works on the entry of u, if there is one.
Update(u, e) ==
  /\ entry' = [entry EXCEPT ![u] = IF u \in present THEN e ELSE @]
  /\ UNCHANGED <<present, held, now>>

\* Most methods save even when the account is gone.
UpdateAndSave(u, e) == Update(u, e) /\ Save

UpdateOnly(u, e) == Update(u, e) /\ UNCHANGED <<disk, saved>>

-----------------------------------------------------------------------------
(* Membership *)

\* A login or an import adds the account; Add does not save.  For an account
\* that is already there only the credential changes.
Add(u) ==
  /\ u \notin present
  /\ present' = present \cup {u}
  /\ UNCHANGED <<entry, disk, saved, held, now>>

Remove(u) ==
  /\ u \in present
  /\ present' = present \ {u}
  /\ entry' = [entry EXCEPT ![u] = NewEntry]
  /\ Save
  /\ UNCHANGED <<held, now>>

\* The process stops, at any point, and main runs again: New loads every row
\* of state.json, SyncToDir keeps the accounts that have an auth file, and
\* nothing is written.  The directory may have changed meanwhile.
Restart(files) ==
  /\ present' = files
  /\ entry' = [u \in Uids |-> IF u \in files THEN Loaded(disk[u]) ELSE NewEntry]
  /\ saved' = TRUE
  /\ held' = [c \in Clients |-> NoUid]
  /\ UNCHANGED <<disk, now>>

-----------------------------------------------------------------------------
(* The dev channel *)

\* The three cooldowns the handlers apply: 1005 with an empty ledger, 429 or
\* 404, and a failed token refresh.
Cooldowns == {<<PlanCooldown, "plan">>, <<SoftCooldown, "soft">>,
              <<ErrCooldown, "error">>}

Cooldown(u) ==
  \E c \in Cooldowns : UpdateAndSave(u, Cooled(entry[u], c[1], c[2], now))

NoteError(u) == UpdateAndSave(u, ErrorNoted(entry[u], now))

\* NoteSuccess and RecordSuccess, which the handlers call together.
NoteSuccess(u) == UpdateOnly(u, SuccessNoted(entry[u]))

\* Mutant of Disable: the save is missing.
DisableUnsaved(u) == UpdateOnly(u, Disabled(entry[u], "session_dead"))

Disable(u) == UpdateAndSave(u, Disabled(entry[u], "session_dead"))

\* Returns early, without a save, when the account is gone.
SetEnabled(u, on) ==
  /\ u \in present
  /\ UpdateAndSave(u, Switched(entry[u], on))

\* The daily check-in, with the balance upstream reports.
ReenableIfCredits(u) ==
  \E remain \in CreditValues : UpdateAndSave(u, Reenabled(entry[u], remain))

\* SetPacks (hourly probe) and ApplyUsageRemain (a usage event in a stream)
\* return early, without a save, when the account is gone.  What they compute
\* from the packs is left open: any balance with any earliest expiry.
Account(u) ==
  /\ u \in present
  /\ \E total \in CreditValues, nearest \in ExpireValues :
       UpdateAndSave(u, Accounted(entry[u], total, nearest))

-----------------------------------------------------------------------------
(* The work channel *)

WorkCooldowns == {<<PlanCooldown, "work_credits">>, <<SoftCooldown, "soft">>,
                  <<ErrCooldown, "error">>}

CooldownWork(u) ==
  \E c \in WorkCooldowns : UpdateAndSave(u, WorkCooled(entry[u], c[1], c[2], now))

NoteWorkError(u) == UpdateAndSave(u, WorkErrorNoted(entry[u], now))

NoteWorkSuccess(u) == UpdateOnly(u, WorkSuccessNoted(entry[u]))

SetWorkCredits(u) ==
  \E c \in WorkCreditValues : UpdateAndSave(u, WithWorkCredits(entry[u], c))

-----------------------------------------------------------------------------
(* Capabilities and selection: what is known of the account for this run of *)
(* the process only.                                                        *)

BlockModel(u, m) == UpdateOnly(u, ModelBlocked(entry[u], m, now))
BlockMaxModel(u, m) == UpdateOnly(u, MaxBlocked(entry[u], m, now))

\* A refresh of the model catalog.
SetModels(u) == \E ms \in SUBSET Models : UpdateOnly(u, ModelsSet(entry[u], ms))
SetMaxModels(u) ==
  \E known \in BOOLEAN, ms \in SUBSET Models :
    UpdateOnly(u, MaxModelsSet(entry[u], known, ms))

\* A pick; which account is chosen is the module ChatRotation's.
Pick(u) == UpdateOnly(u, Stamped(entry[u], now))

-----------------------------------------------------------------------------
(* Leases: a request holds at most one; it sets heldUID whether or not the  *)
(* account is still there, and acquireAcct is a Release and an Acquire.     *)

Acquire(c, u) ==
  /\ held[c] = NoUid
  /\ held' = [held EXCEPT ![c] = u]
  /\ entry' = [entry EXCEPT ![u] = IF u \in present THEN LeaseTaken(@) ELSE @]
  /\ UNCHANGED <<present, disk, saved, now>>

\* Mutant of Release: the count is not lowered.
ReleaseForgotten(c) ==
  /\ held[c] # NoUid
  /\ held' = [held EXCEPT ![c] = NoUid]
  /\ UNCHANGED <<present, entry, disk, saved, now>>

Release(c) ==
  /\ held[c] # NoUid
  /\ held' = [held EXCEPT ![c] = NoUid]
  /\ entry' = [entry EXCEPT ![held[c]] =
                 IF held[c] \in present THEN LeaseGiven(@) ELSE @]
  /\ UNCHANGED <<present, disk, saved, now>>

Tick ==
  /\ now < MaxNow
  /\ now' = now + 1
  /\ UNCHANGED <<present, entry, disk, saved, held>>

-----------------------------------------------------------------------------
Membership(u) == Add(u) \/ Remove(u)

DevChannel(u) ==
  \/ Cooldown(u) \/ NoteError(u) \/ NoteSuccess(u) \/ Disable(u)
  \/ ReenableIfCredits(u) \/ Account(u)
  \/ \E on \in BOOLEAN : SetEnabled(u, on)

WorkChannel(u) ==
  \/ CooldownWork(u) \/ NoteWorkError(u) \/ NoteWorkSuccess(u)
  \/ SetWorkCredits(u)

Capabilities(u) ==
  \/ \E m \in Models : BlockModel(u, m) \/ BlockMaxModel(u, m)
  \/ SetModels(u) \/ SetMaxModels(u) \/ Pick(u)

Leases(c) == Release(c) \/ \E u \in Uids : Acquire(c, u)

Next ==
  \/ \E u \in Uids :
       Membership(u) \/ DevChannel(u) \/ WorkChannel(u) \/ Capabilities(u)
  \/ \E c \in Clients : Leases(c)
  \/ \E files \in SUBSET Uids : Restart(files)
  \/ Tick

Spec == Init /\ [][Next]_vars

-----------------------------------------------------------------------------
(* Properties *)

\* Whatever memory holds of an account beyond its initial values is in
\* state.json, unless the latest save failed: a crash at any moment loses no
\* cooldown, no disabling, no soft switch and no balance (saveLocked's callers;
\* Add and SyncToDir, which do not save, only create accounts with initial
\* values).
RestartLosesNothing ==
  saved => \A u \in present :
             Durable(entry[u]) \in {disk[u], Durable(NewEntry)}

Holders(u) == {c \in Clients : held[c] = u}

\* An account never counts more requests in flight than there are requests
\* holding it, whatever removals, re-imports and restarts fall between Acquire
\* and Release; in particular an idle account counts none.
NoLeakedLease ==
  \A u \in Uids : entry[u].inFlight <= Cardinality(Holders(u))

\* No call and no restart lifts a cooldown before its time, except one that
\* reports a positive balance of the channel that was cooled down
\* (ReenableIfCredits, SetWorkCredits).  A later, shorter cooldown may shorten
\* it, but never end it on the spot.
LiftedByCredits ==
  saved /\ now' = now =>
    \A u \in present \cap present' :
      /\ Cooling(entry[u], now) /\ ~Cooling(entry'[u], now)
           => entry'[u].credits > 0
      /\ WorkCooling(entry[u], now) /\ ~WorkCooling(entry'[u], now)
           => entry'[u].workCredits > 0

CooldownLiftedOnlyByCredits == [][LiftedByCredits]_vars

\* While an account stays in the pool, nothing brings it back once its session
\* was found dead, and nothing but the user's PATCH brings it back from the soft
\* switch: not a balance, not a success, not a restart.
StopKept ==
  saved => \A u \in present \cap present' :
    /\ entry[u].disabled => entry'[u].disabled
    /\ ~entry[u].enabled /\ entry'[u].enabled => SetEnabled(u, TRUE)

StopsStick == [][StopKept]_vars
=============================================================================
