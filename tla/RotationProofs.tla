--------------------------- MODULE RotationProofs ---------------------------
(***************************************************************************)
(* Proofs about Pool and ChatRotation, for every value of their constants. *)
(* Part I is about the pool by itself.  Part II is about the handlers:     *)
(* they change the pool only by steps of Pool, so the theorems of part I   *)
(* hold under them, every exit path gives back its lease, and credits that *)
(* expire soon go before a session's cache.                                *)
(***************************************************************************)
EXTENDS ChatRotation, TLAPS, FiniteSetTheorems

(***************************************************************************)
(* Part I: the pool                                                        *)
(***************************************************************************)

-----------------------------------------------------------------------------
(* The operators on entries keep the type. *)

\* A new account has the type of an entry.
LEMMA NewEntryType == NewEntry \in Entry
BY DurationAssumption DEF NewEntry, Entry, Reasons, NeverBlocked

\* Cooldown keeps the type.
LEMMA CooledType ==
  ASSUME NEW e \in Entry, NEW d \in Nat, NEW why \in Reasons, NEW t \in Nat
  PROVE  Cooled(e, d, why, t) \in Entry
<1>1. t + d \in Nat
  OBVIOUS
<1> QED
  BY <1>1 DEF Cooled, Entry

\* CooldownWork keeps the type.
LEMMA WorkCooledType ==
  ASSUME NEW e \in Entry, NEW d \in Nat, NEW why \in Reasons, NEW t \in Nat
  PROVE  WorkCooled(e, d, why, t) \in Entry
<1>1. t + d \in Nat
  OBVIOUS
<1> QED
  BY <1>1 DEF WorkCooled, Entry

\* Counting an error, up to the cooldown it may end in, keeps the type.
LEMMA NotedType ==
  ASSUME NEW e \in Entry, NEW t \in Nat
  PROVE  /\ ErrorNoted(e, t) \in Entry
         /\ SuccessNoted(e) \in Entry
         /\ WorkErrorNoted(e, t) \in Entry
         /\ WorkSuccessNoted(e) \in Entry
<1>1. "error" \in Reasons /\ ErrCooldown \in Nat
  BY DurationAssumption DEF Reasons
<1>2. Cooled(e, ErrCooldown, "error", t) \in Entry
  BY <1>1, CooledType
<1>3. WorkCooled(e, ErrCooldown, "error", t) \in Entry
  BY <1>1, WorkCooledType
<1>4. [e EXCEPT !.errCount = @ + 1] \in Entry
  BY DEF Entry
<1>5. [e EXCEPT !.workErrCount = @ + 1] \in Entry
  BY DEF Entry
<1>6. ErrorNoted(e, t) \in Entry
  BY <1>2, <1>4 DEF ErrorNoted
<1>7. WorkErrorNoted(e, t) \in Entry
  BY <1>3, <1>5 DEF WorkErrorNoted
<1>8. SuccessNoted(e) \in Entry
  BY DEF SuccessNoted, Entry
<1>9. WorkSuccessNoted(e) \in Entry
  BY DEF WorkSuccessNoted, Entry
<1> QED
  BY <1>6, <1>7, <1>8, <1>9

\* The switches and balances keep the type.
LEMMA SettersType ==
  ASSUME NEW e \in Entry
  PROVE  /\ \A c \in Int : WithWorkCredits(e, c) \in Entry
         /\ Disabled(e, "session_dead") \in Entry
         /\ \A on \in BOOLEAN : Switched(e, on) \in Entry
         /\ \A c \in Int : Reenabled(e, c) \in Entry
         /\ \A c \in Int, x \in Nat : Accounted(e, c, x) \in Entry
<1>1. ASSUME NEW c \in Int PROVE WithWorkCredits(e, c) \in Entry
  BY DEF WithWorkCredits, Entry, Reasons
<1>2. Disabled(e, "session_dead") \in Entry
  BY DEF Disabled, Entry, Reasons
<1>3. ASSUME NEW on \in BOOLEAN PROVE Switched(e, on) \in Entry
  BY DEF Switched, Entry, Reasons
<1>4. ASSUME NEW c \in Int PROVE Reenabled(e, c) \in Entry
  BY DEF Reenabled, Entry, Reasons
<1>5. ASSUME NEW c \in Int, NEW x \in Nat PROVE Accounted(e, c, x) \in Entry
  BY DEF Accounted, Entry
<1> QED
  BY <1>1, <1>2, <1>3, <1>4, <1>5

\* Blocking a model keeps the type.
LEMMA CapabilityType ==
  ASSUME NEW e \in Entry, NEW t \in Nat, NEW m \in Models
  PROVE  /\ ModelBlocked(e, m, t) \in Entry
         /\ MaxBlocked(e, m, t) \in Entry
<1>1. ModelBlocked(e, m, t) \in Entry
  BY DEF ModelBlocked, Entry
<1>2. MaxBlocked(e, m, t) \in Entry
  BY DEF MaxBlocked, Entry
<1> QED
  BY <1>1, <1>2

\* What is not durable about an entry does not touch what is, and is nothing
\* the properties look at.
Transient(e, f) ==
  /\ Durable(f) = Durable(e)
  /\ f.inFlight = e.inFlight

\* Blocking a model is such a change.
LEMMA CapabilityTransient ==
  ASSUME NEW e \in Entry, NEW t \in Nat, NEW m \in Models
  PROVE  /\ Transient(e, ModelBlocked(e, m, t))
         /\ Transient(e, MaxBlocked(e, m, t))
<1> USE DEF Transient, Durable, Entry
<1>1. Transient(e, ModelBlocked(e, m, t))
  BY DEF ModelBlocked
<1>2. Transient(e, MaxBlocked(e, m, t))
  BY DEF MaxBlocked
<1> HIDE DEF Transient, Durable, Entry
<1> QED
  BY <1>1, <1>2

\* The cooldowns the handlers ask for are durations with a reason.
LEMMA CooldownsType ==
  \A c \in Cooldowns \cup WorkCooldowns : c[1] \in Nat /\ c[2] \in Reasons
<1>1. SUFFICES ASSUME NEW c \in Cooldowns \cup WorkCooldowns
               PROVE  c[1] \in Nat /\ c[2] \in Reasons
  OBVIOUS
<1>2. /\ PlanCooldown \in Nat /\ SoftCooldown \in Nat /\ ErrCooldown \in Nat
      /\ {"plan", "soft", "error", "work_credits"} \subseteq Reasons
  BY DurationAssumption DEF Reasons
<1>3. \/ c = <<PlanCooldown, "plan">> \/ c = <<SoftCooldown, "soft">>
      \/ c = <<ErrCooldown, "error">> \/ c = <<PlanCooldown, "work_credits">>
  BY <1>1 DEF Cooldowns, WorkCooldowns
<1>4. CASE c = <<PlanCooldown, "plan">>
  BY <1>2, <1>4
<1>5. CASE c = <<SoftCooldown, "soft">>
  BY <1>2, <1>5
<1>6. CASE c = <<ErrCooldown, "error">>
  BY <1>2, <1>6
<1>7. CASE c = <<PlanCooldown, "work_credits">>
  BY <1>2, <1>7
<1> QED
  BY <1>3, <1>4, <1>5, <1>6, <1>7

\* ... and none of them is empty.
LEMMA CooldownsPositive == \A c \in Cooldowns \cup WorkCooldowns : c[1] \in Nat \ {0}
<1>1. SUFFICES ASSUME NEW c \in Cooldowns \cup WorkCooldowns
               PROVE  c[1] \in {PlanCooldown, SoftCooldown, ErrCooldown}
  BY DurationAssumption
<1>2. \/ c = <<PlanCooldown, "plan">> \/ c = <<SoftCooldown, "soft">>
      \/ c = <<ErrCooldown, "error">> \/ c = <<PlanCooldown, "work_credits">>
  BY <1>1 DEF Cooldowns, WorkCooldowns
<1>3. CASE c[1] = PlanCooldown
  BY <1>3
<1>4. CASE c[1] = SoftCooldown
  BY <1>4
<1>5. CASE c[1] = ErrCooldown
  BY <1>5
<1> QED
  BY <1>2, <1>3, <1>4, <1>5

\* Taking and giving back a lease keeps the type.
LEMMA LeaseType ==
  ASSUME NEW e \in Entry
  PROVE  LeaseTaken(e) \in Entry /\ LeaseGiven(e) \in Entry
<1>1. LeaseTaken(e) \in Entry
  BY DEF LeaseTaken, Entry
<1>2. LeaseGiven(e) \in Entry
  BY DEF LeaseGiven, Entry
<1> QED
  BY <1>1, <1>2

\* What is written to state.json, and what is read back, has its type.
LEMMA StoredType ==
  /\ \A e \in Entry : Durable(e) \in Stored
  /\ \A s \in Stored : Loaded(s) \in Entry
<1>1. ASSUME NEW e \in Entry PROVE Durable(e) \in Stored
  BY DEF Durable, Stored, Entry
<1>2. ASSUME NEW s \in Stored PROVE Loaded(s) \in Entry
  <2>1. /\ s.credits \in Int /\ s.nearestExpire \in Nat /\ s.workCredits \in Int
        /\ s.disabled \in BOOLEAN /\ s.enabled \in BOOLEAN
        /\ s.reason \in Reasons /\ s.until \in Nat
        /\ s.workReason \in Reasons /\ s.workUntil \in Nat
        /\ s.checkinGen \in Nat /\ s.checkinRetryAfter \in Nat
        /\ s.checkinRetryCount \in Nat
    BY DEF Stored
  <2> QED
    BY <2>1, NewEntryType DEF Loaded, Entry
<1> QED
  BY <1>1, <1>2

\* A row of state.json survives being loaded and written again.
LEMMA LoadThenSave ==
  ASSUME NEW s \in Stored
  PROVE  Durable(Loaded(s)) = s
BY DEF Durable, Loaded, Stored, NewEntry

-----------------------------------------------------------------------------
(* Type correctness and the durability of the pool's state.  The inductive  *)
(* invariant adds that an absent account has the initial entry: without it  *)
(* Add could bring back state that state.json does not have.                *)

AbsentIsNew == \A u \in Uids \ present : entry[u] = NewEntry

IInv == TypeOK /\ AbsentIsNew /\ RestartLosesNothing

\* A save that succeeds leaves nothing in memory only.
LEMMA SaveWritesAll ==
  ASSUME entry' \in [Uids -> Entry], disk \in [Uids -> Stored], Save
  PROVE  /\ disk' \in [Uids -> Stored]
         /\ saved' \in BOOLEAN
         /\ saved' => \A u \in Uids : disk'[u] = Durable(entry'[u])
<1>1. PICK ok \in SaveOutcomes :
        /\ saved' = ok
        /\ disk' = IF ok THEN [u \in Uids |-> Durable(entry'[u])] ELSE disk
  BY DEF Save
<1>2. ok \in BOOLEAN
  BY PoolAssumption
<1>3. [u \in Uids |-> Durable(entry'[u])] \in [Uids -> Stored]
  BY StoredType
<1>4. CASE saved'
  BY <1>1, <1>3, <1>4
<1>5. CASE ~saved'
  BY <1>1, <1>2, <1>5
<1> QED
  BY <1>1, <1>2, <1>4, <1>5

\* A method that saves keeps the invariant, whatever it wrote.
LEMMA UpdateAndSaveInv ==
  ASSUME IInv, NEW u \in Uids, NEW e \in Entry, UpdateAndSave(u, e)
  PROVE  IInv'
<1> USE DEF IInv, UpdateAndSave
<1>1. /\ entry' \in [Uids -> Entry]
      /\ UNCHANGED <<present, held, now>>
      /\ \A v \in Uids \ present : entry'[v] = entry[v]
  BY DEF Update, TypeOK
<1>2. /\ disk' \in [Uids -> Stored]
      /\ saved' \in BOOLEAN
      /\ saved' => \A v \in Uids : disk'[v] = Durable(entry'[v])
  BY <1>1, SaveWritesAll DEF TypeOK
<1>3. TypeOK'
  BY <1>1, <1>2 DEF TypeOK
<1>4. AbsentIsNew'
  BY <1>1 DEF AbsentIsNew
<1>5. RestartLosesNothing'
  BY <1>1, <1>2 DEF RestartLosesNothing, TypeOK
<1> QED
  BY <1>3, <1>4, <1>5

\* What is not saved is not durable.
\* A method that does not save keeps it if it changes nothing durable.
LEMMA UpdateOnlyInv ==
  ASSUME IInv, NEW u \in Uids, NEW e \in Entry, UpdateOnly(u, e),
         Durable(e) = Durable(entry[u])
  PROVE  IInv'
<1> USE DEF IInv, UpdateOnly
<1>1. /\ entry' \in [Uids -> Entry]
      /\ UNCHANGED <<present, held, now, disk, saved>>
      /\ \A v \in Uids \ present : entry'[v] = entry[v]
      /\ \A v \in Uids : Durable(entry'[v]) = Durable(entry[v])
  BY DEF Update, TypeOK
<1>2. TypeOK'
  BY <1>1 DEF TypeOK
<1>3. AbsentIsNew'
  BY <1>1 DEF AbsentIsNew
<1>4. RestartLosesNothing'
  BY <1>1 DEF RestartLosesNothing, TypeOK
<1> QED
  BY <1>2, <1>3, <1>4

\* The methods of the dev channel keep the invariant.
LEMMA DevChannelInv ==
  ASSUME IInv, NEW u \in Uids, DevChannel(u)
  PROVE  IInv'
<1>1. entry[u] \in Entry /\ now \in Nat
  BY DEF IInv, TypeOK
<1>2. CASE Cooldown(u)
  <2>1. PICK c \in Cooldowns : UpdateAndSave(u, Cooled(entry[u], c[1], c[2], now))
    BY <1>2 DEF Cooldown
  <2>2. c[1] \in Nat /\ c[2] \in Reasons
    BY CooldownsType
  <2> QED
    BY <1>1, <2>1, <2>2, CooledType, UpdateAndSaveInv
<1>3. CASE NoteError(u)
  BY <1>1, <1>3, NotedType, UpdateAndSaveInv DEF NoteError
<1>4. CASE NoteSuccess(u)
  <2>1. Durable(SuccessNoted(entry[u])) = Durable(entry[u])
    BY <1>1 DEF Durable, SuccessNoted, Entry
  <2> QED
    BY <1>1, <1>4, <2>1, NotedType, UpdateOnlyInv DEF NoteSuccess
<1>5. CASE Disable(u)
  BY <1>1, <1>5, SettersType, UpdateAndSaveInv DEF Disable
<1>6. CASE ReenableIfCredits(u)
  <2>1. PICK c \in CreditValues : UpdateAndSave(u, Reenabled(entry[u], c))
    BY <1>6 DEF ReenableIfCredits
  <2> QED
    BY <1>1, <2>1, PoolAssumption, SettersType, UpdateAndSaveInv
<1>7. CASE Account(u)
  <2>1. PICK c \in CreditValues, x \in ExpireValues :
          UpdateAndSave(u, Accounted(entry[u], c, x))
    BY <1>7 DEF Account
  <2>2. c \in Int /\ x \in Nat
    BY PoolAssumption
  <2> QED
    BY <1>1, <2>1, <2>2, SettersType, UpdateAndSaveInv
<1>8. ASSUME NEW on \in BOOLEAN, SetEnabled(u, on) PROVE IInv'
  BY <1>1, <1>8, SettersType, UpdateAndSaveInv DEF SetEnabled
<1> QED
  BY <1>2, <1>3, <1>4, <1>5, <1>6, <1>7, <1>8 DEF DevChannel

\* The methods of the work channel keep the invariant.
LEMMA WorkChannelInv ==
  ASSUME IInv, NEW u \in Uids, WorkChannel(u)
  PROVE  IInv'
<1>1. entry[u] \in Entry /\ now \in Nat
  BY DEF IInv, TypeOK
<1>2. CASE CooldownWork(u)
  <2>1. PICK c \in WorkCooldowns :
          UpdateAndSave(u, WorkCooled(entry[u], c[1], c[2], now))
    BY <1>2 DEF CooldownWork
  <2>2. c[1] \in Nat /\ c[2] \in Reasons
    BY CooldownsType
  <2> QED
    BY <1>1, <2>1, <2>2, WorkCooledType, UpdateAndSaveInv
<1>3. CASE NoteWorkError(u)
  BY <1>1, <1>3, NotedType, UpdateAndSaveInv DEF NoteWorkError
<1>4. CASE NoteWorkSuccess(u)
  <2>1. Durable(WorkSuccessNoted(entry[u])) = Durable(entry[u])
    BY <1>1 DEF Durable, WorkSuccessNoted, Entry
  <2> QED
    BY <1>1, <1>4, <2>1, NotedType, UpdateOnlyInv DEF NoteWorkSuccess
<1>5. CASE SetWorkCredits(u)
  <2>1. PICK c \in WorkCreditValues : UpdateAndSave(u, WithWorkCredits(entry[u], c))
    BY <1>5 DEF SetWorkCredits
  <2> QED
    BY <1>1, <2>1, PoolAssumption, SettersType, UpdateAndSaveInv
<1> QED
  BY <1>2, <1>3, <1>4, <1>5 DEF WorkChannel

\* Every step on the capability tables is such a change.
LEMMA CapabilityStep ==
  ASSUME IInv, NEW u \in Uids, Capabilities(u)
  PROVE  \E e \in Entry : UpdateOnly(u, e) /\ Transient(entry[u], e)
<1>1. entry[u] \in Entry /\ now \in Nat
  BY DEF IInv, TypeOK
<1> USE <1>1
<1>2. ASSUME NEW m \in Models, BlockModel(u, m) \/ BlockMaxModel(u, m)
      PROVE  \E e \in Entry : UpdateOnly(u, e) /\ Transient(entry[u], e)
  BY <1>2, CapabilityType, CapabilityTransient DEF BlockModel, BlockMaxModel
<1>3. CASE SetModels(u)
  <2>1. PICK ms \in SUBSET Models : UpdateOnly(u, ModelsSet(entry[u], ms))
    BY <1>3 DEF SetModels
  <2>2. ModelsSet(entry[u], ms) \in Entry
    BY DEF ModelsSet, Entry
  <2>3. Transient(entry[u], ModelsSet(entry[u], ms))
    BY DEF ModelsSet, Entry, Transient, Durable
  <2> QED
    BY <2>1, <2>2, <2>3
<1>4. CASE SetMaxModels(u)
  <2>1. PICK known \in BOOLEAN, ms \in SUBSET Models :
          UpdateOnly(u, MaxModelsSet(entry[u], known, ms))
    BY <1>4 DEF SetMaxModels
  <2>2. MaxModelsSet(entry[u], known, ms) \in Entry
    BY DEF MaxModelsSet, Entry
  <2>3. Transient(entry[u], MaxModelsSet(entry[u], known, ms))
    BY DEF MaxModelsSet, Entry, Transient, Durable
  <2> QED
    BY <2>1, <2>2, <2>3
<1>5. CASE Pick(u)
  <2>1. Stamped(entry[u], now) \in Entry
    BY DEF Stamped, Entry
  <2>2. Transient(entry[u], Stamped(entry[u], now))
    BY DEF Stamped, Entry, Transient, Durable
  <2> QED
    BY <1>5, <2>1, <2>2 DEF Pick
<1> QED
  BY <1>2, <1>3, <1>4, <1>5 DEF Capabilities

\* Adding and removing accounts keeps the invariant.
LEMMA MembershipInv ==
  ASSUME IInv, NEW u \in Uids, Membership(u)
  PROVE  IInv'
<1> USE DEF IInv
<1>1. CASE Add(u)
  <2>1. TypeOK'
    BY <1>1 DEF Add, TypeOK
  <2>2. AbsentIsNew'
    BY <1>1 DEF Add, AbsentIsNew
  <2>3. RestartLosesNothing'
    BY <1>1 DEF Add, AbsentIsNew, RestartLosesNothing
  <2> QED
    BY <2>1, <2>2, <2>3
<1>2. CASE Remove(u)
  <2>1. /\ entry' \in [Uids -> Entry]
        /\ present' = present \ {u}
        /\ UNCHANGED <<held, now>>
        /\ entry'[u] = NewEntry
        /\ \A v \in Uids \ {u} : entry'[v] = entry[v]
    BY <1>2, NewEntryType DEF Remove, TypeOK
  <2>2. /\ disk' \in [Uids -> Stored]
        /\ saved' \in BOOLEAN
        /\ saved' => \A v \in Uids : disk'[v] = Durable(entry'[v])
    BY <1>2, <2>1, SaveWritesAll DEF Remove, TypeOK
  <2>3. TypeOK'
    BY <2>1, <2>2 DEF TypeOK
  <2>4. AbsentIsNew'
    BY <2>1 DEF AbsentIsNew
  <2>5. RestartLosesNothing'
    BY <2>1, <2>2 DEF RestartLosesNothing, TypeOK
  <2> QED
    BY <2>3, <2>4, <2>5
<1> QED
  BY <1>1, <1>2 DEF Membership

\* A restart reads back exactly the rows of the accounts it keeps.
LEMMA RestartInv ==
  ASSUME IInv, NEW files \in SUBSET Uids, Restart(files)
  PROVE  IInv'
<1> USE DEF IInv
<1>1. \A u \in Uids : disk[u] \in Stored /\ Loaded(disk[u]) \in Entry
  BY StoredType DEF TypeOK
<1>2. /\ present' = files
      /\ entry' = [u \in Uids |-> IF u \in files THEN Loaded(disk[u])
                                                ELSE NewEntry]
      /\ saved' = TRUE
      /\ held' = [c \in Clients |-> NoUid]
      /\ UNCHANGED <<disk, now>>
  BY DEF Restart
<1>3. TypeOK'
  BY <1>1, <1>2, NewEntryType DEF TypeOK
<1>4. AbsentIsNew'
  BY <1>2 DEF AbsentIsNew
<1>5. \A u \in files : Durable(entry'[u]) = disk'[u]
  BY <1>1, <1>2, LoadThenSave
<1>6. RestartLosesNothing'
  BY <1>2, <1>5 DEF RestartLosesNothing
<1> QED
  BY <1>3, <1>4, <1>6

\* Acquire and Release keep the invariant.
LEMMA LeasesInv ==
  ASSUME IInv, NEW c \in Clients, Leases(c)
  PROVE  IInv'
<1> USE DEF IInv
<1>1. /\ entry' \in [Uids -> Entry]
      /\ held' \in [Clients -> Uids \cup {NoUid}]
      /\ UNCHANGED <<present, disk, saved, now>>
      /\ \A v \in Uids \ present : entry'[v] = entry[v]
      /\ \A v \in Uids : Durable(entry'[v]) = Durable(entry[v])
  <2>1. \A u \in Uids :
          /\ LeaseTaken(entry[u]) \in Entry /\ LeaseGiven(entry[u]) \in Entry
          /\ Durable(LeaseTaken(entry[u])) = Durable(entry[u])
          /\ Durable(LeaseGiven(entry[u])) = Durable(entry[u])
    <3>1. SUFFICES ASSUME NEW u \in Uids
                   PROVE  /\ LeaseTaken(entry[u]) \in Entry
                          /\ LeaseGiven(entry[u]) \in Entry
                          /\ Durable(LeaseTaken(entry[u])) = Durable(entry[u])
                          /\ Durable(LeaseGiven(entry[u])) = Durable(entry[u])
      OBVIOUS
    <3>2. entry[u] \in Entry
      BY DEF TypeOK
    <3>3. Durable(LeaseTaken(entry[u])) = Durable(entry[u])
      BY <3>2 DEF Durable, LeaseTaken, Entry
    <3>4. Durable(LeaseGiven(entry[u])) = Durable(entry[u])
      BY <3>2 DEF Durable, LeaseGiven, Entry
    <3> QED
      BY <3>2, <3>3, <3>4, LeaseType
  <2>2. CASE Release(c)
    <3>1. held[c] \in Uids
      BY <2>2 DEF Release, TypeOK
    <3> QED
      BY <2>1, <2>2, <3>1 DEF Release, TypeOK
  <2>3. CASE \E u \in Uids : Acquire(c, u)
    <3>1. PICK u \in Uids : Acquire(c, u)
      BY <2>3
    <3> QED
      BY <2>1, <3>1 DEF Acquire, TypeOK
  <2> QED
    BY <2>2, <2>3 DEF Leases
<1>2. TypeOK'
  BY <1>1 DEF TypeOK
<1>3. AbsentIsNew'
  BY <1>1 DEF AbsentIsNew
<1>4. RestartLosesNothing'
  BY <1>1 DEF RestartLosesNothing, TypeOK
<1> QED
  BY <1>2, <1>3, <1>4

\* The invariant holds at the first start.
LEMMA InitInv == Init => IInv
<1>1. SUFFICES ASSUME Init PROVE IInv
  OBVIOUS
<1>2. NewEntry \in Entry /\ Durable(NewEntry) \in Stored
  BY NewEntryType, StoredType
<1> QED
  BY <1>1, <1>2 DEF Init, IInv, TypeOK, AbsentIsNew, RestartLosesNothing

\* Every step keeps the invariant.
LEMMA NextInv == IInv /\ [Next]_vars => IInv'
<1>1. SUFFICES ASSUME IInv, [Next]_vars PROVE IInv'
  OBVIOUS
<1>2. ASSUME NEW u \in Uids, Membership(u) \/ DevChannel(u) \/ WorkChannel(u)
      PROVE  IInv'
  BY <1>1, <1>2, MembershipInv, DevChannelInv, WorkChannelInv
<1>2a. ASSUME NEW u \in Uids, Capabilities(u) PROVE IInv'
  BY <1>1, <1>2a, CapabilityStep, UpdateOnlyInv DEF Transient
<1>3. ASSUME NEW c \in Clients, Leases(c) PROVE IInv'
  BY <1>1, <1>3, LeasesInv
<1>4. ASSUME NEW files \in SUBSET Uids, Restart(files) PROVE IInv'
  BY <1>1, <1>4, RestartInv
<1>5. CASE Tick
  BY <1>1, <1>5 DEF Tick, IInv, TypeOK, AbsentIsNew, RestartLosesNothing
<1>6. CASE UNCHANGED vars
  BY <1>1, <1>6 DEF vars, IInv, TypeOK, AbsentIsNew, RestartLosesNothing
<1> QED
  BY <1>1, <1>2, <1>2a, <1>3, <1>4, <1>5, <1>6 DEF Next

\* The invariant holds at every moment.
LEMMA Inductive == Spec => []IInv
BY InitInv, NextInv, PTL DEF Spec

\* Every variable keeps its type, whatever is called in whatever order.
THEOREM TypeCorrect == Spec => []TypeOK
<1>1. IInv => TypeOK
  BY DEF IInv
<1> QED
  BY <1>1, Inductive, PTL

\* A crash at any moment after a successful save loses nothing the pool knows
\* about an account: for any number of accounts, clients and failed saves.
THEOREM Durability == Spec => []RestartLosesNothing
<1>1. IInv => RestartLosesNothing
  BY DEF IInv
<1> QED
  BY <1>1, Inductive, PTL

-----------------------------------------------------------------------------
(* Leases.  The invariant is inductive: a request that takes a lease joins  *)
(* the holders, and one that gives it back lowers the count whenever there  *)
(* is one to lower.                                                         *)

\* The requests holding an account are finitely many.
LEMMA HoldersFinite ==
  ASSUME NEW h, NEW u
  PROVE  IsFiniteSet({c \in Clients : h[c] = u})
BY PoolAssumption, FS_Subset

-----------------------------------------------------------------------------
(* What every method of the two channels leaves of an entry: its leases,    *)
(* its disabling, and each cooldown unless its balance is positive.         *)

Keeps(e, f, t) ==
  /\ f.inFlight = e.inFlight
  /\ e.disabled => f.disabled
  /\ Cooling(e, t) /\ ~Cooling(f, t) => f.credits > 0
  /\ WorkCooling(e, t) /\ ~WorkCooling(f, t) => f.workCredits > 0

\* A positive cooldown starts now, and replaces whatever was there.
LEMMA CooledKeeps ==
  ASSUME NEW e \in Entry, NEW t \in Nat, NEW d \in Nat \ {0},
         NEW why \in Reasons
  PROVE  /\ Keeps(e, Cooled(e, d, why, t), t)
         /\ Keeps(e, WorkCooled(e, d, why, t), t)
         /\ Cooled(e, d, why, t).enabled = e.enabled
         /\ WorkCooled(e, d, why, t).enabled = e.enabled
<1>1. t + d \in Nat /\ t + d # 0 /\ t < t + d
  OBVIOUS
<1>2. /\ Cooled(e, d, why, t).until = t + d
      /\ Cooled(e, d, why, t).workUntil = e.workUntil
      /\ Cooled(e, d, why, t).inFlight = e.inFlight
      /\ Cooled(e, d, why, t).disabled = e.disabled
      /\ Cooled(e, d, why, t).enabled = e.enabled
  BY DEF Cooled, Entry
<1>3. /\ WorkCooled(e, d, why, t).workUntil = t + d
      /\ WorkCooled(e, d, why, t).until = e.until
      /\ WorkCooled(e, d, why, t).inFlight = e.inFlight
      /\ WorkCooled(e, d, why, t).disabled = e.disabled
      /\ WorkCooled(e, d, why, t).enabled = e.enabled
  BY DEF WorkCooled, Entry
<1> QED
  BY <1>1, <1>2, <1>3 DEF Keeps, Cooling, WorkCooling

\* An error either counts, or starts the error cooldown.
LEMMA NotedKeeps ==
  ASSUME NEW e \in Entry, NEW t \in Nat
  PROVE  /\ Keeps(e, ErrorNoted(e, t), t)
         /\ Keeps(e, WorkErrorNoted(e, t), t)
         /\ ErrorNoted(e, t).enabled = e.enabled
         /\ WorkErrorNoted(e, t).enabled = e.enabled
<1>1. ErrCooldown \in Nat \ {0}
  BY DurationAssumption
<1>2. /\ Keeps(e, [e EXCEPT !.errCount = @ + 1], t)
      /\ [e EXCEPT !.errCount = @ + 1].enabled = e.enabled
  BY DEF Keeps, Cooling, WorkCooling, Entry
<1>3. /\ Keeps(e, [e EXCEPT !.workErrCount = @ + 1], t)
      /\ [e EXCEPT !.workErrCount = @ + 1].enabled = e.enabled
  BY DEF Keeps, Cooling, WorkCooling, Entry
<1> QED
  <2>1. "error" \in Reasons
    BY DEF Reasons
  <2> QED
    BY <1>1, <1>2, <1>3, <2>1, CooledKeeps DEF ErrorNoted, WorkErrorNoted

\* The other methods.
LEMMA SettersKeep ==
  ASSUME NEW e \in Entry, NEW t \in Nat
  PROVE  /\ \A f \in {SuccessNoted(e), WorkSuccessNoted(e),
                      Disabled(e, "session_dead"), Switched(e, FALSE)} :
              Keeps(e, f, t) /\ (f.enabled => e.enabled)
         /\ Keeps(e, Switched(e, TRUE), t)
         /\ \A c \in Int : /\ Keeps(e, Reenabled(e, c), t)
                           /\ Reenabled(e, c).enabled = e.enabled
                           /\ Keeps(e, WithWorkCredits(e, c), t)
                           /\ WithWorkCredits(e, c).enabled = e.enabled
<1> USE DEF Keeps, Cooling, WorkCooling, Entry
<1>1. /\ Keeps(e, SuccessNoted(e), t) /\ SuccessNoted(e).enabled = e.enabled
      /\ Keeps(e, WorkSuccessNoted(e), t)
      /\ WorkSuccessNoted(e).enabled = e.enabled
  BY DEF SuccessNoted, WorkSuccessNoted
<1>2. /\ Keeps(e, Disabled(e, "session_dead"), t)
      /\ Disabled(e, "session_dead").enabled = e.enabled
  BY DEF Disabled
<1>3. Keeps(e, Switched(e, FALSE), t) /\ ~Switched(e, FALSE).enabled
  BY DEF Switched
<1>4. Keeps(e, Switched(e, TRUE), t)
  BY DEF Switched
<1>5. ASSUME NEW c \in Int
      PROVE  Keeps(e, Reenabled(e, c), t) /\ Reenabled(e, c).enabled = e.enabled
  BY DEF Reenabled
<1>6. ASSUME NEW c \in Int
      PROVE  /\ Keeps(e, WithWorkCredits(e, c), t)
             /\ WithWorkCredits(e, c).enabled = e.enabled
  BY DEF WithWorkCredits
<1> HIDE DEF Keeps, Cooling, WorkCooling, Entry
<1> QED
  BY <1>1, <1>2, <1>3, <1>4, <1>5, <1>6

\* A new balance lifts no cooldown.
LEMMA AccountedKeeps ==
  ASSUME NEW e \in Entry, NEW t \in Nat, NEW c \in Int, NEW x \in Nat
  PROVE  /\ Keeps(e, Accounted(e, c, x), t)
         /\ Accounted(e, c, x).enabled = e.enabled
BY DEF Keeps, Cooling, WorkCooling, Entry, Accounted

\* Every step of a channel works on one entry this way, and only the user's
\* PATCH switches an account on.
LEMMA ChannelStep ==
  ASSUME IInv, NEW u \in Uids, DevChannel(u) \/ WorkChannel(u)
  PROVE  \E e : /\ Update(u, e)
                /\ Keeps(entry[u], e, now)
                /\ ~entry[u].enabled /\ e.enabled => SetEnabled(u, TRUE)
<1> DEFINE Goal(e) == /\ Update(u, e)
                      /\ Keeps(entry[u], e, now)
                      /\ ~entry[u].enabled /\ e.enabled => SetEnabled(u, TRUE)
<1>1. entry[u] \in Entry /\ now \in Nat
  BY DEF IInv, TypeOK
<1>2. CASE Cooldown(u) \/ CooldownWork(u)
  <2>1. PICK c \in Cooldowns \cup WorkCooldowns :
          \/ UpdateAndSave(u, Cooled(entry[u], c[1], c[2], now))
          \/ UpdateAndSave(u, WorkCooled(entry[u], c[1], c[2], now))
    BY <1>2 DEF Cooldown, CooldownWork
  <2>2. PICK d \in Nat \ {0}, why \in Reasons :
          \/ UpdateAndSave(u, Cooled(entry[u], d, why, now))
          \/ UpdateAndSave(u, WorkCooled(entry[u], d, why, now))
    BY <2>1, CooldownsType, CooldownsPositive
  <2>3. CASE UpdateAndSave(u, Cooled(entry[u], d, why, now))
    <3>1. /\ Keeps(entry[u], Cooled(entry[u], d, why, now), now)
          /\ Cooled(entry[u], d, why, now).enabled = entry[u].enabled
      BY <1>1, CooledKeeps
    <3>2. Goal(Cooled(entry[u], d, why, now))
      BY <2>3, <3>1 DEF UpdateAndSave
    <3> QED
      BY <3>2
  <2>4. CASE UpdateAndSave(u, WorkCooled(entry[u], d, why, now))
    <3>1. /\ Keeps(entry[u], WorkCooled(entry[u], d, why, now), now)
          /\ WorkCooled(entry[u], d, why, now).enabled = entry[u].enabled
      BY <1>1, CooledKeeps
    <3>2. Goal(WorkCooled(entry[u], d, why, now))
      BY <2>4, <3>1 DEF UpdateAndSave
    <3> QED
      BY <3>2
  <2> QED
    BY <2>2, <2>3, <2>4
<1>3. CASE NoteError(u) \/ NoteWorkError(u)
  <2>1. Goal(ErrorNoted(entry[u], now)) \/ Goal(WorkErrorNoted(entry[u], now))
    BY <1>1, <1>3, NotedKeeps DEF NoteError, NoteWorkError, UpdateAndSave
  <2> QED
    BY <2>1
<1>4. CASE NoteSuccess(u) \/ NoteWorkSuccess(u)
  <2>1. Goal(SuccessNoted(entry[u])) \/ Goal(WorkSuccessNoted(entry[u]))
    BY <1>1, <1>4, SettersKeep DEF NoteSuccess, NoteWorkSuccess, UpdateOnly
  <2> QED
    BY <2>1
<1>5. CASE Disable(u)
  <2>1. Goal(Disabled(entry[u], "session_dead"))
    BY <1>1, <1>5, SettersKeep DEF Disable, UpdateAndSave
  <2> QED
    BY <2>1
<1>6. CASE ReenableIfCredits(u)
  <2>1. PICK c \in CreditValues : UpdateAndSave(u, Reenabled(entry[u], c))
    BY <1>6 DEF ReenableIfCredits
  <2>2. Goal(Reenabled(entry[u], c))
    BY <1>1, <2>1, PoolAssumption, SettersKeep DEF UpdateAndSave
  <2> QED
    BY <2>2
<1>7. CASE Account(u)
  <2>1. PICK c \in CreditValues, x \in ExpireValues :
          UpdateAndSave(u, Accounted(entry[u], c, x))
    BY <1>7 DEF Account
  <2>2. c \in Int /\ x \in Nat
    BY PoolAssumption
  <2>3. /\ Keeps(entry[u], Accounted(entry[u], c, x), now)
        /\ Accounted(entry[u], c, x).enabled = entry[u].enabled
    BY <1>1, <2>2, AccountedKeeps
  <2>4. Goal(Accounted(entry[u], c, x))
    BY <2>1, <2>3 DEF UpdateAndSave
  <2> QED
    BY <2>4
<1>8. CASE SetWorkCredits(u)
  <2>1. PICK c \in WorkCreditValues :
          UpdateAndSave(u, WithWorkCredits(entry[u], c))
    BY <1>8 DEF SetWorkCredits
  <2>2. Goal(WithWorkCredits(entry[u], c))
    BY <1>1, <2>1, PoolAssumption, SettersKeep DEF UpdateAndSave
  <2> QED
    BY <2>2
<1>9. CASE SetEnabled(u, TRUE)
  <2>1. Goal(Switched(entry[u], TRUE))
    BY <1>1, <1>9, SettersKeep DEF SetEnabled, UpdateAndSave
  <2> QED
    BY <2>1
<1>10. CASE SetEnabled(u, FALSE)
  <2>1. Goal(Switched(entry[u], FALSE))
    BY <1>1, <1>10, SettersKeep DEF SetEnabled, UpdateAndSave
  <2> QED
    BY <2>1
<1> QED
  BY <1>2, <1>3, <1>4, <1>5, <1>6, <1>7, <1>8, <1>9, <1>10
     DEF DevChannel, WorkChannel

-----------------------------------------------------------------------------
(* Leases.  The invariant is inductive: a request that takes a lease joins  *)
(* the holders, and one that gives it back lowers the count whenever there  *)
(* is one to lower.                                                         *)

\* They can be counted, before a step and after.
LEMMA HoldersType ==
  ASSUME NEW u
  PROVE  /\ IsFiniteSet(Holders(u)) /\ Cardinality(Holders(u)) \in Nat
         /\ IsFiniteSet(Holders(u)') /\ Cardinality(Holders(u)') \in Nat
BY PoolAssumption, FS_Subset, FS_CardinalityType DEF Holders

\* Acquire and Release keep the count below the number of holders.
LEMMA LeasesNoLeak ==
  ASSUME IInv, NoLeakedLease, NEW c \in Clients, Leases(c)
  PROVE  NoLeakedLease'
<1> SUFFICES ASSUME NEW u \in Uids
             PROVE  entry'[u].inFlight <= Cardinality(Holders(u)')
  BY DEF NoLeakedLease
<1>1. /\ entry \in [Uids -> Entry] /\ held \in [Clients -> Uids \cup {NoUid}]
      /\ u # NoUid
  BY PoolAssumption DEF IInv, TypeOK
<1>2. /\ entry[u].inFlight \in Nat
      /\ entry[u].inFlight <= Cardinality(Holders(u))
      /\ u \notin present => entry[u].inFlight = 0
  <2>1. entry[u].inFlight \in Nat
    BY <1>1 DEF Entry
  <2>2. u \notin present => entry[u].inFlight = 0
    <3>1. NewEntry.inFlight = 0
      BY DEF NewEntry
    <3> QED
      BY <3>1 DEF IInv, AbsentIsNew
  <2> QED
    BY <2>1, <2>2 DEF NoLeakedLease
<1>3. ASSUME Release(c) \/ (\E v \in Uids \ {u} : Acquire(c, v)), held[c] # u
      PROVE  entry'[u].inFlight <= Cardinality(Holders(u)')
  <2>1. entry'[u] = entry[u] /\ held'[c] # u
    BY <1>1, <1>3 DEF Release, Acquire
  <2>2. Holders(u)' = Holders(u)
    BY <1>1, <1>3, <2>1 DEF Holders, Release, Acquire
  <2> QED
    BY <1>2, <2>1, <2>2
<1>4. CASE Release(c) /\ held[c] = u
  <2>1. Holders(u)' = Holders(u) \ {c} /\ c \in Holders(u)
    BY <1>1, <1>4 DEF Holders, Release
  <2>2. Cardinality(Holders(u)') = Cardinality(Holders(u)) - 1
    BY <2>1, HoldersType, FS_RemoveElement
  <2>3. entry'[u] = IF u \in present THEN LeaseGiven(entry[u]) ELSE entry[u]
    BY <1>1, <1>4 DEF Release
  <2>4. \/ entry'[u].inFlight = 0
        \/ entry'[u].inFlight = entry[u].inFlight - 1
    BY <1>1, <1>2, <2>3 DEF LeaseGiven, Entry
  <2> QED
    BY <1>2, <2>2, <2>4, HoldersType
<1>5. CASE Acquire(c, u)
  <2>1. Holders(u)' = Holders(u) \cup {c} /\ c \notin Holders(u)
    BY <1>1, <1>5 DEF Holders, Acquire
  <2>2. Cardinality(Holders(u)') = Cardinality(Holders(u)) + 1
    BY <2>1, HoldersType, FS_AddElement
  <2>3. entry'[u].inFlight \in {entry[u].inFlight, entry[u].inFlight + 1}
    BY <1>1, <1>2, <1>5 DEF Acquire, LeaseTaken, Entry
  <2> QED
    BY <1>2, <2>2, <2>3, HoldersType
<1>6. CASE \E v \in Uids \ {u} : Acquire(c, v)
  <2>1. held[c] = NoUid
    BY <1>6 DEF Acquire
  <2> QED
    BY <1>1, <1>3, <1>6, <2>1
<1> QED
  BY <1>3, <1>4, <1>5, <1>6 DEF Leases

\* Every other step leaves the holders alone or starts from nothing.
LEMMA NoLeakStep == IInv /\ NoLeakedLease /\ [Next]_vars => NoLeakedLease'
<1>1. SUFFICES ASSUME IInv, NoLeakedLease, [Next]_vars
               PROVE  NoLeakedLease'
  OBVIOUS
<1>2. ASSUME held' = held, \A u \in Uids : entry'[u].inFlight <= entry[u].inFlight
      PROVE  NoLeakedLease'
  <2> SUFFICES ASSUME NEW u \in Uids
               PROVE  entry'[u].inFlight <= Cardinality(Holders(u)')
    BY DEF NoLeakedLease
  <2>1. Holders(u)' = Holders(u)
    BY <1>2 DEF Holders
  <2>2. entry[u].inFlight <= Cardinality(Holders(u))
    BY <1>1 DEF NoLeakedLease
  <2>3. entry[u].inFlight \in Int /\ entry'[u].inFlight \in Int
    BY <1>1, NextInv DEF IInv, TypeOK, Entry
  <2> QED
    BY <1>2, <2>1, <2>2, <2>3, HoldersType
<1>3. ASSUME NEW u \in Uids, DevChannel(u) \/ WorkChannel(u)
      PROVE  NoLeakedLease'
  <2>1. PICK e : Update(u, e) /\ Keeps(entry[u], e, now)
    BY <1>1, <1>3, ChannelStep
  <2>2. held' = held /\ \A v \in Uids : entry'[v].inFlight = entry[v].inFlight
    BY <1>1, <2>1 DEF Update, Keeps, IInv, TypeOK
  <2>3. \A v \in Uids : entry[v].inFlight \in Nat
    BY <1>1 DEF IInv, TypeOK, Entry
  <2> QED
    BY <1>2, <2>2, <2>3
<1>3a. ASSUME NEW u \in Uids, Capabilities(u)
       PROVE  NoLeakedLease'
  <2>1. PICK e \in Entry : UpdateOnly(u, e) /\ Transient(entry[u], e)
    BY <1>1, <1>3a, CapabilityStep
  <2>2. held' = held /\ \A v \in Uids : entry'[v].inFlight = entry[v].inFlight
    BY <1>1, <2>1 DEF UpdateOnly, Update, Transient, IInv, TypeOK
  <2>3. \A v \in Uids : entry[v].inFlight \in Nat
    BY <1>1 DEF IInv, TypeOK, Entry
  <2> QED
    BY <1>2, <2>2, <2>3
<1>4. ASSUME NEW u \in Uids, Membership(u)
      PROVE  NoLeakedLease'
  <2>1. NewEntry.inFlight = 0 /\ \A v \in Uids : entry[v].inFlight \in Nat
    BY <1>1 DEF NewEntry, IInv, TypeOK, Entry
  <2>2. /\ held' = held
        /\ \A v \in Uids : entry'[v].inFlight \in {0, entry[v].inFlight}
    BY <1>1, <1>4, <2>1 DEF Membership, Add, Remove, IInv, TypeOK
  <2> QED
    BY <1>2, <2>1, <2>2
<1>5. ASSUME NEW files \in SUBSET Uids, Restart(files)
      PROVE  NoLeakedLease'
  <2>1. NewEntry.inFlight = 0 /\ \A s : Loaded(s).inFlight = 0
    BY DEF NewEntry, Loaded
  <2>2. \A u \in Uids : entry'[u].inFlight = 0
    BY <1>5, <2>1 DEF Restart
  <2> QED
    BY <2>2, HoldersType DEF NoLeakedLease
<1>6. CASE Tick \/ UNCHANGED vars
  <2>1. held' = held /\ entry' = entry
    BY <1>6 DEF Tick, vars
  <2>2. \A v \in Uids : entry[v].inFlight \in Nat
    BY <1>1 DEF IInv, TypeOK, Entry
  <2> QED
    BY <1>2, <2>1, <2>2
<1> QED
  BY <1>1, <1>3, <1>3a, <1>4, <1>5, <1>6, LeasesNoLeak DEF Next

\* No crash, removal, re-import or exit path leaves an account counted as
\* busier than the requests that hold it, for any number of requests.
THEOREM NoLeak == Spec => []NoLeakedLease
<1>1. Init => NoLeakedLease
  <2>1. NewEntry.inFlight = 0
    BY DEF NewEntry
  <2> QED
    BY <2>1, HoldersType DEF Init, NoLeakedLease
<1> QED
  BY <1>1, NoLeakStep, Inductive, PTL DEF Spec

-----------------------------------------------------------------------------
(* What a step may do to a stopped or cooled account. *)

KeptAt(u) ==
  /\ now' = now =>
       /\ Cooling(entry[u], now) /\ ~Cooling(entry'[u], now)
            => entry'[u].credits > 0
       /\ WorkCooling(entry[u], now) /\ ~WorkCooling(entry'[u], now)
            => entry'[u].workCredits > 0
  /\ entry[u].disabled => entry'[u].disabled
  /\ ~entry[u].enabled /\ entry'[u].enabled => SetEnabled(u, TRUE)

\* A restart keeps them because state.json has them: Durability is what the
\* two action properties rest on.
LEMMA RestartKeeps ==
  ASSUME IInv, saved, NEW files \in SUBSET Uids, Restart(files),
         NEW u \in present \cap files
  PROVE  KeptAt(u)
<1>1. u \in Uids /\ entry[u] \in Entry /\ entry'[u] = Loaded(disk[u])
  BY DEF IInv, TypeOK, Restart
<1>2. CASE Durable(entry[u]) = disk[u]
  <2>1. /\ disk[u].disabled = entry[u].disabled
        /\ disk[u].enabled = entry[u].enabled
        /\ disk[u].until = entry[u].until
        /\ disk[u].workUntil = entry[u].workUntil
    BY <1>2 DEF Durable
  <2>2. /\ Loaded(disk[u]).disabled = disk[u].disabled
        /\ Loaded(disk[u]).enabled = disk[u].enabled
        /\ Loaded(disk[u]).until = disk[u].until
        /\ Loaded(disk[u]).workUntil = disk[u].workUntil
    BY DEF Loaded, NewEntry
  <2> QED
    BY <1>1, <2>1, <2>2 DEF KeptAt, Cooling, WorkCooling
<1>3. CASE Durable(entry[u]) = Durable(NewEntry)
  <2>1. /\ ~Durable(NewEntry).disabled /\ Durable(NewEntry).enabled
        /\ Durable(NewEntry).until = 0 /\ Durable(NewEntry).workUntil = 0
    BY DEF Durable, NewEntry
  <2>2. /\ ~entry[u].disabled /\ entry[u].enabled
        /\ entry[u].until = 0 /\ entry[u].workUntil = 0
    BY <1>3, <2>1 DEF Durable
  <2> QED
    BY <2>2 DEF KeptAt, Cooling, WorkCooling
<1> QED
  BY <1>2, <1>3 DEF IInv, RestartLosesNothing

\* Every step of Pool keeps cooldowns and stops, account by account.
LEMMA StepKeeps ==
  IInv /\ [Next]_vars => [LiftedByCredits]_vars /\ [StopKept]_vars
<1>1. SUFFICES ASSUME IInv, Next, saved, NEW u \in present \cap present'
               PROVE  KeptAt(u)
  BY DEF LiftedByCredits, StopKept, KeptAt
<1>2. u \in Uids /\ entry \in [Uids -> Entry]
  BY <1>1 DEF IInv, TypeOK
<1>3. CASE entry'[u] = entry[u]
  BY <1>3 DEF KeptAt
<1>4. ASSUME NEW w \in Uids, DevChannel(w) \/ WorkChannel(w)
      PROVE  KeptAt(u)
  <2>1. PICK e : /\ Update(w, e)
                 /\ Keeps(entry[w], e, now)
                 /\ ~entry[w].enabled /\ e.enabled => SetEnabled(w, TRUE)
    BY <1>1, <1>4, ChannelStep
  <2>2. CASE w = u
    <3>1. entry'[u] = e
      BY <1>1, <1>2, <2>1, <2>2 DEF Update
    <3> QED
      BY <2>1, <2>2, <3>1 DEF KeptAt, Keeps
  <2>3. CASE w # u
    <3>1. entry'[u] = entry[u]
      BY <1>2, <2>1, <2>3 DEF Update
    <3> QED
      BY <1>3, <3>1
  <2> QED
    BY <2>2, <2>3
<1>4a. ASSUME NEW w \in Uids, Capabilities(w)
       PROVE  KeptAt(u)
  <2>1. PICK e \in Entry : UpdateOnly(w, e) /\ Transient(entry[w], e)
    BY <1>1, <1>4a, CapabilityStep
  <2>2. entry'[u] = entry[u] \/ (w = u /\ entry'[u] = e)
    BY <1>2, <2>1 DEF UpdateOnly, Update
  <2>3. Durable(entry'[u]) = Durable(entry[u])
    BY <2>1, <2>2 DEF Transient
  <2>4. /\ entry'[u].until = entry[u].until
        /\ entry'[u].workUntil = entry[u].workUntil
        /\ entry'[u].disabled = entry[u].disabled
        /\ entry'[u].enabled = entry[u].enabled
    BY <2>3 DEF Durable
  <2> QED
    BY <2>4 DEF KeptAt, Cooling, WorkCooling
<1>5. ASSUME NEW w \in Uids, Membership(w)
      PROVE  KeptAt(u)
  <2>1. entry'[u] = entry[u]
    BY <1>1, <1>2, <1>5 DEF Membership, Add, Remove
  <2> QED
    BY <1>3, <2>1
<1>6. ASSUME NEW c \in Clients, Leases(c)
      PROVE  KeptAt(u)
  <2>1. \/ entry'[u] = entry[u]
        \/ entry'[u] = LeaseTaken(entry[u]) \/ entry'[u] = LeaseGiven(entry[u])
    BY <1>2, <1>6 DEF Leases, Acquire, Release
  <2>2. /\ entry'[u].until = entry[u].until
        /\ entry'[u].workUntil = entry[u].workUntil
        /\ entry'[u].disabled = entry[u].disabled
        /\ entry'[u].enabled = entry[u].enabled
    BY <1>2, <2>1 DEF LeaseTaken, LeaseGiven, Entry
  <2> QED
    BY <2>2 DEF KeptAt, Cooling, WorkCooling
<1>7. ASSUME NEW files \in SUBSET Uids, Restart(files)
      PROVE  KeptAt(u)
  <2>1. u \in present \cap files
    BY <1>1, <1>7 DEF Restart
  <2> QED
    BY <1>1, <1>7, <2>1, RestartKeeps
<1>8. CASE Tick
  <2>1. entry'[u] = entry[u]
    BY <1>8 DEF Tick
  <2> QED
    BY <1>3, <2>1
<1> QED
  BY <1>1, <1>4, <1>4a, <1>5, <1>6, <1>7, <1>8 DEF Next

\* A cooled-down account comes back early only with a positive balance.
THEOREM OnlyCreditsLift == Spec => CooldownLiftedOnlyByCredits
BY StepKeeps, Inductive, PTL DEF Spec, CooldownLiftedOnlyByCredits

\* A dead session stays out while the account is in the pool, and a soft switch
\* is undone by the user alone.
THEOREM StopsAreKept == Spec => StopsStick
BY StepKeeps, Inductive, PTL DEF Spec, StopsStick

(***************************************************************************)
(* Part II: the handlers                                                   *)
(***************************************************************************)
-----------------------------------------------------------------------------
(* What a handler knows at each point. *)

OnAccount == {"hold", "call", "gate", "plan", "stream", "wcall", "wread"}
InLoop == {"hold", "call", "gate", "plan", "stream"}
InWork == {"work", "wcall", "wread"}

LocalOK(p, r) ==
  /\ p # "idle" => r.model \in Models
  /\ p \in OnAccount => r.acct \in Uids
  /\ p \in InLoop => r.i < MaxRotate
  /\ p \in InWork /\ r.after = "pick" => r.i < MaxRotate
  /\ p \in {"wcall", "wread"} => r.wi < MaxRotate
  /\ p = "plan" => r.after # "exit"

HandlerInv ==
  /\ pc \in [Clients -> Points]
  /\ req \in [Clients -> Request]
  /\ \A c \in Clients : LocalOK(pc[c], req[c])

AuxOK ==
  /\ affinity \in [{"dev", "work"} \X Sessions -> Uids \cup {NoUid}]
  /\ probes \subseteq Uids \X {"asking", "zero"}

\* One request moves to another point, and is not over.
Moves(c, p, r) ==
  /\ p \in Points \ {"idle"}
  /\ pc' = [pc EXCEPT ![c] = p]
  /\ req' = [req EXCEPT ![c] = r]

Advances(c) ==
  /\ HandlerInv'
  /\ \E p \in Points \ {"idle"} : pc' = [pc EXCEPT ![c] = p]

\* A move to a point whose local condition holds keeps the invariant.
LEMMA MovesInv ==
  ASSUME HandlerInv, NEW c \in Clients, NEW p \in Points, NEW r \in Request,
         LocalOK(p, r), Moves(c, p, r)
  PROVE  Advances(c)
<1>1. HandlerInv'
  BY DEF HandlerInv, Moves
<1> QED
  BY <1>1 DEF Advances, Moves

\* A step that moves no request.
LEMMA StaysInv ==
  ASSUME HandlerInv, NEW c \in Clients, pc[c] # "idle", UNCHANGED <<pc, req>>
  PROVE  Advances(c)
<1>1. HandlerInv'
  BY DEF HandlerInv
<1>2. pc' = [pc EXCEPT ![c] = pc[c]] /\ pc[c] \in Points
  BY DEF HandlerInv
<1> QED
  BY <1>1, <1>2 DEF Advances

\* The steps that stay within the loops.
LEMMA StepsType ==
  ASSUME NEW r \in Request
  PROVE  /\ r.i < MaxRotate => [r EXCEPT !.i = @ + 1] \in Request
         /\ r.wi < MaxRotate => [r EXCEPT !.wi = @ + 1] \in Request
         /\ \A u \in Uids : [r EXCEPT !.tried = @ \cup {u}, !.acct = u] \in Request
         /\ \A u \in Uids : [r EXCEPT !.wtried = @ \cup {u}, !.acct = u] \in Request
         /\ \A a \in {"pick", "exit"} :
              [r EXCEPT !.wi = 0, !.wtried = {}, !.after = a] \in Request
<1>0. MaxRotate \in Nat
  BY RotationAssumption
<1>1. ASSUME r.i < MaxRotate PROVE [r EXCEPT !.i = @ + 1] \in Request
  BY <1>0, <1>1 DEF Request
<1>2. ASSUME r.wi < MaxRotate PROVE [r EXCEPT !.wi = @ + 1] \in Request
  BY <1>0, <1>2 DEF Request
<1>3. ASSUME NEW u \in Uids
      PROVE  /\ [r EXCEPT !.tried = @ \cup {u}, !.acct = u] \in Request
             /\ [r EXCEPT !.wtried = @ \cup {u}, !.acct = u] \in Request
  BY DEF Request
<1>4. ASSUME NEW a \in {"pick", "exit"}
      PROVE  [r EXCEPT !.wi = 0, !.wtried = {}, !.after = a] \in Request
  <2>1. 0 \in 0..MaxRotate /\ a \in {"work", "pick", "stream", "exit"} /\ {} \in SUBSET Uids
    BY <1>0
  <2> QED
    BY <2>1 DEF Request
<1> QED
  BY <1>1, <1>2, <1>3, <1>4

\* Entering the work channel, from a point where the loop may still go on if it
\* is to come back.
LEMMA EnterWorkInv ==
  ASSUME HandlerInv, NEW c \in Clients, NEW r \in Request,
         NEW a \in {"pick", "exit"}, EnterWork(c, r, a),
         r.model \in Models, a = "pick" => r.i < MaxRotate
  PROVE  Advances(c)
<1> DEFINE s == [r EXCEPT !.wi = 0, !.wtried = {}, !.after = a]
<1>1. s \in Request
  BY StepsType
<1>2. LocalOK("work", s)
  BY DEF LocalOK, OnAccount, InLoop, InWork, Request
<1>3. Moves(c, "work", s)
  BY DEF EnterWork, Goto, Set, Moves, Points
<1>4. "work" \in Points
  BY DEF Points
<1> QED
  BY <1>1, <1>2, <1>3, <1>4, MovesInv

\* The next iteration of the dev loop, when there is one left.
LEMMA RotateInv ==
  ASSUME HandlerInv, NEW c \in Clients, Rotate(c), req[c].i < MaxRotate,
         pc[c] # "idle"
  PROVE  Advances(c)
<1> DEFINE s == [req[c] EXCEPT !.i = @ + 1]
<1>1. req[c] \in Request /\ req[c].model \in Models
  BY DEF HandlerInv, LocalOK
<1>2. s \in Request
  BY <1>1, StepsType
<1>3. LocalOK("pick", s)
  BY <1>1 DEF LocalOK, OnAccount, InLoop, InWork, Request
<1>4. Moves(c, "pick", s) /\ "pick" \in Points
  BY DEF Rotate, Goto, Set, Moves, Points
<1> QED
  BY <1>2, <1>3, <1>4, MovesInv

\* A request that was answered.
LEMMA FinishInv ==
  ASSUME HandlerInv, NEW c \in Clients, Finish(c), pc[c] # "idle"
  PROVE  Advances(c)
<1>1. req[c] \in Request /\ LocalOK("exit", req[c])
  BY DEF HandlerInv, LocalOK, OnAccount, InLoop, InWork
<1>2. Moves(c, "exit", req[c]) /\ "exit" \in Points
  BY DEF Finish, Goto, Moves, Points, HandlerInv
<1> QED
  BY <1>1, <1>2, MovesInv

\* A stream that goes on.
LEMMA ReadOnInv ==
  ASSUME HandlerInv, NEW c \in Clients, ReadOn(c),
         pc[c] \in {"call", "gate", "plan", "stream"}
  PROVE  Advances(c)
<1>1. /\ req[c] \in Request /\ req[c].model \in Models /\ req[c].acct \in Uids
      /\ req[c].i < MaxRotate
  BY DEF HandlerInv, LocalOK, OnAccount, InLoop
<1>2. LocalOK("stream", req[c])
  BY <1>1 DEF LocalOK, OnAccount, InLoop, InWork
<1>3. Moves(c, "stream", req[c]) /\ "stream" \in Points
  BY DEF ReadOn, Goto, Moves, Points, HandlerInv
<1> QED
  BY <1>1, <1>2, <1>3, MovesInv

\* An account was picked.
LEMMA TakeInv ==
  ASSUME HandlerInv, NEW c \in Clients, NEW u \in Uids, NEW r \in Request,
         Take(c, u, r), r.model \in Models, r.i < MaxRotate
  PROVE  Advances(c)
<1> DEFINE s == [r EXCEPT !.tried = @ \cup {u}, !.acct = u]
<1>1. s \in Request
  BY StepsType
<1>2. LocalOK("hold", s)
  BY DEF LocalOK, OnAccount, InLoop, InWork, Request
<1>3. Moves(c, "hold", s) /\ "hold" \in Points
  BY DEF Take, Goto, Set, Moves, Points
<1> QED
  BY <1>1, <1>2, <1>3, MovesInv

-----------------------------------------------------------------------------
(* One lemma per handler step that leaves the leases alone: it moves the    *)
(* request on, and changes the pool by at most one of its methods.          *)

RotInv == TypeOK /\ HandlerInv /\ AuxOK

Calm ==
  \/ UNCHANGED vars
  \/ \E u \in Uids : DevChannel(u) \/ WorkChannel(u) \/ Capabilities(u)

Good(c) == Calm /\ Advances(c) /\ AuxOK'

\* What the local condition gives at a point.
LEMMA AtPoint ==
  ASSUME RotInv, NEW c \in Clients
  PROVE  /\ req[c] \in Request
         /\ pc[c] # "idle" => req[c].model \in Models
         /\ pc[c] \in OnAccount => req[c].acct \in Uids
         /\ pc[c] \in InLoop => req[c].i < MaxRotate
         /\ pc[c] \in InWork /\ req[c].after = "pick" => req[c].i < MaxRotate
         /\ pc[c] \in {"wcall", "wread"} => req[c].wi < MaxRotate
         /\ pc[c] = "plan" => req[c].after # "exit"
BY DEF RotInv, HandlerInv, LocalOK

\* The cooldowns of the handlers are calls of Cooldown and CooldownWork.
LEMMA CooldownCalls ==
  ASSUME NEW u \in Uids
  PROVE  /\ \A w \in Penalties :
              UpdateAndSave(u, Cooled(entry[u], w[2], w[3], now)) => DevChannel(u)
         /\ UpdateAndSave(u, Cooled(entry[u], PlanCooldown, "plan", now))
              => DevChannel(u)
         /\ UpdateAndSave(u, Cooled(entry[u], SoftCooldown, "soft", now))
              => DevChannel(u)
         /\ \A w \in WorkPenalties :
              UpdateAndSave(u, WorkCooled(entry[u], w[2], w[3], now))
                => WorkChannel(u)
         /\ UpdateAndSave(u, WorkCooled(entry[u], PlanCooldown, "work_credits", now))
              => WorkChannel(u)
<1>1. \A d, why : <<d, why>> \in Cooldowns
        /\ UpdateAndSave(u, Cooled(entry[u], d, why, now)) => Cooldown(u)
  <2>1. SUFFICES ASSUME NEW d, NEW why, <<d, why>> \in Cooldowns,
                        UpdateAndSave(u, Cooled(entry[u], d, why, now))
                 PROVE  Cooldown(u)
    OBVIOUS
  <2>2. <<d, why>>[1] = d /\ <<d, why>>[2] = why
    OBVIOUS
  <2> QED
    BY <2>1, <2>2 DEF Cooldown
<1>2. \A d, why : <<d, why>> \in WorkCooldowns
        /\ UpdateAndSave(u, WorkCooled(entry[u], d, why, now)) => CooldownWork(u)
  <2>1. SUFFICES ASSUME NEW d, NEW why, <<d, why>> \in WorkCooldowns,
                        UpdateAndSave(u, WorkCooled(entry[u], d, why, now))
                 PROVE  CooldownWork(u)
    OBVIOUS
  <2>2. <<d, why>>[1] = d /\ <<d, why>>[2] = why
    OBVIOUS
  <2> QED
    BY <2>1, <2>2 DEF CooldownWork
<1>3. \A w \in Penalties : <<w[2], w[3]>> \in Cooldowns
  BY DEF Penalties, Cooldowns
<1>4. \A w \in WorkPenalties : <<w[2], w[3]>> \in WorkCooldowns
  BY DEF WorkPenalties, WorkCooldowns
<1>5. /\ <<PlanCooldown, "plan">> \in Cooldowns
      /\ <<SoftCooldown, "soft">> \in Cooldowns
      /\ <<PlanCooldown, "work_credits">> \in WorkCooldowns
  BY DEF Cooldowns, WorkCooldowns
<1> QED
  BY <1>1, <1>2, <1>3, <1>4, <1>5 DEF DevChannel, WorkChannel

\* A session is bound to an account.
LEMMA BindInv ==
  ASSUME RotInv, NEW kind \in {"dev", "work"}, NEW u \in Uids,
         NEW k \in Sessions \cup {NoSession}, Bind(kind, k, u)
  PROVE  affinity' \in [{"dev", "work"} \X Sessions -> Uids \cup {NoUid}]
<1>1. CASE k = NoSession
  BY <1>1 DEF Bind, RotInv, AuxOK
<1>2. CASE k \in Sessions
  BY <1>2, RotationAssumption DEF Bind, RotInv, AuxOK
<1> QED
  BY <1>1, <1>2

\* A pick, with the session it binds.
LEMMA TakeStep ==
  ASSUME RotInv, NEW c \in Clients, NEW u \in Uids, NEW r \in Request,
         Take(c, u, r), r.model \in Models, r.i < MaxRotate
  PROVE  Good(c)
<1>1. Advances(c)
  BY TakeInv DEF RotInv
<1>2. Calm
  BY DEF Take, Calm, Capabilities
<1>3. r.session \in Sessions \cup {NoSession}
  BY DEF Request
<1>4. AuxOK'
  BY <1>3, BindInv DEF Take, AuxOK, RotInv
<1> QED
  BY <1>1, <1>2, <1>4 DEF Good

\* A request begins; q.max and what the tables say of it give the tier.
LEMMA StartStep ==
  ASSUME RotInv, NEW c \in Clients, Start(c)
  PROVE  Good(c)
<1> DEFINE R(q, b) == [Idle EXCEPT !.session = q.session, !.model = q.model,
                         !.stream = q.stream, !.max = b]
<1>1. PICK q \in Requests, b \in BOOLEAN :
        EnterWork(c, R(q, b), "exit") \/ (Goto(c, "filter") /\ Set(c, R(q, b)))
  <2>1. PICK q \in Requests :
          LET served == \E u \in present :
                          ~entry[u].maxProbed \/ q.model \in entry[u].maxModels
              r == R(q, q.max /\ served)
          IN  IF q.work THEN EnterWork(c, r, "exit")
              ELSE Goto(c, "filter") /\ Set(c, r)
    BY DEF Start
  <2> DEFINE b == q.max /\ \E u \in present :
                        ~entry[u].maxProbed \/ q.model \in entry[u].maxModels
  <2>2. q.max \in BOOLEAN
    BY RotationAssumption
  <2>3. b \in BOOLEAN
    BY <2>2
  <2>4. EnterWork(c, R(q, b), "exit") \/ (Goto(c, "filter") /\ Set(c, R(q, b)))
    BY <2>1
  <2> HIDE DEF b, R
  <2> QED
    BY <2>3, <2>4
<1> DEFINE r == R(q, b)
<1>2. /\ q.session \in Sessions \cup {NoSession} /\ q.model \in Models
      /\ q.stream \in BOOLEAN /\ 0 \in 0..MaxRotate
  BY RotationAssumption
<1>3. r \in Request
  BY <1>2 DEF Request, Idle
<1>4. r.model \in Models /\ r.i < MaxRotate
  BY <1>2, RotationAssumption DEF Idle
<1> HIDE DEF r
<1>5. EnterWork(c, r, "exit") \/ (Goto(c, "filter") /\ Set(c, r))
  BY <1>1 DEF r
<1>6. CASE EnterWork(c, r, "exit")
  <2>1. Advances(c)
    BY <1>3, <1>4, <1>6, EnterWorkInv DEF RotInv
  <2> QED
    BY <2>1 DEF Good, Calm, Start, AuxOK, RotInv
<1>7. CASE Goto(c, "filter") /\ Set(c, r)
  <2>1. Moves(c, "filter", r) /\ LocalOK("filter", r) /\ "filter" \in Points
    BY <1>4, <1>7
    DEF Goto, Set, Moves, Points, LocalOK, OnAccount, InLoop, InWork
  <2>2. Advances(c)
    BY <1>3, <2>1, MovesInv DEF RotInv
  <2> QED
    BY <2>2 DEF Good, Calm, Start, AuxOK, RotInv
<1> QED
  BY <1>5, <1>6, <1>7

\* A step that only rewrites the locals on the way to a pick.
LEMMA ToPick ==
  ASSUME RotInv, NEW c \in Clients, NEW r \in Request, r.model \in Models,
         Moves(c, "pick", r), UNCHANGED <<vars, affinity, probes>>
  PROVE  Good(c)
<1>1. LocalOK("pick", r) /\ "pick" \in Points
  BY DEF LocalOK, OnAccount, InLoop, InWork, Points
<1>2. Advances(c)
  BY <1>1, MovesInv DEF RotInv
<1> QED
  BY <1>2 DEF Good, Calm, AuxOK, RotInv

\* The steps of the dev loop before a call.
LEMMA PickStep ==
  ASSUME RotInv, NEW c \in Clients,
         ReadFilter(c) \/ PickAccount(c) \/ Downgrade(c) \/ LeaveLoop(c)
  PROVE  Good(c)
<1>1. /\ req[c] \in Request /\ req[c].model \in Models
      /\ present \subseteq Uids
  BY AtPoint DEF ReadFilter, PickAccount, Downgrade, LeaveLoop, At, RotInv, TypeOK
<1>2. CASE PickAccount(c)
  <2>1. PICK u \in Candidates(req[c], req[c].tried, req[c].max) : Take(c, u, req[c])
    BY <1>2 DEF PickAccount
  <2>2. u \in Uids /\ req[c].i < MaxRotate
    BY <1>1, <1>2, <2>1 DEF Candidates, PickAccount
  <2> QED
    BY <1>1, <2>1, <2>2, TakeStep
<1>3. CASE Downgrade(c)
  <2> DEFINE r == [req[c] EXCEPT !.max = FALSE, !.tried = {}]
  <2>1. r \in Request /\ r.model \in Models
    BY <1>1 DEF Request
  <2>2. Moves(c, "pick", r)
    <3>1. pc' = [pc EXCEPT ![c] = "pick"]
      BY <1>3 DEF Downgrade, At, RotInv, HandlerInv
    <3> QED
      BY <1>3, <3>1 DEF Downgrade, Set, Moves, Points
  <2> QED
    BY <1>3, <2>1, <2>2, ToPick DEF Downgrade
<1>4. CASE ReadFilter(c)
  <2> DEFINE f == IF \E u \in present : req[c].model \in entry[u].models
                  THEN {req[c].model} ELSE {}
  <2> DEFINE r == [req[c] EXCEPT !.filter = f]
  <2>1. f \in SUBSET Models
    BY <1>1
  <2>2. Moves(c, "pick", r)
    BY <1>4 DEF ReadFilter, Goto, Set, Moves, Points
  <2> HIDE DEF f
  <2>3. r \in Request /\ r.model \in Models
    BY <1>1, <2>1 DEF Request
  <2> HIDE DEF r
  <2> QED
    BY <1>4, <2>2, <2>3, ToPick DEF ReadFilter
<1>5. CASE LeaveLoop(c)
  <2>1. Advances(c)
    BY <1>1, <1>5, EnterWorkInv DEF RotInv, LeaveLoop
  <2> QED
    BY <1>5, <2>1 DEF Good, Calm, AuxOK, RotInv, LeaveLoop
<1> QED
  BY <1>2, <1>3, <1>4, <1>5

\* A 1005 that is attributed to the account or to the model.
LEMMA AttributeInv ==
  ASSUME RotInv, NEW c \in Clients, NEW a \in {"work", "pick", "stream"},
         Attribute(c, a), pc[c] \in {"call", "stream"}
  PROVE  Calm /\ Advances(c)
<1> DEFINE r == [req[c] EXCEPT !.after = a]
<1> DEFINE p == IF entry[req[c].acct].credits > 0 THEN "gate" ELSE "plan"
<1>1. /\ req[c] \in Request /\ req[c].model \in Models /\ req[c].acct \in Uids
      /\ req[c].i < MaxRotate
  BY AtPoint DEF OnAccount, InLoop
<1>2. p \in {"gate", "plan"} /\ Goto(c, p) /\ Set(c, r)
  BY DEF Attribute
<1> HIDE DEF p
<1>3. r \in Request /\ Moves(c, p, r) /\ p \in Points
  BY <1>1, <1>2 DEF Request, Moves, Goto, Set, Points
<1>4. LocalOK(p, r)
  BY <1>1, <1>2 DEF LocalOK, Request, OnAccount, InLoop, InWork
<1>5. Advances(c)
  BY <1>3, <1>4, MovesInv DEF RotInv
<1> QED
  BY <1>5 DEF Calm, Attribute

\* Every answer to a call on the dev channel.
LEMMA CallStep ==
  ASSUME RotInv, NEW c \in Clients, Call(c)
  PROVE  Good(c)
<1>1. /\ req[c] \in Request /\ req[c].model \in Models /\ req[c].acct \in Uids
      /\ req[c].i < MaxRotate /\ pc[c] # "idle"
  BY AtPoint DEF Call, At, OnAccount, InLoop
<1> DEFINE u == req[c].acct
<1>2. AuxOK'
  BY DEF Call, AuxOK, RotInv
<1>3. ASSUME Rotate(c) PROVE Advances(c)
  BY <1>1, <1>3, RotateInv DEF RotInv
<1>4. ASSUME Finish(c) PROVE Advances(c)
  BY <1>1, <1>4, FinishInv DEF RotInv
<1>5. \A m \in Models : BlockModel(u, m) \/ BlockMaxModel(u, m) => Calm
  BY <1>1 DEF Calm, Capabilities
<1>6. DevChannel(u) \/ UNCHANGED vars => Calm
  BY <1>1 DEF Calm
<1>7. ASSUME Penalised(c) PROVE Calm /\ Advances(c)
  <2>1. DevChannel(u)
    BY <1>1, <1>7, CooldownCalls DEF Penalised
  <2> QED
    BY <1>3, <1>6, <1>7, <2>1 DEF Penalised
<1>8. ASSUME Busy(c) PROVE Calm /\ Advances(c)
  BY <1>4, <1>6, <1>8 DEF Busy
<1>9. ASSUME PlanLimit(c) PROVE Calm /\ Advances(c)
  BY <1>9, AttributeInv DEF PlanLimit, Call, At
<1>10. ASSUME SessionDead(c) PROVE Calm /\ Advances(c)
  BY <1>3, <1>6, <1>10 DEF SessionDead, DevChannel
<1>11. ASSUME ClientError(c) PROVE Calm /\ Advances(c)
  BY <1>1, <1>3, <1>4, <1>5, <1>6, <1>11 DEF ClientError
<1>12. ASSUME OtherError(c) PROVE Calm /\ Advances(c)
  BY <1>3, <1>6, <1>12 DEF OtherError, DevChannel
<1>13. ASSUME Served(c) PROVE Calm /\ Advances(c)
  <2>1. Advances(c)
    BY <1>13, ReadOnInv DEF Served, Call, At, RotInv
  <2> QED
    BY <1>6, <1>13, <2>1 DEF Served, DevChannel
<1> QED
  BY <1>2, <1>7, <1>8, <1>9, <1>10, <1>11, <1>12, <1>13 DEF Call, Good

\* What follows a 1005.
LEMMA PlanStep ==
  ASSUME RotInv, NEW c \in Clients, PlanGate(c) \/ PlanCool(c)
  PROVE  Good(c)
<1>1. /\ req[c] \in Request /\ req[c].model \in Models /\ req[c].acct \in Uids
      /\ req[c].i < MaxRotate /\ pc[c] # "idle"
  BY AtPoint DEF PlanGate, PlanCool, At, OnAccount, InLoop
<1>2. Calm
  BY <1>1, CooldownCalls DEF PlanGate, PlanCool, Calm, Capabilities
<1>3. EnterWork(c, req[c], "pick") \/ Rotate(c) \/ ReadOn(c)
  <2>1. PlanCool(c) => req[c].after \in {"work", "pick", "stream"}
    BY <1>1, AtPoint DEF PlanCool, At, Request
  <2> QED
    BY <2>1 DEF PlanGate, PlanCool
<1>4. Advances(c)
  BY <1>1, <1>3, EnterWorkInv, RotateInv, ReadOnInv
  DEF PlanGate, PlanCool, At, RotInv
<1> QED
  BY <1>2, <1>4 DEF Good, PlanGate, PlanCool, AuxOK, RotInv

\* Events, errors and the end of a successful answer.
LEMMA StreamStep ==
  ASSUME RotInv, NEW c \in Clients,
         StreamError(c) \/ StreamEnds(c) \/ UsageEvent(c)
  PROVE  Good(c)
<1>1. /\ req[c] \in Request /\ req[c].model \in Models /\ req[c].acct \in Uids
      /\ req[c].i < MaxRotate /\ pc[c] # "idle"
  BY AtPoint DEF StreamError, StreamEnds, UsageEvent, At, OnAccount, InLoop
<1> DEFINE u == req[c].acct
<1>2. ASSUME Finish(c) PROVE Advances(c)
  BY <1>1, <1>2, FinishInv DEF RotInv
<1>3. \A m \in Models : BlockModel(u, m) \/ BlockMaxModel(u, m) => Calm
  BY <1>1 DEF Calm, Capabilities
<1>4. DevChannel(u) \/ UNCHANGED vars => Calm
  BY <1>1 DEF Calm
<1>5. CASE StreamError(c)
  <2>1. AuxOK'
    BY <1>5 DEF StreamError, AuxOK, RotInv
  <2>2. ASSUME StreamPlan(c) PROVE Calm /\ Advances(c)
    BY <1>5, <2>2, AttributeInv DEF StreamPlan, StreamError, At
  <2>3. ASSUME StreamThrottled(c) PROVE Calm /\ Advances(c)
    BY <1>1, <1>4, <1>5, <2>3, ReadOnInv, CooldownCalls
    DEF StreamThrottled, StreamError, At, RotInv
  <2>4. ASSUME StreamBreaks(c) PROVE Calm /\ Advances(c)
    BY <1>1, <1>3, <1>4, <1>5, <2>4, ReadOnInv
    DEF StreamBreaks, DevChannel, StreamError, At, RotInv
  <2> QED
    BY <1>5, <2>1, <2>2, <2>3, <2>4 DEF StreamError, Good
<1>6. CASE StreamEnds(c)
  BY <1>2, <1>4, <1>6 DEF StreamEnds, Good, AuxOK, RotInv
<1>7. CASE UsageEvent(c)
  <2>1. Advances(c)
    BY <1>1, <1>7, StaysInv DEF UsageEvent, rvars, RotInv
  <2> QED
    BY <1>4, <1>7, <2>1 DEF UsageEvent, DevChannel, Good, AuxOK, RotInv, rvars
<1> QED
  BY <1>5, <1>6, <1>7

\* The next iteration of the work loop.
LEMMA RotateWorkInv ==
  ASSUME RotInv, NEW c \in Clients, pc[c] \in {"wcall", "wread"}, RotateWork(c)
  PROVE  Advances(c)
<1>1. /\ req[c] \in Request /\ req[c].model \in Models /\ req[c].wi < MaxRotate
      /\ req[c].after = "pick" => req[c].i < MaxRotate
  BY AtPoint DEF InWork
<1> DEFINE r == [req[c] EXCEPT !.wi = @ + 1]
<1>2. r \in Request
  BY <1>1, StepsType
<1>3. LocalOK("work", r)
  BY <1>1 DEF LocalOK, Request, OnAccount, InLoop, InWork
<1>4. Moves(c, "work", r) /\ "work" \in Points
  BY DEF RotateWork, Moves, Goto, Set, Points
<1> QED
  BY <1>2, <1>3, <1>4, MovesInv DEF RotInv

\* The work loop, which takes no lease.
LEMMA WorkStep ==
  ASSUME RotInv, NEW c \in Clients,
         PickWork(c) \/ LeaveWork(c) \/ CallWork(c) \/ ReadWork(c)
  PROVE  Good(c)
<1>1. /\ req[c] \in Request /\ req[c].model \in Models /\ pc[c] # "idle"
      /\ req[c].after = "pick" => req[c].i < MaxRotate
  BY AtPoint DEF PickWork, LeaveWork, CallWork, ReadWork, At, InWork
<1>2. CASE PickWork(c)
  <2>1. PICK u \in WorkCandidates(req[c]) :
          /\ Bind("work", req[c].session, u)
          /\ Set(c, [req[c] EXCEPT !.wtried = @ \cup {u}, !.acct = u])
    BY <1>2 DEF PickWork
  <2>2. u \in Uids
    BY DEF WorkCandidates, RotInv, TypeOK
  <2> DEFINE r == [req[c] EXCEPT !.wtried = @ \cup {u}, !.acct = u]
  <2>3. r \in Request
    BY <1>1, <2>2, StepsType
  <2>4. LocalOK("wcall", r)
    <3>1. req[c].wi < MaxRotate
      BY <1>2 DEF PickWork
    <3> QED
      BY <1>1, <2>2, <3>1 DEF LocalOK, Request, OnAccount, InLoop, InWork
  <2>5. Moves(c, "wcall", r) /\ "wcall" \in Points
    BY <1>2, <2>1 DEF PickWork, Goto, Set, Moves, Points
  <2>6. Advances(c)
    BY <2>3, <2>4, <2>5, MovesInv DEF RotInv
  <2>7. req[c].session \in Sessions \cup {NoSession}
    BY <1>1 DEF Request
  <2>8. AuxOK'
    BY <1>2, <2>1, <2>2, <2>7, BindInv DEF PickWork, AuxOK, RotInv
  <2> QED
    BY <1>2, <2>6, <2>8 DEF Good, Calm, PickWork
<1>3. CASE LeaveWork(c)
  <2>1. ASSUME Rotate(c), req[c].after = "pick" PROVE Advances(c)
    BY <1>1, <2>1, RotateInv DEF RotInv
  <2>2. ASSUME Finish(c) PROVE Advances(c)
    BY <1>1, <2>2, FinishInv DEF RotInv
  <2> QED
    BY <1>3, <2>1, <2>2 DEF LeaveWork, Good, Calm, AuxOK, RotInv
<1>4. CASE CallWork(c)
  <2>1. req[c].acct \in Uids /\ pc[c] = "wcall" /\ req[c].wi < MaxRotate
    BY <1>4, AtPoint DEF CallWork, At, OnAccount
  <2> DEFINE u == req[c].acct
  <2>2. affinity' = affinity /\ probes' \subseteq Uids \X {"asking", "zero"}
    BY <1>4, <2>1 DEF CallWork, RotInv, AuxOK
  <2>3. AuxOK'
    BY <2>2 DEF RotInv, AuxOK
  <2>4. DevChannel(u) \/ WorkChannel(u)
    BY <1>4, <2>1, CooldownCalls DEF CallWork, DevChannel, WorkChannel
  <2>5. \/ RotateWork(c)
        \/ \E p \in {"exit", "wread"} : Goto(c, p) /\ UNCHANGED req
    BY <1>4 DEF CallWork
  <2>6. ASSUME NEW p \in {"exit", "wread"}, Goto(c, p), UNCHANGED req
        PROVE  Advances(c)
    <3>1. Moves(c, p, req[c]) /\ p \in Points
      BY <2>6 DEF Moves, Goto, Points, RotInv, HandlerInv
    <3>2. LocalOK(p, req[c])
      BY <1>1, <2>1 DEF LocalOK, OnAccount, InLoop, InWork
    <3> QED
      BY <1>1, <3>1, <3>2, MovesInv DEF RotInv
  <2>7. Advances(c)
    BY <2>1, <2>5, <2>6, RotateWorkInv
  <2> QED
    BY <2>1, <2>3, <2>4, <2>7 DEF Good, Calm
<1>5. CASE ReadWork(c)
  <2>1. req[c].acct \in Uids /\ pc[c] = "wread"
    BY <1>5, AtPoint DEF ReadWork, At, OnAccount
  <2>2. ASSUME Finish(c) PROVE Advances(c)
    BY <1>1, <2>2, FinishInv DEF RotInv
  <2>3. ASSUME RotateWork(c) PROVE Advances(c)
    BY <2>1, <2>3, RotateWorkInv
  <2> QED
    BY <1>5, <2>1, <2>2, <2>3
    DEF ReadWork, Good, Calm, WorkChannel, AuxOK, RotInv
<1> QED
  BY <1>2, <1>3, <1>4, <1>5

-----------------------------------------------------------------------------
(* Leases. *)

Exact == \A u \in Uids : entry[u].inFlight = Cardinality(Holders(u))
IdleFree == \A c \in Clients : At(c, "idle") => held[c] = NoUid

CInv == IInv /\ present = Uids /\ HandlerInv /\ AuxOK /\ Exact /\ IdleFree

\* A step that takes and gives no lease keeps every count exact.
LEMMA CalmExact ==
  ASSUME CInv, Calm \/ Tick
  PROVE  present' = present /\ held' = held /\ Exact'
<1>1. /\ present' = present /\ held' = held
      /\ \A v \in Uids : entry'[v].inFlight = entry[v].inFlight
  <2>0. IInv
    BY DEF CInv
  <2>1. CASE UNCHANGED vars \/ Tick
    BY <2>1 DEF vars, Tick
  <2>2. ASSUME NEW u \in Uids, DevChannel(u) \/ WorkChannel(u)
        PROVE  /\ present' = present /\ held' = held
               /\ \A v \in Uids : entry'[v].inFlight = entry[v].inFlight
    <3>1. PICK e : Update(u, e) /\ Keeps(entry[u], e, now)
      BY <2>0, <2>2, ChannelStep
    <3> QED
      BY <2>0, <3>1 DEF Update, Keeps, IInv, TypeOK
  <2>3. ASSUME NEW u \in Uids, Capabilities(u)
        PROVE  /\ present' = present /\ held' = held
               /\ \A v \in Uids : entry'[v].inFlight = entry[v].inFlight
    <3>1. PICK e \in Entry : UpdateOnly(u, e) /\ Transient(entry[u], e)
      BY <2>0, <2>3, CapabilityStep
    <3> QED
      BY <2>0, <3>1 DEF UpdateOnly, Update, Transient, IInv, TypeOK
  <2> QED
    BY <2>1, <2>2, <2>3 DEF Calm
<1>2. \A v \in Uids : Holders(v)' = Holders(v)
  BY <1>1 DEF Holders
<1> QED
  BY <1>1, <1>2 DEF CInv, Exact

\* Acquire and Release move the count and the set of holders together.
LEMMA LeasesExactStep ==
  ASSUME CInv, NEW c \in Clients, Leases(c)
  PROVE  present' = present /\ Exact'
<1>1. present' = present
  BY DEF Leases, Release, Acquire
<1> SUFFICES ASSUME NEW u \in Uids
             PROVE  entry'[u].inFlight = Cardinality(Holders(u)')
  BY <1>1 DEF Exact
<1>2. /\ entry \in [Uids -> Entry] /\ held \in [Clients -> Uids \cup {NoUid}]
      /\ u # NoUid /\ u \in present /\ entry[u] \in Entry
  BY PoolAssumption DEF CInv, IInv, TypeOK
<1>3. entry[u].inFlight \in Nat /\ entry[u].inFlight = Cardinality(Holders(u))
  BY <1>2 DEF CInv, Exact, Entry
<1>4. ASSUME Release(c) \/ (\E v \in Uids \ {u} : Acquire(c, v)), held[c] # u
      PROVE  entry'[u].inFlight = Cardinality(Holders(u)')
  <2>1. entry'[u] = entry[u] /\ held'[c] # u
    BY <1>2, <1>4 DEF Release, Acquire
  <2>2. Holders(u)' = Holders(u)
    BY <1>2, <1>4, <2>1 DEF Holders, Release, Acquire
  <2> QED
    BY <1>3, <2>1, <2>2
<1>5. CASE Release(c) /\ held[c] = u
  <2>1. Holders(u)' = Holders(u) \ {c} /\ c \in Holders(u)
    BY <1>2, <1>5 DEF Holders, Release
  <2>2. /\ Cardinality(Holders(u)') = Cardinality(Holders(u)) - 1
        /\ Cardinality(Holders(u)') \in Nat
    BY <2>1, HoldersType, FS_RemoveElement
  <2>3. entry'[u] = LeaseGiven(entry[u])
    BY <1>2, <1>5 DEF Release
  <2>4. entry'[u].inFlight = entry[u].inFlight - 1
    BY <1>2, <1>3, <2>2, <2>3, HoldersType DEF LeaseGiven, Entry
  <2> QED
    BY <1>3, <2>2, <2>4
<1>6. CASE Acquire(c, u)
  <2>1. Holders(u)' = Holders(u) \cup {c} /\ c \notin Holders(u)
    BY <1>2, <1>6 DEF Holders, Acquire
  <2>2. Cardinality(Holders(u)') = Cardinality(Holders(u)) + 1
    BY <2>1, HoldersType, FS_AddElement
  <2>3. entry'[u].inFlight = entry[u].inFlight + 1
    BY <1>2, <1>6 DEF Acquire, LeaseTaken, Entry
  <2> QED
    BY <1>3, <2>2, <2>3
<1>7. CASE \E v \in Uids \ {u} : Acquire(c, v)
  <2>1. held[c] = NoUid
    BY <1>7 DEF Acquire
  <2> QED
    BY <1>2, <1>4, <1>7, <2>1
<1> QED
  BY <1>4, <1>5, <1>6, <1>7 DEF Leases

\* GiveBack, Hold and Exit, the steps that do.
LEMMA LeaseStep ==
  ASSUME CInv, NEW c \in Clients, GiveBack(c) \/ Hold(c) \/ Exit(c)
  PROVE  /\ Leases(c) \/ UNCHANGED vars
         /\ HandlerInv' /\ AuxOK' /\ IdleFree'
<1>1. /\ RotInv /\ IdleFree /\ HandlerInv /\ AuxOK
      /\ pc \in [Clients -> Points] /\ req \in [Clients -> Request]
      /\ held \in [Clients -> Uids \cup {NoUid}]
  BY DEF CInv, IInv, RotInv, HandlerInv, TypeOK
<1>2. req[c] \in Request
  BY <1>1
<1>3. CASE GiveBack(c)
  <2>1. UNCHANGED <<pc, req, affinity, probes>> /\ pc[c] # "idle"
    BY <1>3 DEF GiveBack, rvars, At
  <2>2. HandlerInv' /\ AuxOK'
    BY <1>1, <2>1 DEF HandlerInv, AuxOK
  <2>3. \A d \in Clients : held'[d] \in {held[d], NoUid}
    BY <1>1, <1>3 DEF GiveBack, Release
  <2> QED
    BY <1>1, <1>3, <2>1, <2>2, <2>3 DEF GiveBack, Leases, IdleFree, At
<1>4. CASE Hold(c)
  <2> DEFINE b == req[c].max /\ MaxEntitled(entry[req[c].acct], req[c].model, now)
  <2> DEFINE r == [req[c] EXCEPT !.cur = b]
  <2>1. /\ req[c].model \in Models /\ req[c].acct \in Uids /\ pc[c] # "idle"
        /\ req[c].i < MaxRotate
    BY <1>1, <1>4, AtPoint DEF Hold, At, OnAccount, InLoop
  <2>2. b \in BOOLEAN
    BY <1>2 DEF Request
  <2>3. req' = [req EXCEPT ![c] = r] /\ pc' = [pc EXCEPT ![c] = "call"]
    BY <1>4 DEF Hold, Set, Goto
  <2> HIDE DEF b
  <2>4. r \in Request
    BY <1>2, <2>2 DEF Request
  <2>5. LocalOK("call", r)
    BY <1>2, <2>1 DEF LocalOK, Request, OnAccount, InLoop, InWork
  <2>6. Moves(c, "call", r) /\ "call" \in Points
    BY <2>3 DEF Moves, Points
  <2>7. HandlerInv'
    BY <1>1, <2>4, <2>5, <2>6, MovesInv DEF Advances
  <2>8. AuxOK'
    BY <1>1, <1>4 DEF Hold, AuxOK
  <2>9. held' = [held EXCEPT ![c] = req[c].acct]
    BY <1>4 DEF Hold, Acquire
  <2>10. IdleFree'
    BY <1>1, <2>3, <2>9 DEF IdleFree, At
  <2> QED
    BY <1>4, <2>1, <2>7, <2>8, <2>10 DEF Hold, Leases
<1>5. CASE Exit(c)
  <2>1. pc' = [pc EXCEPT ![c] = "idle"] /\ req' = [req EXCEPT ![c] = Idle]
    BY <1>5 DEF Exit, Goto, Set
  <2>2. Idle \in Request /\ "idle" \in Points
    <3>1. 0 \in 0..MaxRotate
      BY RotationAssumption
    <3> QED
      BY <3>1 DEF Idle, Request, Points
  <2>3. LocalOK("idle", Idle)
    BY DEF LocalOK, OnAccount, InLoop, InWork
  <2>4. HandlerInv'
    BY <1>1, <2>1, <2>2, <2>3 DEF HandlerInv
  <2>5. AuxOK'
    BY <1>1, <1>5 DEF Exit, AuxOK
  <2>6. \A d \in Clients : held'[d] = IF d = c THEN NoUid ELSE held[d]
    BY <1>1, <1>5 DEF Exit, Release, vars
  <2>7. IdleFree'
    BY <1>1, <2>1, <2>6 DEF IdleFree, At
  <2> QED
    BY <1>5, <2>4, <2>5, <2>7 DEF Exit, Leases
<1> QED
  BY <1>3, <1>4, <1>5

-----------------------------------------------------------------------------
(* The inductive invariant. *)

\* The steps of nobody's request.
LEMMA BackgroundStep ==
  ASSUME RotInv, NEW u \in Uids, ProbeWork(u) \/ ProbeCools(u) \/ Background(u)
  PROVE  Calm /\ AuxOK' /\ UNCHANGED <<pc, req>>
<1>1. UNCHANGED <<pc, req>>
  BY DEF ProbeWork, ProbeCools, Background, rvars
<1>2. CASE ProbeWork(u)
  <2>1. affinity' = affinity /\ probes' \subseteq Uids \X {"asking", "zero"}
    BY <1>2 DEF ProbeWork, RotInv, AuxOK
  <2>2. Calm
    BY <1>2 DEF ProbeWork, Calm, WorkChannel, SetWorkCredits
  <2> QED
    BY <1>1, <2>1, <2>2 DEF RotInv, AuxOK
<1>3. CASE ProbeCools(u)
  <2>1. affinity' = affinity /\ probes' \subseteq Uids \X {"asking", "zero"}
    BY <1>3 DEF ProbeCools, RotInv, AuxOK
  <2>2. Calm
    BY <1>3, CooldownCalls DEF ProbeCools, Calm
  <2> QED
    BY <1>1, <2>1, <2>2 DEF RotInv, AuxOK
<1>4. CASE Background(u)
  BY <1>1, <1>4
  DEF Background, Calm, DevChannel, Capabilities, rvars, RotInv, AuxOK
<1> QED
  BY <1>2, <1>3, <1>4

\* Every step of the handlers is at most one step of Pool, and keeps CInv.
LEMMA NextCInv == CInv /\ [NextC]_cvars => [Next]_vars /\ CInv'
<1> SUFFICES ASSUME CInv, [NextC]_cvars
             PROVE  [Next]_vars /\ CInv'
  OBVIOUS
<1>1. RotInv /\ IInv /\ IdleFree /\ present = Uids /\ HandlerInv /\ AuxOK
  BY DEF CInv, IInv, RotInv
<1>2. ASSUME Calm \/ Tick, HandlerInv', AuxOK', IdleFree'
      PROVE  [Next]_vars /\ CInv'
  <2>1. [Next]_vars
    BY <1>2 DEF Calm, Next
  <2>2. IInv'
    BY <1>1, <2>1, NextInv
  <2>3. present' = present /\ Exact'
    BY <1>2, CalmExact
  <2> QED
    BY <1>1, <1>2, <2>1, <2>2, <2>3 DEF CInv
<1>3. ASSUME NEW c \in Clients, Good(c)
      PROVE  [Next]_vars /\ CInv'
  <2>1. held' = held
    BY <1>3, CalmExact DEF Good
  <2>2. PICK p \in Points \ {"idle"} : pc' = [pc EXCEPT ![c] = p]
    BY <1>3 DEF Good, Advances
  <2>3. IdleFree'
    BY <1>1, <2>1, <2>2 DEF IdleFree, At, HandlerInv
  <2> QED
    BY <1>2, <1>3, <2>3 DEF Good, Advances
<1>4. ASSUME NEW c \in Clients, GiveBack(c) \/ Hold(c) \/ Exit(c)
      PROVE  [Next]_vars /\ CInv'
  <2>1. /\ Leases(c) \/ UNCHANGED vars
        /\ HandlerInv' /\ AuxOK' /\ IdleFree'
    BY <1>4, LeaseStep
  <2>2. CASE UNCHANGED vars
    BY <1>2, <2>1, <2>2 DEF Calm
  <2>3. CASE Leases(c)
    <3>1. [Next]_vars
      BY <2>3 DEF Next
    <3>2. IInv'
      BY <1>1, <3>1, NextInv
    <3>3. present' = present /\ Exact'
      BY <2>3, LeasesExactStep
    <3> QED
      BY <1>1, <2>1, <3>1, <3>2, <3>3 DEF CInv
  <2> QED
    BY <2>1, <2>2, <2>3
<1>5. ASSUME NEW c \in Clients, Start(c) \/ UsageEvent(c) \/ StreamError(c)
      PROVE  [Next]_vars /\ CInv'
  BY <1>1, <1>3, <1>5, StartStep, StreamStep
<1>6. ASSUME NEW c \in Clients, Handle(c)
      PROVE  [Next]_vars /\ CInv'
  <2>1. ReadFilter(c) \/ PickAccount(c) \/ Downgrade(c) \/ LeaveLoop(c) => Good(c)
    BY <1>1, PickStep
  <2>2. Call(c) \/ PlanGate(c) \/ PlanCool(c) \/ StreamEnds(c) => Good(c)
    BY <1>1, CallStep, PlanStep, StreamStep
  <2>3. PickWork(c) \/ LeaveWork(c) \/ CallWork(c) \/ ReadWork(c) => Good(c)
    BY <1>1, WorkStep
  <2> QED
    BY <1>3, <1>4, <1>6, <2>1, <2>2, <2>3 DEF Handle
<1>7. ASSUME NEW u \in Uids, ProbeWork(u) \/ ProbeCools(u) \/ Background(u)
      PROVE  [Next]_vars /\ CInv'
  <2>1. Calm /\ AuxOK' /\ UNCHANGED <<pc, req>>
    BY <1>1, <1>7, BackgroundStep
  <2>2. held' = held
    BY <2>1, CalmExact
  <2> QED
    BY <1>1, <1>2, <2>1, <2>2 DEF HandlerInv, IdleFree, At
<1>8. CASE Tick /\ UNCHANGED rvars
  BY <1>1, <1>2, <1>8 DEF Tick, rvars, HandlerInv, AuxOK, IdleFree, At
<1>9. CASE UNCHANGED cvars
  BY <1>1, <1>2, <1>9
  DEF Calm, cvars, rvars, vars, HandlerInv, AuxOK, IdleFree, At
<1> QED
  BY <1>5, <1>6, <1>7, <1>8, <1>9 DEF NextC

\* The invariant holds at the start.
LEMMA InitCInv == InitC => CInv
<1> SUFFICES ASSUME InitC
             PROVE  CInv
  OBVIOUS
<1>1. Init /\ present = Uids /\ IInv
  BY InitInv DEF InitC
<1>2. HandlerInv
  <2>1. 0 \in 0..MaxRotate
    BY RotationAssumption
  <2>2. Idle \in Request
    BY <2>1 DEF Idle, Request
  <2>3. LocalOK("idle", Idle)
    BY DEF LocalOK, OnAccount, InLoop, InWork
  <2> QED
    BY <2>2, <2>3 DEF InitC, HandlerInv, Points
<1>3. AuxOK
  BY DEF InitC, AuxOK
<1>4. \A u \in Uids : Holders(u) = {} /\ entry[u].inFlight = 0
  BY <1>1, PoolAssumption DEF Init, Holders, NewEntry
<1>5. Exact
  BY <1>4, FS_EmptySet DEF Exact
<1>6. IdleFree
  BY <1>1 DEF Init, IdleFree
<1> QED
  BY <1>1, <1>2, <1>3, <1>5, <1>6 DEF CInv

\* The invariant holds at every moment.
LEMMA InductiveC == SpecC => []CInv
<1>1. CInv /\ [NextC]_cvars => CInv'
  BY NextCInv
<1> QED
  BY <1>1, InitCInv, PTL DEF SpecC

\* Whatever upstream answers and however requests interleave, the handlers
\* change the pool only by its methods, one per critical section.
THEOREM RotationImplementsPool == SpecC => PoolSpec
<1>1. InitC => Init
  BY DEF InitC
<1>2. CInv /\ [NextC]_cvars => [Next]_vars
  BY NextCInv
<1> QED
  BY <1>1, <1>2, InductiveC, PTL DEF SpecC, PoolSpec, Spec

\* Every exit path of the handler gives back the lease it took, for any number
\* of requests, accounts and rotations.
THEOREM LeasesExact == SpecC => []LeaseExact
<1>1. CInv => LeaseExact
  BY DEF CInv, Exact, IdleFree, LeaseExact
<1> QED
  BY <1>1, InductiveC, PTL

\* The locals of the handlers stay within their bounds: no index passes the
\* rotation budget, no step works on an account that was never picked.
THEOREM RotationTypeCorrect == SpecC => []TypeOKC
<1>1. CInv => TypeOKC
  BY DEF CInv, IInv, HandlerInv, AuxOK, TypeOKC
<1> QED
  BY <1>1, InductiveC, PTL

\* What part I shows of the pool holds under the handlers.
THEOREM RotationKeepsPool ==
  SpecC => /\ []RestartLosesNothing
           /\ CooldownLiftedOnlyByCredits
           /\ StopsStick
BY RotationImplementsPool, Durability, OnlyCreditsLift, StopsAreKept, PTL
   DEF PoolSpec

-----------------------------------------------------------------------------
(* Selection.  FoldFacts gives the induction over a set of candidates. *)

Sets == INSTANCE FoldFacts WITH op <- LAMBDA x, y : x, choose <- LAMBDA x : x

\* The order of the candidates is strict and total.
LEMMA BetterOrders ==
  ASSUME entry \in [Uids -> Entry], NEW u \in Uids, NEW v \in Uids, NEW w \in Uids
  PROVE  /\ ~Better(u, u)
         /\ u # v => Better(u, v) \/ Better(v, u)
         /\ Better(u, v) /\ Better(v, w) => Better(u, w)
<1>1. \A x \in {u, v, w} : entry[x].nearestExpire \in Nat /\ entry[x].credits \in Int /\ x \in Nat
  BY RotationAssumption DEF Entry
<1> QED
  BY <1>1 DEF Better, Before

\* So each set of candidates has a best one.
LEMMA BestIsBest ==
  ASSUME entry \in [Uids -> Entry], NEW S \in SUBSET Uids, S # {}
  PROVE  Best(S) \in S /\ \A v \in S : v = Best(S) \/ Better(Best(S), v)
<1> DEFINE Tops(s) == \E b \in s : \A v \in s \ {b} : Better(b, v)
           T == {s \in SUBSET S : s = {} \/ Tops(s)}
<1>1. {} \in T
  OBVIOUS
<1>2. ASSUME NEW s \in SUBSET S, NEW x \in S \ s, s \in T
      PROVE  s \cup {x} \in T
  <2>1. CASE s = {}
    BY <2>1
  <2>2. CASE s # {}
    <3>1. PICK b \in s : \A v \in s \ {b} : Better(b, v)
      BY <1>2, <2>2
    <3>2. x \in Uids /\ b \in Uids /\ x # b
      BY <3>1
    <3>3. CASE Better(b, x)
      <4>1. \A v \in (s \cup {x}) \ {b} : Better(b, v)
        BY <3>1, <3>3
      <4> QED
        BY <4>1
    <3>4. CASE Better(x, b)
      <4>1. ASSUME NEW v \in (s \cup {x}) \ {x} PROVE Better(x, v)
        <5>1. v \in s /\ v \in Uids
          OBVIOUS
        <5> QED
          BY <3>1, <3>2, <3>4, <5>1, BetterOrders
      <4> QED
        BY <4>1
    <3> QED
      BY <3>2, <3>3, <3>4, BetterOrders
  <2> QED
    BY <2>1, <2>2
<1>3. IsFiniteSet(S)
  BY RotationAssumption, FS_Subset
<1>4. S \in T
  <2>1. Sets!IsFiniteSet(S)
    BY <1>3 DEF Sets!IsFiniteSet, IsFiniteSet
  <2> HIDE DEF T
  <2> QED
    BY <1>1, <1>2, <2>1, Sets!Growing
<1>5. \E b \in S : \A v \in S \ {b} : Better(b, v)
  BY <1>4
<1> QED
  BY <1>5 DEF Best

\* Nobody presses an account that is better, nor itself.
LEMMA BestIsNotPressed ==
  ASSUME entry \in [Uids -> Entry], NEW u \in Uids, NEW v \in Uids, v = u \/ Better(u, v)
  PROVE  /\ ~ExpirePressure(entry[v], entry[u])
         /\ \A w \in Uids : ExpirePressure(entry[v], entry[w]) => ExpirePressure(entry[u], entry[w])
<1>1. \A x \in Uids : entry[x].nearestExpire \in Nat /\ entry[x].credits \in Int
  BY DEF Entry
<1>2. ExpireSlack \in Nat /\ ExpireSlack > 0
  BY DurationAssumption
<1> QED
  BY <1>1, <1>2 DEF Better, Before, ExpirePressure

\* Of at most five candidates, pickBestCandidateLocked leaves none out that was
\* not used just now.
LEMMA PickBestTakesRested ==
  ASSUME entry \in [Uids -> Entry], NEW S \in SUBSET Uids, Cardinality(S) <= 5,
         NEW v \in S, now - entry[v].lastUsed >= MinPickGap
  PROVE  v = PickBest(S) \/ Better(PickBest(S), v)
<1> DEFINE top == {u \in S : Cardinality({w \in S : Better(w, u)}) < 5}
           rested == {u \in top : now - entry[u].lastUsed >= MinPickGap}
<1>1. ASSUME NEW u \in S PROVE u \in top
  <2> DEFINE above == {w \in S : Better(w, u)}
  <2>1. above \in SUBSET (S \ {u})
    BY BetterOrders
  <2>2. IsFiniteSet(S) /\ Cardinality(S) \in Nat
    BY RotationAssumption, FS_Subset, FS_CardinalityType
  <2>3. IsFiniteSet(S \ {u}) /\ Cardinality(S \ {u}) = Cardinality(S) - 1
    BY <2>2, FS_RemoveElement
  <2>4. IsFiniteSet(above) /\ Cardinality(above) <= Cardinality(S \ {u})
    <3> HIDE DEF above
    <3> QED
      BY <2>1, <2>3, FS_Subset
  <2>5. Cardinality(above) \in Nat
    <3> HIDE DEF above
    <3> QED
      BY <2>4, FS_CardinalityType
  <2> QED
    BY <2>2, <2>3, <2>4, <2>5
<1>2. v \in rested /\ rested \in SUBSET Uids
  BY <1>1
<1>3. PickBest(S) = Best(rested)
  BY <1>2 DEF PickBest
<1> QED
  <2> HIDE DEF rested
  <2> QED
    BY <1>2, <1>3, BestIsBest

\* While a candidate expires much earlier than the account picked, and it was not
\* used just now, it is picked itself, whatever the session's cache says.
LEMMA ChosenHeedsPressure ==
  ASSUME TypeOK, NEW r \in Request, NEW tried, NEW max \in BOOLEAN,
         Chosen(r, tried, max) \in Candidates(r, tried, max),
         Cardinality(Candidates(r, tried, max)) <= 5,
         NEW v \in Candidates(r, tried, max),
         ExpirePressure(entry[v], entry[Chosen(r, tried, max)])
  PROVE  now - entry[v].lastUsed < MinPickGap
<1> DEFINE S == Candidates(r, tried, max)
           u == Chosen(r, tried, max)
           bound == IF r.session = NoSession THEN NoUid
                    ELSE affinity[<<"dev", r.session>>]
<1>1. entry \in [Uids -> Entry] /\ S \in SUBSET Uids /\ S # {} /\ u \in Uids /\ v \in Uids
  BY DEF TypeOK, Candidates
<1>2. now - entry[v].lastUsed \in Int /\ MinPickGap \in Int
  BY <1>1, DurationAssumption DEF TypeOK, Entry
<1>3. /\ u = PickBest(S) \/ u = Best(S) \/ u = bound
      /\ u = bound => \/ u = PickBest(S) \/ u = Best(S)
                      \/ ~ExpirePressure(entry[Best(S)], entry[u])
  BY <1>1 DEF Chosen
<1> HIDE DEF S, u, bound
<1>4. Best(S) \in S /\ (v = Best(S) \/ Better(Best(S), v))
  BY <1>1, BestIsBest DEF S
<1>5. CASE u = Best(S)
  BY <1>1, <1>4, <1>5, BestIsNotPressed DEF u
<1>6. CASE ~ExpirePressure(entry[Best(S)], entry[u])
  BY <1>1, <1>4, <1>6, BestIsNotPressed DEF u
<1>7. CASE u = PickBest(S)
  <2> SUFFICES ASSUME now - entry[v].lastUsed >= MinPickGap PROVE FALSE
    BY <1>2
  <2>1. v = u \/ Better(u, v)
    BY <1>1, <1>7, PickBestTakesRested DEF S
  <2> QED
    BY <1>1, <2>1, BestIsNotPressed DEF u
<1> QED
  BY <1>3, <1>5, <1>6, <1>7

\* The session's cache is no reason to leave credits to expire: for any number
\* of accounts, requests and sessions, rule 1 goes first (pickAffinity).
THEOREM PressureGoesFirst == SpecC => PressureFirst
<1> DEFINE Heeds(c) ==
      PickAccount(c) =>
        LET u == req'[c].acct
            S == Candidates(req[c], req[c].tried, req[c].max)
        IN  \A v \in S :
              ExpirePressure(entry[v], entry[u]) /\ Cardinality(S) <= 5
                => now - entry[v].lastUsed < MinPickGap
<1>1. ASSUME CInv, NEW c \in Clients PROVE Heeds(c)
  <2> SUFFICES ASSUME PickAccount(c), NEW v \in Candidates(req[c], req[c].tried, req[c].max),
                      ExpirePressure(entry[v], entry[req'[c].acct]),
                      Cardinality(Candidates(req[c], req[c].tried, req[c].max)) <= 5
               PROVE  now - entry[v].lastUsed < MinPickGap
    OBVIOUS
  <2> DEFINE u == Chosen(req[c], req[c].tried, req[c].max)
  <2>1. TypeOK /\ req \in [Clients -> Request] /\ req[c].max \in BOOLEAN
    BY <1>1 DEF CInv, IInv, HandlerInv, Request
  <2>2. u \in Candidates(req[c], req[c].tried, req[c].max) /\ Take(c, u, req[c])
    BY DEF PickAccount
  <2>3. req'[c].acct = u
    <3>1. req' = [req EXCEPT ![c] = [req[c] EXCEPT !.tried = @ \cup {u}, !.acct = u]]
      BY <2>2 DEF Take, Set
    <3> HIDE DEF u
    <3> QED
      BY <2>1, <3>1 DEF Request
  <2> QED
    BY <2>1, <2>2, <2>3, ChosenHeedsPressure
<1>2. CInv /\ [NextC]_cvars => [\A c \in Clients : Heeds(c)]_cvars
  BY <1>1
<1> QED
  BY <1>2, InductiveC, PTL DEF SpecC, PressureFirst
=============================================================================
