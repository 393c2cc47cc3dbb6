---------------------------- MODULE CatalogProofs ----------------------------
(***************************************************************************)
(* ModelCatalog, for any number of requests, accounts and tables: one round *)
(* at a time, and none before the lifetime of the outcome of the last one  *)
(* has passed; what its list says, and what the pool knows after it.       *)
(***************************************************************************)
EXTENDS ModelCatalog, FiniteSetTheorems, TLAPS

\* The loop over the answers.
Meets == INSTANCE FoldFacts WITH op <- Meet, choose <- Max

\* The flag is the lock of the round.
LockInv ==
  /\ pc \in [Threads -> {"idle", "read", "decide", "once", "healthy", "round",
                         "served", "gate", "admitted", "refused"}]
  /\ refreshing \in BOOLEAN
  /\ SingleFlight

\* The cache remembers the outcome of the last round.
CacheInv ==
  /\ now \in Nat /\ last.end \in Nat \cup {Never}
  /\ last.made => ids # NoTable /\ fetched = last.end
  /\ last.end # Never /\ ~last.made => lastFail = last.end

-----------------------------------------------------------------------------
(* Both invariants look only at a few variables; most steps leave those alone
   or move one thread between two points outside the round. *)

\* A step of one thread outside the round keeps the lock.
LEMMA OutsideKeepsLock ==
  ASSUME LockInv, NEW t \in Threads, ~InRound(t), refreshing' = refreshing,
         NEW point \in {"idle", "read", "decide", "once", "served", "gate",
                        "admitted", "refused"},
         Goto(t, point)
  PROVE  LockInv'
BY DEF LockInv, SingleFlight, InRound, Goto

LEMMA InitLock == InitM => LockInv
<1> SUFFICES ASSUME InitM PROVE LockInv
  OBVIOUS
<1>1. pc = [t \in Threads |-> "idle"] /\ refreshing = FALSE
  BY DEF InitM
<1> QED BY <1>1 DEF LockInv, SingleFlight, InRound

LEMMA StepLock == LockInv /\ [NextM]_cvars => LockInv'
<1> SUFFICES ASSUME LockInv, [NextM]_cvars PROVE LockInv'
  OBVIOUS
<1>1. CASE UNCHANGED cvars
  BY <1>1 DEF LockInv, SingleFlight, InRound, cvars, cache, locals
<1>2. CASE Tick
  BY <1>2 DEF LockInv, SingleFlight, InRound, Tick, cache, locals
<1>3. ASSUME NEW a \in Accounts, Delete(a) \/ Import(a) PROVE LockInv'
  BY <1>3 DEF LockInv, SingleFlight, InRound, Delete, Import, cache, locals
<1>4. ASSUME NEW t \in Threads, Start(t) PROVE LockInv'
  <2>1. ~InRound(t) /\ refreshing' = refreshing /\ Goto(t, "read")
    BY <1>4 DEF Start, Lookup, InRound, cache
  <2> QED BY <2>1, OutsideKeepsLock
<1>5. ASSUME NEW t \in Threads, ReadCache(t) PROVE LockInv'
  <2>1. ~InRound(t) /\ refreshing' = refreshing
    BY <1>5 DEF ReadCache, InRound, cache
  <2>2. CASE Goto(t, "decide") \/ Goto(t, "once")
    BY <2>1, <2>2, OutsideKeepsLock
  <2>3. CASE ReturnStale(t)
    <3>1. PICK spawned \in SUBSET {s \in Slots : pc[s] = "idle"} :
            pc' = [u \in Threads |-> IF u = t THEN "decide"
                                     ELSE IF u \in spawned THEN "once" ELSE pc[u]]
      BY <2>3 DEF ReturnStale
    <3> QED BY <2>1, <3>1 DEF LockInv, SingleFlight, InRound
  <2> QED BY <1>5, <2>2, <2>3 DEF ReadCache, Return
<1>6. ASSUME NEW t \in Threads, Default(t) PROVE LockInv'
  <2>1. ~InRound(t) /\ refreshing' = refreshing
    BY <1>6 DEF Default, InRound, cache
  <2>2. Goto(t, "admitted") \/ Goto(t, "refused") \/ Goto(t, "read")
    BY <1>6 DEF Default, Resolve, Admit, Refuse, Lookup
  <2> QED BY <2>1, <2>2, OutsideKeepsLock
<1>7. ASSUME NEW t \in Threads, Once(t) PROVE LockInv'
  <2>1. CASE MayRefresh
    BY <1>7, <2>1 DEF Once, MayRefresh, LockInv, SingleFlight, InRound, Goto
  <2>2. CASE ~MayRefresh
    <3>1. ~InRound(t) /\ refreshing' = refreshing
      BY <1>7, <2>2 DEF Once, InRound
    <3>2. Goto(t, "decide") \/ Goto(t, "idle")
      BY <1>7, <2>2 DEF Once, Conclude, Return
    <3> QED BY <3>1, <3>2, OutsideKeepsLock
  <2> QED BY <2>1, <2>2
<1>8. ASSUME NEW t \in Threads, Healthy(t) PROVE LockInv'
  BY <1>8 DEF Healthy, LockInv, SingleFlight, InRound, Goto, cache
<1>9. ASSUME NEW t \in Threads, NEW a \in Accounts, Answer(t, a) \/ AnswerMax(t, a)
      PROVE LockInv'
  BY <1>9 DEF Answer, AnswerMax, LockInv, SingleFlight, InRound, cache, locals
<1>10. ASSUME NEW t \in Threads, Publish(t) PROVE LockInv'
  <2>1. ~refreshing' /\ InRound(t)
    BY <1>10 DEF Publish, InRound
  <2>2. Goto(t, "decide") \/ Goto(t, "idle")
    BY <1>10 DEF Publish, Conclude, Return
  <2>3. refreshing' = FALSE
    BY <1>10 DEF Publish
  <2>4. PICK point \in {"decide", "idle"} : pc' = [pc EXCEPT ![t] = point]
    BY <2>2 DEF Goto
  <2>5. \A u \in Threads : ~InRound(u)'
    BY <2>1, <2>4 DEF LockInv, SingleFlight, InRound
  <2> QED BY <2>3, <2>4, <2>5 DEF LockInv, SingleFlight
<1>11. ASSUME NEW t \in Threads, Decide(t) PROVE LockInv'
  <2>1. ~InRound(t) /\ refreshing' = refreshing
    BY <1>11 DEF Decide, InRound, cache
  <2>2. PICK point \in {"idle", "read", "served", "gate", "admitted", "refused"} :
          Goto(t, point)
    BY <1>11 DEF Decide, Resolve, Admit, Refuse, Lookup
  <2> QED BY <2>1, <2>2, OutsideKeepsLock
<1>12. ASSUME NEW t \in Threads, Served(t) \/ Gate(t) \/ Leave(t) PROVE LockInv'
  <2>1. ~InRound(t) /\ refreshing' = refreshing
    BY <1>12 DEF Served, Gate, Leave, InRound, cache
  <2>2. PICK point \in {"gate", "admitted", "idle"} : Goto(t, point)
    BY <1>12 DEF Served, Gate, Leave
  <2> QED BY <2>1, <2>2, OutsideKeepsLock
<1> QED
  BY <1>1, <1>2, <1>3, <1>4, <1>5, <1>6, <1>7, <1>8, <1>9, <1>10, <1>11, <1>12
  DEF NextM, Work

\* At most one thread at a time asks the accounts (refreshModelCacheOnce).
THEOREM OneRoundAtATime == SpecM => []SingleFlight
<1>1. SpecM => []LockInv
  BY InitLock, StepLock, PTL DEF SpecM
<1>2. LockInv => SingleFlight
  BY DEF LockInv
<1> QED BY <1>1, <1>2, PTL

-----------------------------------------------------------------------------
LEMMA InitCache == InitM => CacheInv
BY DEF InitM, CacheInv

LEMMA StepCache == CacheInv /\ [NextM]_cvars => CacheInv'
<1> SUFFICES ASSUME CacheInv, [NextM]_cvars PROVE CacheInv'
  OBVIOUS
<1>1. CASE UNCHANGED <<ids, fetched, lastFail, last>> /\ now' \in Nat
  BY <1>1 DEF CacheInv
<1>2. ASSUME NEW t \in Threads, Publish(t) PROVE CacheInv'
  <2> DEFINE infos == Intersection(answer[t])
  <2>1. last'.made = (infos # NoTable) /\ last'.end = now
    BY <1>2 DEF Publish
  <2>2. CASE infos # NoTable
    BY <1>2, <2>1, <2>2 DEF Publish, CacheInv
  <2>3. CASE infos = NoTable
    BY <1>2, <2>1, <2>3 DEF Publish, CacheInv
  <2> QED BY <2>2, <2>3
<1>3. ASSUME ~\E t \in Threads : Publish(t)
      PROVE  UNCHANGED <<ids, fetched, lastFail, last>> /\ now' \in Nat
  <2>1. UNCHANGED <<ids, fetched, lastFail, last>>
    BY <1>3 DEF NextM, Work, Tick, Delete, Import, Start, ReadCache, Default, Once,
       Healthy, Answer, AnswerMax, Decide, Served, Gate, Leave, cvars, cache
  <2>2. now' = now \/ now' = now + 1
    BY <1>3 DEF NextM, Work, Tick, Delete, Import, Start, ReadCache, Default, Once,
       Healthy, Answer, AnswerMax, Decide, Served, Gate, Leave, cvars
  <2> QED BY <2>1, <2>2 DEF CacheInv
<1> QED
  BY <1>1, <1>2, <1>3

\* After a round nobody asks again before the lifetime of its outcome has passed.
THEOREM RoundsAreSpaced == SpecM => RoundsSpaced
<1>1. SpecM => []CacheInv
  BY InitCache, StepCache, PTL DEF SpecM
<1> DEFINE Spaced ==
      (~refreshing /\ refreshing') /\ last.end # Never =>
        now - last.end >= IF last.made THEN TTL ELSE FetchFailCooldown
<1>2. CacheInv /\ [NextM]_cvars => [Spaced]_cvars
  <2> SUFFICES ASSUME CacheInv, [NextM]_cvars, ~refreshing, refreshing', last.end # Never
               PROVE  now - last.end >= IF last.made THEN TTL ELSE FetchFailCooldown
    BY DEF cvars, cache
  <2>1. MayRefresh
    <3>1. PICK t \in Threads : Once(t)
      BY DEF NextM, Work, Tick, Delete, Import, Start, ReadCache, Default, Healthy, Answer,
         AnswerMax, Publish, Decide, Served, Gate, Leave, cvars, cache
    <3> QED BY <3>1 DEF Once
  <2>2. now \in Int /\ last.end \in Nat /\ TTL \in Nat /\ FetchFailCooldown \in Nat
    BY CatalogAssumption DEF CacheInv
  <2>3. CASE last.made
    BY <2>1, <2>2, <2>3 DEF MayRefresh, Fresh, CacheInv
  <2>4. CASE ~last.made
    BY <2>1, <2>2, <2>4 DEF MayRefresh, NegativelyCached, CacheInv
  <2> QED BY <2>3, <2>4
<1> QED BY <1>1, <1>2, PTL DEF SpecM, RoundsSpaced

-----------------------------------------------------------------------------
(* The intersection. *)

\* A finite set of uids has a first and a last.
LEMMA FirstAndLast ==
  ASSUME NEW S, IsFiniteSet(S), S \subseteq Nat, S # {}
  PROVE  Min(S) \in S /\ Max(S) \in S
<1> DEFINE T == {s \in SUBSET S : s # {} =>
                   /\ \E a \in s : \A b \in s : a <= b
                   /\ \E a \in s : \A b \in s : b <= a}
<1>1. {} \in T
  OBVIOUS
<1>2. ASSUME NEW s \in SUBSET S, NEW x \in S \ s, s \in T PROVE s \cup {x} \in T
  <2>0. x \in Nat /\ \A b \in s : b \in Nat
    OBVIOUS
  <2>1. CASE s = {}
    BY <2>0, <2>1
  <2>2. CASE s # {}
    <3>1. PICK lo \in s : \A b \in s : lo <= b
      BY <1>2, <2>2
    <3>2. PICK hi \in s : \A b \in s : b <= hi
      BY <1>2, <2>2
    <3>3. \E a \in s \cup {x} : \A b \in s \cup {x} : a <= b
      <4>1. CASE lo <= x
        BY <3>1, <4>1
      <4>2. CASE x <= lo
        BY <2>0, <3>1, <4>2
      <4> QED
        BY <2>0, <4>1, <4>2
    <3>4. \E a \in s \cup {x} : \A b \in s \cup {x} : b <= a
      <4>1. CASE x <= hi
        BY <3>2, <4>1
      <4>2. CASE hi <= x
        BY <2>0, <3>2, <4>2
      <4> QED
        BY <2>0, <4>1, <4>2
    <3> QED
      BY <3>3, <3>4
  <2> QED
    BY <2>1, <2>2
<1>3. S \in T
  <2>1. Meets!IsFiniteSet(S)
    BY DEF Meets!IsFiniteSet, IsFiniteSet
  <2> HIDE DEF T
  <2> QED
    BY <1>1, <1>2, <2>1, Meets!Growing
<1> QED
  BY <1>3 DEF Min, Max

Table(table) == DOMAIN table \subseteq Models /\ table \in [DOMAIN table -> ModelInfo]

\* What a table says if it is what the accounts of S have in common.
IsMeet(table, answers, S) ==
  /\ Table(table)
  /\ DOMAIN table = {m \in Models : \A a \in S : m \in DOMAIN answers[a]}
  /\ \A m \in DOMAIN table :
       /\ table[m].max <=> \E a \in S : answers[a][m].max
       /\ table[m].hidden <=> \E a \in S : answers[a][m].hidden
       /\ \A a \in S : answers[a][m].window # 0 =>
            table[m].window # 0 /\ table[m].window <= answers[a][m].window
       /\ table[m].window # 0 => \E a \in S : table[m].window = answers[a][m].window

\* One account more.
LEMMA MeetOne ==
  ASSUME NEW table, NEW answers, NEW S, NEW x, IsMeet(table, answers, S),
         \A a \in S : Table(answers[a]), Table(answers[x])
  PROVE  IsMeet(Meet(table, answers[x]), answers, S \cup {x})
<1> DEFINE both == Meet(table, answers[x])
<1>1. DOMAIN both = DOMAIN table \cap DOMAIN answers[x]
  BY DEF Meet
<1>2. DOMAIN both = {m \in Models : \A a \in S \cup {x} : m \in DOMAIN answers[a]}
  BY <1>1 DEF IsMeet
<1>3. ASSUME NEW m \in DOMAIN both
      PROVE  /\ both[m] \in ModelInfo
             /\ both[m].max <=> \E a \in S \cup {x} : answers[a][m].max
             /\ both[m].hidden <=> \E a \in S \cup {x} : answers[a][m].hidden
             /\ \A a \in S \cup {x} : answers[a][m].window # 0 =>
                  both[m].window # 0 /\ both[m].window <= answers[a][m].window
             /\ both[m].window # 0 =>
                  \E a \in S \cup {x} : both[m].window = answers[a][m].window
  <2>1. m \in DOMAIN table /\ m \in DOMAIN answers[x] /\ \A a \in S : m \in DOMAIN answers[a]
    BY <1>1 DEF IsMeet
  <2>2. both[m] = Merged(table[m], answers[x][m])
    BY <1>1, <2>1 DEF Meet
  <2>3. /\ table[m] \in ModelInfo /\ answers[x][m] \in ModelInfo
        /\ \A a \in S : answers[a][m] \in ModelInfo
    BY <2>1 DEF IsMeet, Table
  <2>4. /\ both[m].window = Weaker(table[m].window, answers[x][m].window)
        /\ both[m].max = (table[m].max \/ answers[x][m].max)
        /\ both[m].hidden = (table[m].hidden \/ answers[x][m].hidden)
    BY <2>2 DEF Merged
  <2>5. /\ table[m].window \in Nat /\ answers[x][m].window \in Nat
        /\ table[m].max \in BOOLEAN /\ answers[x][m].max \in BOOLEAN
        /\ table[m].hidden \in BOOLEAN /\ answers[x][m].hidden \in BOOLEAN
        /\ \A a \in S : answers[a][m].window \in Nat
    BY <2>3 DEF ModelInfo
  <2>6. /\ table[m].max <=> \E a \in S : answers[a][m].max
        /\ table[m].hidden <=> \E a \in S : answers[a][m].hidden
        /\ \A a \in S : answers[a][m].window # 0 =>
             table[m].window # 0 /\ table[m].window <= answers[a][m].window
        /\ table[m].window # 0 => \E a \in S : table[m].window = answers[a][m].window
    BY <2>1 DEF IsMeet
  <2>7. both[m] \in ModelInfo
    <3>1. Weaker(table[m].window, answers[x][m].window) \in Nat
      BY <2>5 DEF Weaker
    <3> QED
      BY <2>2, <2>5, <3>1 DEF Merged, ModelInfo
  <2> HIDE DEF both
  <2>8. /\ both[m].max <=> \E a \in S \cup {x} : answers[a][m].max
        /\ both[m].hidden <=> \E a \in S \cup {x} : answers[a][m].hidden
    BY <2>4, <2>5, <2>6
  <2>9. \A a \in S \cup {x} : answers[a][m].window # 0 =>
          both[m].window # 0 /\ both[m].window <= answers[a][m].window
    BY <2>4, <2>5, <2>6 DEF Weaker
  <2>10. both[m].window # 0 => \E a \in S \cup {x} : both[m].window = answers[a][m].window
    BY <2>4, <2>5, <2>6 DEF Weaker
  <2> QED
    BY <2>7, <2>8, <2>9, <2>10
<1>4. Table(both)
  <2>1. both = [m \in DOMAIN both |-> both[m]]
    BY DEF Meet
  <2> HIDE DEF both
  <2> QED
    BY <1>2, <1>3, <2>1 DEF Table
<1> HIDE DEF both
<1>5. IsMeet(both, answers, S \cup {x})
  BY <1>2, <1>3, <1>4 DEF IsMeet
<1> QED
  BY <1>5 DEF both

\* The loop makes what the accounts that answered have in common.
LEMMA IntersectionMeets ==
  ASSUME NEW answers, NEW who, who = {a \in DOMAIN answers : answers[a] # NoTable},
         who # {}, who \subseteq Accounts, \A a \in who : Table(answers[a])
  PROVE  IsMeet(Intersection(answers), answers, who)
<1> DEFINE first == Min(who)
           F(s) == Meets!Fold(answers[first], answers, s)
           Bad == {s \in SUBSET who : ~IsMeet(F(s), answers, s \cup {first})}
<1>1. IsFiniteSet(who) /\ who \subseteq Nat /\ first \in who
  <2>1. IsFiniteSet(who) /\ who \subseteq Nat
    BY CatalogAssumption, FS_Subset
  <2> QED
    BY <2>1, FirstAndLast
<1>2. \A s \in SUBSET who : s # {} => Max(s) \in s
  <2> SUFFICES ASSUME NEW s \in SUBSET who, s # {} PROVE Max(s) \in s
    OBVIOUS
  <2>1. IsFiniteSet(s) /\ s \subseteq Nat
    BY <1>1, FS_Subset
  <2> QED
    BY <2>1, FirstAndLast
<1>3. Intersection(answers) = F(who)
  BY DEF Intersection, Meets!Fold, MapThenFoldSet, Meets!MapThenFoldSet
<1>4. Bad = {}
  <2> SUFFICES ASSUME Bad # {} PROVE FALSE
    OBVIOUS
  <2>1. PICK s \in Bad : \A r \in Bad : r \subseteq s => r = s
    <3>1. Bad \in SUBSET SUBSET who
      OBVIOUS
    <3>2. Meets!IsFiniteSet(who)
      BY <1>1 DEF Meets!IsFiniteSet, IsFiniteSet
    <3> HIDE DEF Bad
    <3> QED
      BY <3>1, <3>2, Meets!Smallest
  <2>2. s \in SUBSET who /\ ~IsMeet(F(s), answers, s \cup {first})
    OBVIOUS
  <2>3. CASE s = {}
    <3>1. F(s) = answers[first]
      BY <2>3, Meets!FoldEmpty
    <3>2. Table(answers[first])
      BY <1>1
    <3>3. IsMeet(answers[first], answers, {first})
      <4>1. DOMAIN answers[first] = {m \in Models : \A a \in {first} : m \in DOMAIN answers[a]}
        BY <3>2 DEF Table
      <4>2. \A m \in DOMAIN answers[first] : answers[first][m].window \in Nat
        BY <3>2 DEF Table, ModelInfo
      <4> HIDE DEF first
      <4> QED
        BY <3>2, <4>1, <4>2 DEF IsMeet
    <3>4. s \cup {first} = {first}
      BY <2>3
    <3> HIDE DEF F, first
    <3> QED
      BY <2>2, <3>1, <3>3, <3>4
  <2>4. CASE s # {}
    <3> DEFINE x == Max(s)
               r == s \ {x}
    <3>1. x \in s /\ x \in who
      BY <1>2, <2>2, <2>4
    <3>2. IsMeet(F(r), answers, r \cup {first})
      <4>1. r \in SUBSET who /\ r \subseteq s /\ r # s
        BY <2>2, <3>1
      <4>2. r \notin Bad
        <5> HIDE DEF Bad, r
        <5> QED
          BY <2>1, <4>1
      <4> HIDE DEF r, F
      <4> QED
        BY <4>1, <4>2
    <3>3. F(s) = Meet(F(r), answers[x])
      <4>1. Meets!IsFiniteSet(s) /\ Meets!Chooses(s)
        <5>1. IsFiniteSet(s)
          BY <1>1, <2>2, FS_Subset
        <5> QED
          BY <1>2, <2>2, <5>1 DEF Meets!IsFiniteSet, IsFiniteSet, Meets!Chooses
      <4> QED
        BY <2>4, <4>1, Meets!FoldLast
    <3>4. \A a \in r \cup {first} : Table(answers[a])
      BY <1>1, <2>2
    <3>5. Table(answers[x])
      BY <3>1
    <3>6. (r \cup {first}) \cup {x} = s \cup {first}
      BY <3>1
    <3>7. IsMeet(Meet(F(r), answers[x]), answers, (r \cup {first}) \cup {x})
      <4> HIDE DEF r, x, F, first
      <4> QED
        BY <3>2, <3>4, <3>5, MeetOne
    <3> QED
      BY <2>2, <3>3, <3>6, <3>7
  <2> QED
    BY <2>3, <2>4
<1>5. IsMeet(F(who), answers, who \cup {first})
  <2> HIDE DEF F
  <2> QED
    BY <1>4
<1>6. who \cup {first} = who
  BY <1>1
<1> QED
  BY <1>3, <1>5, <1>6

-----------------------------------------------------------------------------
(* What the round leaves behind. *)

\* The accounts that gave a table, of those that answered.
Gave(answers) == {a \in DOMAIN answers : answers[a] # NoTable}

Answers(answers) ==
  /\ DOMAIN answers \subseteq Accounts
  /\ \A a \in DOMAIN answers : answers[a] \in Tables[a] \cup {NoTable}

\* What the pool knows of the accounts is what they answered now, or nothing.
ModelsKnown(answers) ==
  \A a \in DOMAIN answers : models[a] = {} \/ models[a] = DOMAIN answers[a]

MaxKnown(answers, accts) ==
  \A a \in accts : maxProbed[a] =>
    answers[a] # NoTable /\ maxModels[a] = MaxOf(answers[a])

RoundTypes ==
  /\ DOMAIN asked = Threads /\ DOMAIN answer = Threads /\ DOMAIN written = Threads
  /\ DOMAIN models = Accounts /\ DOMAIN maxProbed = Accounts /\ DOMAIN maxModels = Accounts
  /\ present \subseteq Accounts
  /\ \A a \in Accounts \ present : models[a] = {} /\ ~maxProbed[a]
  /\ \A t \in Threads : /\ Answers(answer[t])
                        /\ asked[t] \subseteq Accounts
                        /\ written[t] \subseteq DOMAIN answer[t]
                        /\ DOMAIN answer[t] \subseteq asked[t]
                        /\ pc[t] # "round" => answer[t] = <<>> /\ written[t] = {}
  /\ Answers(last.answers)

\* In a round, of its answers; between rounds, of the last one's.
KnownNow ==
  /\ \A t \in Threads : pc[t] = "round" =>
       ModelsKnown(answer[t]) /\ MaxKnown(answer[t], written[t])
  /\ ~refreshing => ModelsKnown(last.answers) /\ MaxKnown(last.answers, DOMAIN last.answers)

ListMade == last.made => ids = Intersection(last.answers) /\ ids # NoTable

ListInv == LockInv /\ RoundTypes /\ KnownNow /\ ListMade

LEMMA InitList == InitM => ListInv
<1> SUFFICES ASSUME InitM PROVE ListInv
  OBVIOUS
<1>1. LockInv
  BY InitLock
<1>2. Answers(<<>>)
  BY DEF Answers
<1>3. RoundTypes
  BY <1>2 DEF InitM, RoundTypes
<1>4. KnownNow /\ ListMade
  BY DEF InitM, KnownNow, ListMade, ModelsKnown, MaxKnown
<1> QED
  BY <1>1, <1>3, <1>4 DEF ListInv

\* A step that does not touch the rounds, the list and the pool.
LEMMA QuietList ==
  ASSUME ListInv, LockInv', UNCHANGED <<ids, last, caps, round>>,
         \A u \in Threads : pc'[u] = "round" <=> pc[u] = "round",
         refreshing => refreshing'
  PROVE  ListInv'
<1> USE DEF ListInv, caps, round
<1>1. RoundTypes'
  BY DEF RoundTypes
<1>2. KnownNow'
  BY DEF KnownNow, ModelsKnown, MaxKnown
<1>3. ListMade'
  BY DEF ListMade
<1> QED
  BY <1>1, <1>2, <1>3

\* One thread moves between two points outside the round.
LEMMA OutsideList ==
  ASSUME ListInv, LockInv', UNCHANGED <<ids, last, caps, round>>, NEW t \in Threads,
         pc[t] # "round", NEW point, point # "round", Goto(t, point), refreshing => refreshing'
  PROVE  ListInv'
<1>1. \A u \in Threads : pc'[u] = "round" <=> pc[u] = "round"
  BY DEF Goto, ListInv, LockInv
<1> QED
  BY <1>1, QuietList

\* The account that is imported is unknown, and so is the one that is deleted.
LEMMA ImportList ==
  ASSUME ListInv, LockInv', NEW a \in Accounts, Import(a)
  PROVE  ListInv'
<1>1. /\ UNCHANGED <<ids, refreshing, pc, asked, answer, written, last, models, maxProbed,
                     maxModels>>
      /\ present' = present \cup {a}
  BY DEF Import, cache, locals, round
<1>2. RoundTypes'
  BY <1>1 DEF ListInv, RoundTypes
<1>3. KnownNow' /\ ListMade'
  BY <1>1 DEF ListInv, KnownNow, ModelsKnown, MaxKnown, ListMade
<1> QED
  BY <1>2, <1>3 DEF ListInv

LEMMA DeleteList ==
  ASSUME ListInv, LockInv', NEW a \in Accounts, Delete(a)
  PROVE  ListInv'
<1>1. /\ UNCHANGED <<ids, refreshing, pc, asked, answer, written, last>>
      /\ present' = present \ {a}
      /\ models' = [models EXCEPT ![a] = {}] /\ maxProbed' = [maxProbed EXCEPT ![a] = FALSE]
      /\ maxModels' = [maxModels EXCEPT ![a] = {}]
  BY DEF Delete, cache, locals, round
<1>2. RoundTypes'
  BY <1>1 DEF ListInv, RoundTypes
<1>3. \A b \in Accounts : /\ models'[b] = {} \/ models'[b] = models[b]
                          /\ maxProbed'[b] => maxProbed[b] /\ maxModels'[b] = maxModels[b]
  BY <1>1 DEF ListInv, RoundTypes
<1>4. ASSUME NEW f, Answers(f), ModelsKnown(f)
      PROVE  \A b \in DOMAIN f : models'[b] = {} \/ models'[b] = DOMAIN f[b]
  BY <1>3, <1>4 DEF Answers, ModelsKnown
<1>5. ASSUME NEW f, NEW accts \in SUBSET Accounts, MaxKnown(f, accts)
      PROVE  \A b \in accts : maxProbed'[b] => f[b] # NoTable /\ maxModels'[b] = MaxOf(f[b])
  BY <1>3, <1>5 DEF MaxKnown
<1>6. \A t \in Threads : pc[t] = "round" =>
        Answers(answer[t]) /\ written[t] \in SUBSET Accounts
  BY DEF ListInv, RoundTypes, Answers
<1>7. Answers(last.answers) /\ DOMAIN last.answers \in SUBSET Accounts
  BY DEF ListInv, RoundTypes, Answers
<1>8. KnownNow'
  <2>1. ASSUME NEW t \in Threads, pc[t] = "round"
        PROVE (ModelsKnown(answer[t]) /\ MaxKnown(answer[t], written[t]))'
    <3>1. ModelsKnown(answer[t]) /\ MaxKnown(answer[t], written[t])
      BY <2>1 DEF ListInv, KnownNow
    <3>2. \A b \in DOMAIN answer[t] : models'[b] = {} \/ models'[b] = DOMAIN answer[t][b]
      BY <1>4, <1>6, <2>1, <3>1
    <3>3. \A b \in written[t] : maxProbed'[b] =>
            answer[t][b] # NoTable /\ maxModels'[b] = MaxOf(answer[t][b])
      BY <1>5, <1>6, <2>1, <3>1
    <3> QED
      BY <1>1, <3>2, <3>3 DEF ModelsKnown, MaxKnown, MaxOf
  <2>2. ASSUME ~refreshing
        PROVE (ModelsKnown(last.answers) /\ MaxKnown(last.answers, DOMAIN last.answers))'
    <3>1. ModelsKnown(last.answers) /\ MaxKnown(last.answers, DOMAIN last.answers)
      BY <2>2 DEF ListInv, KnownNow
    <3>2. \A b \in DOMAIN last.answers : models'[b] = {} \/ models'[b] = DOMAIN last.answers[b]
      BY <1>4, <1>7, <3>1
    <3>3. \A b \in DOMAIN last.answers : maxProbed'[b] =>
            last.answers[b] # NoTable /\ maxModels'[b] = MaxOf(last.answers[b])
      BY <1>5, <1>7, <3>1
    <3> QED
      BY <1>1, <3>2, <3>3 DEF ModelsKnown, MaxKnown, MaxOf
  <2> QED
    BY <1>1, <2>1, <2>2 DEF KnownNow
<1>9. ListMade'
  BY <1>1 DEF ListInv, ListMade
<1> QED
  BY <1>2, <1>8, <1>9 DEF ListInv

\* Whoever is in the round is the only one, and the flag is up.
LEMMA Alone ==
  ASSUME LockInv, NEW t \in Threads, InRound(t)
  PROVE  refreshing /\ \A u \in Threads : u # t => ~InRound(u)
BY DEF LockInv, SingleFlight

\* The round begins without answers.
LEMMA HealthyList ==
  ASSUME ListInv, LockInv', NEW t \in Threads, Healthy(t)
  PROVE  ListInv'
<1>1. PICK accts \in SUBSET Accounts : asked' = [asked EXCEPT ![t] = accts]
  BY DEF Healthy, ListInv, RoundTypes
<1>2. /\ pc[t] = "healthy" /\ pc' = [pc EXCEPT ![t] = "round"]
      /\ UNCHANGED <<ids, refreshing, present, models, maxProbed, maxModels, answer, written,
                     last>>
  BY DEF Healthy, Goto, cache, caps
<1>3. answer[t] = <<>> /\ written[t] = {}
  BY <1>2 DEF ListInv, RoundTypes
<1>4. RoundTypes'
  BY <1>1, <1>2, <1>3 DEF ListInv, RoundTypes, LockInv
<1>5. refreshing
  BY <1>2, Alone DEF ListInv, InRound
<1>6. \A u \in Threads : u # t => pc'[u] = pc[u]
  BY <1>2 DEF ListInv, LockInv
<1>7. KnownNow'
  BY <1>2, <1>3, <1>5, <1>6 DEF ListInv, KnownNow, ModelsKnown, MaxKnown
<1>8. ListMade'
  BY <1>2 DEF ListInv, ListMade
<1> QED
  BY <1>4, <1>7, <1>8 DEF ListInv

\* An answer comes, and the pool learns the models.
LEMMA AnswerList ==
  ASSUME ListInv, LockInv', NEW t \in Threads, NEW a \in Accounts, Answer(t, a)
  PROVE  ListInv'
<1>1. PICK table \in Tables[a] \cup {NoTable} :
        /\ answer' = [answer EXCEPT ![t] = [b \in DOMAIN @ \cup {a} |->
                                              IF b = a THEN table ELSE @[b]]]
        /\ models' = [models EXCEPT ![a] = IF a \in present THEN DOMAIN table ELSE @]
        /\ UNCHANGED <<present, maxProbed, maxModels>>
  BY DEF Answer, SetModels
<1>2. /\ pc[t] = "round" /\ a \in asked[t] /\ a \notin DOMAIN answer[t]
      /\ UNCHANGED <<ids, refreshing, pc, asked, written, last>>
  BY DEF Answer, cache, locals
<1>3. /\ refreshing /\ \A u \in Threads : u # t => pc[u] # "round"
  BY <1>2, Alone DEF ListInv, InRound
<1>4. /\ answer'[t] = [b \in DOMAIN answer[t] \cup {a} |-> IF b = a THEN table ELSE answer[t][b]]
      /\ \A u \in Threads : u # t => answer'[u] = answer[u]
      /\ models'[a] = {} \/ models'[a] = DOMAIN table
      /\ a \notin present => models'[a] = {}
      /\ \A b \in Accounts : b # a => models'[b] = models[b]
  BY <1>1 DEF ListInv, RoundTypes
<1>5. /\ DOMAIN answer'[t] = DOMAIN answer[t] \cup {a} /\ answer'[t][a] = table
      /\ \A b \in DOMAIN answer[t] : answer'[t][b] = answer[t][b]
  BY <1>2, <1>4
<1>6. Answers(answer'[t])
  BY <1>5 DEF ListInv, RoundTypes, Answers
<1>7. RoundTypes'
  <2>1. \A u \in Threads : /\ Answers(answer'[u])
                           /\ asked[u] \subseteq Accounts
                           /\ written[u] \subseteq DOMAIN answer'[u]
                           /\ DOMAIN answer'[u] \subseteq asked[u]
                           /\ pc[u] # "round" => answer'[u] = <<>> /\ written[u] = {}
    BY <1>2, <1>4, <1>5, <1>6 DEF ListInv, RoundTypes
  <2>2. DOMAIN answer' = Threads /\ DOMAIN models' = Accounts
    BY <1>1 DEF ListInv, RoundTypes
  <2> QED
    BY <1>1, <1>2, <2>1, <2>2 DEF ListInv, RoundTypes, Answers
<1>8. ModelsKnown(answer[t])'
  <2>1. \A b \in DOMAIN answer'[t] : models'[b] = {} \/ models'[b] = DOMAIN answer'[t][b]
    BY <1>2, <1>4, <1>5 DEF ListInv, RoundTypes, Answers, KnownNow, ModelsKnown
  <2> QED
    BY <2>1 DEF ModelsKnown
<1>9. MaxKnown(answer[t], written[t])'
  <2>1. written[t] \subseteq DOMAIN answer[t]
    BY DEF ListInv, RoundTypes
  <2>2. \A b \in written[t] : maxProbed[b] =>
          answer'[t][b] # NoTable /\ maxModels[b] = MaxOf(answer'[t][b])
    BY <1>2, <1>5, <2>1 DEF ListInv, KnownNow, MaxKnown
  <2> QED
    BY <1>1, <1>2, <2>2 DEF MaxKnown, MaxOf
<1>10. KnownNow'
  BY <1>2, <1>3, <1>8, <1>9 DEF KnownNow
<1>11. ListMade'
  BY <1>2 DEF ListInv, ListMade
<1> QED
  BY <1>7, <1>10, <1>11 DEF ListInv

\* The pool learns the max tiers of an answer.
LEMMA AnswerMaxList ==
  ASSUME ListInv, LockInv', NEW t \in Threads, NEW a \in Accounts, AnswerMax(t, a)
  PROVE  ListInv'
<1>1. /\ pc[t] = "round" /\ a \in DOMAIN answer[t]
      /\ maxProbed' = [maxProbed EXCEPT ![a] = a \in present /\ answer[t][a] # NoTable]
      /\ maxModels' = [maxModels EXCEPT ![a] =
                          IF a \in present THEN MaxOf(answer[t][a]) ELSE @]
      /\ written' = [written EXCEPT ![t] = @ \cup {a}]
      /\ UNCHANGED <<ids, refreshing, present, models, pc, asked, answer, last>>
  BY DEF AnswerMax, SetMaxModels, cache, locals
<1>2. /\ refreshing /\ \A u \in Threads : u # t => pc[u] # "round"
  BY <1>1, Alone DEF ListInv, InRound
<1>3. /\ written'[t] = written[t] \cup {a}
      /\ \A u \in Threads : u # t => written'[u] = written[u]
      /\ maxProbed'[a] =>
           a \in present /\ answer[t][a] # NoTable /\ maxModels'[a] = MaxOf(answer[t][a])
      /\ \A b \in Accounts : b # a => maxProbed'[b] = maxProbed[b] /\ maxModels'[b] = maxModels[b]
  BY <1>1 DEF ListInv, RoundTypes
<1>4. RoundTypes'
  BY <1>1, <1>3 DEF ListInv, RoundTypes
<1>5. (ModelsKnown(answer[t]) /\ MaxKnown(answer[t], written[t]))'
  <2>1. written[t] \subseteq Accounts
    BY DEF ListInv, RoundTypes, Answers
  <2>2. \A b \in written'[t] : maxProbed'[b] =>
          answer[t][b] # NoTable /\ maxModels'[b] = MaxOf(answer[t][b])
    BY <1>1, <1>3, <2>1 DEF ListInv, KnownNow, MaxKnown
  <2> QED
    BY <1>1, <2>2 DEF ListInv, KnownNow, ModelsKnown, MaxKnown, MaxOf
<1>6. KnownNow'
  BY <1>1, <1>2, <1>5 DEF KnownNow
<1>7. ListMade'
  BY <1>1 DEF ListInv, ListMade
<1> QED
  BY <1>4, <1>6, <1>7 DEF ListInv

\* The round ends: its answers are the last ones.
LEMMA PublishList ==
  ASSUME ListInv, LockInv', NEW t \in Threads, Publish(t)
  PROVE  ListInv'
<1> DEFINE infos == Intersection(answer[t])
<1>1. /\ pc[t] = "round" /\ written[t] = asked[t] /\ refreshing' = FALSE
      /\ last'.answers = answer[t] /\ last'.made = (infos # NoTable)
      /\ infos # NoTable => ids' = infos
      /\ asked' = [asked EXCEPT ![t] = {}] /\ answer' = [answer EXCEPT ![t] = <<>>]
      /\ written' = [written EXCEPT ![t] = {}]
      /\ UNCHANGED <<present, models, maxProbed, maxModels>>
  BY DEF Publish, caps
<1>2. \A u \in Threads : pc'[u] # "round"
  BY <1>1 DEF LockInv, SingleFlight, InRound
<1>3. written[t] = DOMAIN answer[t]
  BY <1>1 DEF ListInv, RoundTypes
<1> HIDE DEF infos
<1>4. RoundTypes'
  <2>1. Answers(answer[t]) /\ Answers(<<>>)
    BY DEF ListInv, RoundTypes, Answers
  <2>2. \A u \in Threads : /\ Answers(answer'[u]) /\ asked'[u] \subseteq Accounts
                           /\ written'[u] \subseteq DOMAIN answer'[u]
                           /\ DOMAIN answer'[u] \subseteq asked'[u]
                           /\ answer'[u] = <<>> /\ written'[u] = {}
    <3> SUFFICES ASSUME NEW u \in Threads
                 PROVE  /\ Answers(answer'[u]) /\ asked'[u] \subseteq Accounts
                        /\ written'[u] \subseteq DOMAIN answer'[u]
                        /\ DOMAIN answer'[u] \subseteq asked'[u]
                        /\ answer'[u] = <<>> /\ written'[u] = {}
      OBVIOUS
    <3>1. CASE u = t
      <4>1. answer'[u] = <<>> /\ written'[u] = {} /\ asked'[u] = {}
        BY <1>1, <3>1 DEF ListInv, RoundTypes
      <4> QED
        BY <2>1, <4>1
    <3>2. CASE u # t
      <4>1. pc[u] # "round"
        BY <1>1, <3>2, Alone DEF ListInv, InRound
      <4>2. answer'[u] = answer[u] /\ written'[u] = written[u] /\ asked'[u] = asked[u]
        BY <1>1, <3>2 DEF ListInv, RoundTypes
      <4> QED
        BY <4>1, <4>2 DEF ListInv, RoundTypes
    <3> QED
      BY <3>1, <3>2
  <2>3. /\ DOMAIN asked' = Threads /\ DOMAIN answer' = Threads /\ DOMAIN written' = Threads
        /\ DOMAIN models' = Accounts /\ DOMAIN maxProbed' = Accounts
        /\ DOMAIN maxModels' = Accounts /\ present' \subseteq Accounts
        /\ \A a \in Accounts \ present' : models'[a] = {} /\ ~maxProbed'[a]
    BY <1>1 DEF ListInv, RoundTypes
  <2> QED
    BY <1>1, <2>1, <2>2, <2>3 DEF RoundTypes, Answers
<1>5. KnownNow'
  <2>1. ModelsKnown(answer[t]) /\ MaxKnown(answer[t], DOMAIN answer[t])
    BY <1>1, <1>3 DEF ListInv, KnownNow
  <2>2. (ModelsKnown(last.answers) /\ MaxKnown(last.answers, DOMAIN last.answers))'
    BY <1>1, <2>1 DEF ModelsKnown, MaxKnown, MaxOf
  <2> QED
    BY <1>2, <2>2 DEF KnownNow
<1>6. ListMade'
  <2>1. last'.made => ids' = Intersection(last'.answers) /\ ids' # NoTable
    BY <1>1 DEF infos
  <2> QED
    BY <2>1 DEF ListMade
<1> QED
  BY <1>4, <1>5, <1>6 DEF ListInv

LEMMA StepList == ListInv /\ [NextM]_cvars => ListInv'
<1> SUFFICES ASSUME ListInv, [NextM]_cvars PROVE ListInv'
  OBVIOUS
<1>0. LockInv'
  BY StepLock DEF ListInv
<1> DEFINE Kept == UNCHANGED <<ids, last, caps, round>>
<1>1. CASE UNCHANGED cvars
  BY <1>0, <1>1, QuietList DEF cvars, cache, locals
<1>2. CASE Tick
  BY <1>0, <1>2, QuietList DEF Tick, cache, locals
<1>3. ASSUME NEW a \in Accounts, Delete(a) \/ Import(a) PROVE ListInv'
  BY <1>0, <1>3, DeleteList, ImportList
<1>4. ASSUME NEW t \in Threads, Start(t) PROVE ListInv'
  <2>1. pc[t] # "round" /\ Goto(t, "read") /\ refreshing' = refreshing /\ Kept
    BY <1>4 DEF Start, Lookup, cache
  <2> QED BY <1>0, <2>1, OutsideList
<1>5. ASSUME NEW t \in Threads, ReadCache(t) PROVE ListInv'
  <2>1. pc[t] # "round" /\ refreshing' = refreshing /\ Kept
    BY <1>5 DEF ReadCache, cache
  <2>2. CASE Goto(t, "decide") \/ Goto(t, "once")
    BY <1>0, <2>1, <2>2, OutsideList
  <2>3. CASE ReturnStale(t)
    <3>1. PICK spawned \in SUBSET {s \in Slots : pc[s] = "idle"} :
            pc' = [u \in Threads |-> IF u = t THEN "decide"
                                     ELSE IF u \in spawned THEN "once" ELSE pc[u]]
      BY <2>3 DEF ReturnStale
    <3>2. \A u \in Threads : pc'[u] = "round" <=> pc[u] = "round"
      BY <2>1, <3>1
    <3> QED BY <1>0, <2>1, <3>2, QuietList
  <2> QED BY <1>5, <2>2, <2>3 DEF ReadCache, Return
<1>6. ASSUME NEW t \in Threads, Default(t) PROVE ListInv'
  <2>1. pc[t] # "round" /\ refreshing' = refreshing /\ Kept
    BY <1>6 DEF Default, cache
  <2>2. Goto(t, "admitted") \/ Goto(t, "refused") \/ Goto(t, "read")
    BY <1>6 DEF Default, Resolve, Admit, Refuse, Lookup
  <2> QED BY <1>0, <2>1, <2>2, OutsideList
<1>7. ASSUME NEW t \in Threads, Once(t) PROVE ListInv'
  <2>1. pc[t] # "round" /\ Kept
    BY <1>7 DEF Once
  <2>2. refreshing => refreshing'
    BY <1>7 DEF Once
  <2>3. Goto(t, "healthy") \/ Goto(t, "decide") \/ Goto(t, "idle")
    BY <1>7 DEF Once, Conclude, Return
  <2> QED BY <1>0, <2>1, <2>2, <2>3, OutsideList
<1>8. ASSUME NEW t \in Threads, Healthy(t) PROVE ListInv'
  BY <1>0, <1>8, HealthyList
<1>9. ASSUME NEW t \in Threads, NEW a \in Accounts, Answer(t, a) \/ AnswerMax(t, a)
      PROVE ListInv'
  BY <1>0, <1>9, AnswerList, AnswerMaxList
<1>10. ASSUME NEW t \in Threads, Publish(t) PROVE ListInv'
  BY <1>0, <1>10, PublishList
<1>11. ASSUME NEW t \in Threads, Decide(t) PROVE ListInv'
  <2>1. pc[t] # "round" /\ refreshing' = refreshing /\ Kept
    BY <1>11 DEF Decide, cache
  <2>2. PICK point \in {"idle", "read", "served", "gate", "admitted", "refused"} :
          Goto(t, point)
    BY <1>11 DEF Decide, Resolve, Admit, Refuse, Lookup
  <2> QED BY <1>0, <2>1, <2>2, OutsideList
<1>12. ASSUME NEW t \in Threads, Served(t) \/ Gate(t) \/ Leave(t) PROVE ListInv'
  <2>1. pc[t] # "round" /\ refreshing' = refreshing /\ Kept
    BY <1>12 DEF Served, Gate, Leave, cache
  <2>2. PICK point \in {"gate", "admitted", "idle"} : Goto(t, point)
    BY <1>12 DEF Served, Gate, Leave
  <2> QED BY <1>0, <2>1, <2>2, OutsideList
<1> QED
  BY <1>1, <1>2, <1>3, <1>4, <1>5, <1>6, <1>7, <1>8, <1>9, <1>10, <1>11, <1>12
  DEF NextM, Work

LEMMA ListInvariant == SpecM => []ListInv
BY InitList, StepList, PTL DEF SpecM

\* What was published is what the accounts that answered have in common.
LEMMA ListMeets ==
  ASSUME ListInv, last.made
  PROVE  IsMeet(ids, last.answers, Gave(last.answers)) /\ Gave(last.answers) # {}
<1>1. ids = Intersection(last.answers) /\ ids # NoTable
  BY DEF ListInv, ListMade
<1>2. Gave(last.answers) # {}
  BY <1>1 DEF Intersection, Gave
<1>3. /\ Gave(last.answers) \subseteq Accounts
      /\ \A a \in Gave(last.answers) : last.answers[a] \in Tables[a]
  BY DEF ListInv, RoundTypes, Answers, Gave
<1>4. \A a \in Gave(last.answers) : Table(last.answers[a])
  BY <1>3, CatalogAssumption DEF Table
<1>5. IsMeet(Intersection(last.answers), last.answers, Gave(last.answers))
  BY <1>2, <1>3, <1>4, IntersectionMeets DEF Gave
<1> QED
  BY <1>1, <1>2, <1>5

\* The least of the windows that were reported.
LEMMA LeastIsMin ==
  ASSUME NEW S, S \subseteq Nat, NEW w \in S, \A v \in S : w <= v
  PROVE  Min(S) = w
<1>1. Min(S) \in S /\ \A v \in S : Min(S) <= v
  BY DEF Min
<1>2. Min(S) <= w /\ w <= Min(S) /\ Min(S) \in Nat /\ w \in Nat
  BY <1>1
<1> QED
  BY <1>2

\* For any accounts, tables and interleaving, the list is the intersection of the
\* answers of its round, with the weakest window that was reported.
THEOREM ListIsCommon == SpecM => []ListIsIntersection
<1>1. ASSUME ListInv, last.made
      PROVE  LET who == {a \in DOMAIN last.answers : last.answers[a] # NoTable} IN
             /\ DOMAIN ids = {m \in Models : \A a \in who : m \in DOMAIN last.answers[a]}
             /\ \A m \in DOMAIN ids :
                  LET reported == {last.answers[a][m].window : a \in who} \ {0} IN
                  /\ ids[m].window = IF reported = {} THEN 0 ELSE Min(reported)
                  /\ ids[m].max = \E a \in who : last.answers[a][m].max
                  /\ ids[m].hidden = \E a \in who : last.answers[a][m].hidden
  <2> DEFINE who == Gave(last.answers)
  <2>1. IsMeet(ids, last.answers, who)
    BY <1>1, ListMeets
  <2>2. DOMAIN ids = {m \in Models : \A a \in who : m \in DOMAIN last.answers[a]}
    BY <2>1 DEF IsMeet
  <2>3. \A a \in who : Table(last.answers[a])
    BY <1>1, CatalogAssumption DEF ListInv, RoundTypes, Answers, Gave, Table
  <2>4. ASSUME NEW m \in DOMAIN ids
        PROVE  LET reported == {last.answers[a][m].window : a \in who} \ {0} IN
               /\ ids[m].window = IF reported = {} THEN 0 ELSE Min(reported)
               /\ ids[m].max = \E a \in who : last.answers[a][m].max
               /\ ids[m].hidden = \E a \in who : last.answers[a][m].hidden
    <3> DEFINE reported == {last.answers[a][m].window : a \in who} \ {0}
    <3>1. /\ ids[m] \in ModelInfo
          /\ \A a \in who : last.answers[a][m] \in ModelInfo
      BY <2>1, <2>2, <2>3 DEF IsMeet, Table
    <3>2. /\ ids[m].window \in Nat /\ ids[m].max \in BOOLEAN /\ ids[m].hidden \in BOOLEAN
          /\ \A a \in who : last.answers[a][m].window \in Nat
      BY <3>1 DEF ModelInfo
    <3>3. /\ ids[m].max <=> \E a \in who : last.answers[a][m].max
          /\ ids[m].hidden <=> \E a \in who : last.answers[a][m].hidden
          /\ \A a \in who : last.answers[a][m].window # 0 =>
               ids[m].window # 0 /\ ids[m].window <= last.answers[a][m].window
          /\ ids[m].window # 0 => \E a \in who : ids[m].window = last.answers[a][m].window
      BY <2>1 DEF IsMeet
    <3> HIDE DEF who
    <3>4. ASSUME reported = {} PROVE ids[m].window = 0
      BY <3>3, <3>4
    <3>5. ASSUME reported # {} PROVE ids[m].window = Min(reported)
      <4>1. ids[m].window # 0
        BY <3>3, <3>5
      <4>2. ids[m].window \in reported /\ reported \subseteq Nat
        BY <3>2, <3>3, <4>1
      <4>3. \A v \in reported : ids[m].window <= v
        BY <3>3
      <4>4. Min(reported) = ids[m].window
        <5> HIDE DEF reported
        <5> QED
          BY <4>2, <4>3, LeastIsMin
      <4> QED
        BY <4>4
    <3>6. /\ ids[m].max = \E a \in who : last.answers[a][m].max
          /\ ids[m].hidden = \E a \in who : last.answers[a][m].hidden
      BY <3>2, <3>3
    <3>7. ids[m].window = IF reported = {} THEN 0 ELSE Min(reported)
      <4> HIDE DEF reported
      <4> QED
        BY <3>4, <3>5
    <3> QED
      BY <3>6, <3>7
  <2>5. who = {a \in DOMAIN last.answers : last.answers[a] # NoTable}
    BY DEF Gave
  <2> HIDE DEF who
  <2> QED
    BY <2>2, <2>4, <2>5
<1>2. ListInv => ListIsIntersection
  BY <1>1 DEF ListIsIntersection
<1> QED
  BY <1>2, ListInvariant, PTL

\* For any accounts, tables and interleaving, what the pool knows of an account
\* that was asked is of the last round, and serves the list that the round made.
THEOREM ListIsServable == SpecM => []ListedIsServable
<1>1. ASSUME ListInv, ~refreshing, NEW a \in DOMAIN last.answers, models[a] # {}
      PROVE  /\ models[a] = DOMAIN last.answers[a]
             /\ last.made => DOMAIN ids \subseteq models[a]
  <2>1. models[a] = DOMAIN last.answers[a]
    BY <1>1 DEF ListInv, KnownNow, ModelsKnown
  <2>2. ASSUME last.made PROVE DOMAIN ids \subseteq models[a]
    <3>1. a \in Gave(last.answers)
      BY <1>1, <2>1 DEF Gave, NoTable
    <3>2. IsMeet(ids, last.answers, Gave(last.answers))
      BY <1>1, <2>2, ListMeets
    <3> QED
      BY <2>1, <3>1, <3>2 DEF IsMeet
  <2> QED
    BY <2>1, <2>2
<1>2. ListInv => ListedIsServable
  BY <1>1 DEF ListedIsServable
<1> QED
  BY <1>2, ListInvariant, PTL

\* For any accounts, tables and interleaving, between rounds a max tier on the list
\* has an account that may serve it, after a round that made the list or in which
\* everybody failed, unless every account that could was deleted since.
THEOREM ListedTierHasServer == SpecM => []ListedTierIsServed
<1>1. ASSUME ListInv, ~refreshing, DOMAIN last.answers # {},
             last.made \/ \A a \in DOMAIN last.answers : last.answers[a] = NoTable,
             NEW m \in DOMAIN ids, ids[m].max
      PROVE  LET offers == {a \in DOMAIN last.answers : MayServe(last.answers[a], m)} IN
             MaxServed(m) \/ (offers # {} /\ offers \cap present = {})
  <2> DEFINE offers == {a \in DOMAIN last.answers : MayServe(last.answers[a], m)}
  <2>1. /\ DOMAIN last.answers \subseteq Accounts
        /\ \A a \in DOMAIN last.answers : maxProbed[a] =>
             last.answers[a] # NoTable /\ maxModels[a] = MaxOf(last.answers[a])
    BY <1>1 DEF ListInv, RoundTypes, Answers, KnownNow, MaxKnown
  <2>2. offers # {}
    <3>1. CASE last.made
      <4>1. IsMeet(ids, last.answers, Gave(last.answers))
        BY <1>1, <3>1, ListMeets
      <4>2. PICK a \in Gave(last.answers) : last.answers[a][m].max
        BY <1>1, <4>1 DEF IsMeet
      <4>3. m \in DOMAIN last.answers[a] /\ a \in DOMAIN last.answers
        BY <4>2, <4>1 DEF IsMeet, Gave
      <4> QED
        BY <4>2, <4>3 DEF MayServe, MaxOf
    <3>2. CASE \A a \in DOMAIN last.answers : last.answers[a] = NoTable
      BY <1>1, <3>2 DEF MayServe
    <3> QED
      BY <1>1, <3>1, <3>2
  <2>3. ASSUME NEW a \in offers, a \in present PROVE MaxServed(m)
    BY <2>1, <2>3 DEF MaxServed, MayServe
  <2> QED
    BY <2>2, <2>3
<1>2. ListInv => ListedTierIsServed
  BY <1>1 DEF ListedTierIsServed
<1> QED
  BY <1>2, ListInvariant, PTL
=============================================================================
