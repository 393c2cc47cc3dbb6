----------------------------- MODULE ModelCatalog -----------------------------
(***************************************************************************)
(* The catalog of models: the cache of internal/server/handler.go with its *)
(* lifetimes and its single flight, the round that asks every healthy      *)
(* account for its table and intersects the answers, the capabilities that *)
(* the round writes into the pool, and the admission of a chat request,    *)
(* which reads the cache up to three times and the pool twice.             *)
(*                                                                         *)
(* A thread is a request (Clients) or a goroutine that a stale read starts *)
(* (Slots).  A step is one critical section of the cache's lock, of the    *)
(* pool, or the answer of one account.                                     *)
(***************************************************************************)
EXTENDS Integers, Sequences, FiniteSets, FiniteSetsExt, SequencesExt

CONSTANTS
  Accounts,             \* uids; the answers are merged in their order
  Models, StaticModels, DefaultModel,
  WorkModels,           \* the models of the Work channel
  Plain,                \* each model's name without "-Official"
  FunctionSupportsMaxTier,  \* whether the channel has max tiers
  Tables,               \* the tables each account may answer with
  Clients, Slots,
  Asks,                 \* the requests a client may make
  MaxTierMode,          \* "auto" or "dev"
  TTL, FetchFailCooldown,
  MaxNow                \* bound

NoTable == <<>>         \* the empty function: nil

\* What the catalog knows of a model: its window (one of three capacities, 0 if
\* it is not reported), whether it has a max tier, and whether it is hidden.
ModelInfo == [window : Nat, max : BOOLEAN, hidden : BOOLEAN]

ASSUME CatalogAssumption ==
  /\ Accounts \subseteq Nat /\ IsFiniteSet(Accounts)
  /\ StaticModels \subseteq Models /\ DefaultModel \in Models
  /\ WorkModels \subseteq Models /\ Plain \in [Models -> Models]
  /\ FunctionSupportsMaxTier \in BOOLEAN
  /\ MaxTierMode \in {"auto", "dev"}
  /\ TTL \in Nat \ {0} /\ FetchFailCooldown \in Nat \ {0} /\ MaxNow \in Nat
  /\ \A a \in Accounts : \A table \in Tables[a] :
       DOMAIN table \subseteq Models /\ table \in [DOMAIN table -> ModelInfo] \ {NoTable}
  /\ Clients \cap Slots = {} /\ "nobody" \notin Clients \cup Slots

Threads == Clients \cup Slots
Never == 0 - 1

VARIABLES
  now,
  ids, fetched, lastFail, refreshing,  \* dynamicModelsCache
  present,                             \* the accounts in the pool
  models, maxProbed, maxModels,        \* what it knows of each of them
  pc, ask, look, got, config, tier,    \* the locals of each thread
  asked, answer, written,              \* those of its round; written: done with
  last      \* history: the answers of the last round, its end, and whether it made a list

cache == <<ids, fetched, lastFail, refreshing>>
caps == <<present, models, maxProbed, maxModels>>
locals == <<pc, ask, look, got, config, tier>>
round == <<asked, answer, written>>
cvars == <<now, cache, caps, locals, round, last>>

\* A request: the model it names with its suffix taken off, and in the spelling of
\* the catalog; which suffix that was; whether the name is one of the Work channel;
\* whether it comes with tools.  Without a name, base is the default of its channel.
NoAsk == [named |-> FALSE, base |-> DefaultModel, norm |-> DefaultModel,
          tier |-> "bare", work |-> FALSE, tools |-> FALSE]

InitM ==
  /\ now = 0
  /\ ids = NoTable /\ fetched = Never /\ lastFail = Never /\ refreshing = FALSE
  /\ present = Accounts /\ models = [a \in Accounts |-> {}]
  /\ maxProbed = [a \in Accounts |-> FALSE]
  /\ maxModels = [a \in Accounts |-> {}]
  /\ pc = [t \in Threads |-> "idle"]
  /\ ask = [t \in Threads |-> NoAsk] /\ look = [t \in Threads |-> "list"]
  /\ got = [t \in Threads |-> NoTable]
  /\ config = [t \in Threads |-> DefaultModel]
  /\ tier = [t \in Threads |-> "dev"]
  /\ asked = [t \in Threads |-> {}]
  /\ answer = [t \in Threads |-> <<>>]
  /\ written = [t \in Threads |-> {}]
  /\ last = [answers |-> <<>>, end |-> Never, made |-> FALSE]

Goto(t, point) == pc' = [pc EXCEPT ![t] = point]

-----------------------------------------------------------------------------
(* The cache *)

Fresh == ids # NoTable /\ now - fetched < TTL
NegativelyCached == lastFail # Never /\ now - lastFail < FetchFailCooldown

\* fetchDynamicModels gives the caller a table.
Return(t, table) ==
  /\ got' = [got EXCEPT ![t] = table] /\ Goto(t, "decide")

\* A stale table is returned at once and a goroutine started; one of the slots
\* stands for all that have not come to the lock yet (bound).
ReturnStale(t) ==
  LET free == {s \in Slots : pc[s] = "idle"}
      spawned == IF free = {} THEN {} ELSE {CHOOSE s \in free : TRUE} IN
  /\ got' = [got EXCEPT ![t] = ids]
  /\ pc' = [u \in Threads |-> IF u = t THEN "decide"
                             ELSE IF u \in spawned THEN "once" ELSE pc[u]]

ReadCache(t) ==
  /\ pc[t] = "read"
  /\ \/ Fresh /\ Return(t, ids)
     \/ ~Fresh /\ ids # NoTable /\ ReturnStale(t)
     \/ ids = NoTable /\ NegativelyCached /\ Return(t, NoTable)
     \/ ids = NoTable /\ ~NegativelyCached /\ Goto(t, "once") /\ UNCHANGED got
  /\ UNCHANGED <<now, cache, caps, ask, look, config, tier, round, last>>

\* refreshModelCacheOnce has an outcome: a goroutine has no use for it.
Conclude(t, table) ==
  IF t \in Clients THEN Return(t, table) ELSE Goto(t, "idle") /\ UNCHANGED got

\* Mutant of MayRefresh: the flag is not read again under the lock.
MayRefreshBlind == ~Fresh /\ ~NegativelyCached

\* Mutant of MayRefresh: only the flag is.
MayRefreshAgain == ~refreshing

\* What is checked again under the lock before a round.
MayRefresh == ~refreshing /\ ~Fresh /\ ~NegativelyCached

Once(t) ==
  /\ pc[t] = "once"
  /\ IF MayRefresh
       THEN refreshing' = TRUE /\ Goto(t, "healthy") /\ UNCHANGED got
       ELSE Conclude(t, ids) /\ UNCHANGED refreshing
  /\ UNCHANGED <<now, ids, fetched, lastFail, caps, ask, look, config,
                 tier, round, last>>

-----------------------------------------------------------------------------
(* The round *)

\* Its accounts are those that Pool.Healthy returns: any of the pool.
Healthy(t) ==
  /\ pc[t] = "healthy" /\ Goto(t, "round")
  /\ \E accts \in SUBSET present : asked' = [asked EXCEPT ![t] = accts]
  /\ UNCHANGED <<now, cache, caps, ask, look, got, config, tier, answer, written, last>>

\* Mutant of SetModels: a failure leaves what was known of the account.
SetModelsKept(a, table) ==
  /\ models' = [models EXCEPT ![a] =
                  IF a \in present /\ table # NoTable THEN DOMAIN table ELSE @]
  /\ UNCHANGED <<present, maxProbed, maxModels>>

\* An account that was deleted since it was asked is left alone.
SetModels(a, table) ==
  /\ models' = [models EXCEPT ![a] = IF a \in present THEN DOMAIN table ELSE @]
  /\ UNCHANGED <<present, maxProbed, maxModels>>

MaxOf(table) == {m \in DOMAIN table : table[m].max}

\* Mutant of SetMaxModels: a failure counts as an account without any max tier.
SetMaxModelsNone(a, table) ==
  /\ maxProbed' = [maxProbed EXCEPT ![a] = a \in present]
  /\ maxModels' = [maxModels EXCEPT ![a] = IF a \in present THEN MaxOf(table) ELSE @]
  /\ UNCHANGED <<present, models>>

\* An empty set is knowledge, none at all is not.
SetMaxModels(a, table) ==
  /\ maxProbed' = [maxProbed EXCEPT ![a] = a \in present /\ table # NoTable]
  /\ maxModels' = [maxModels EXCEPT ![a] = IF a \in present THEN MaxOf(table) ELSE @]
  /\ UNCHANGED <<present, models>>

\* An account answers with a table, or not (an error, 25 s, an empty table): a
\* failure clears what was known of it.  The pool learns it in two sections.
Answer(t, a) ==
  /\ pc[t] = "round" /\ a \in asked[t] \ DOMAIN answer[t]
  /\ \E table \in Tables[a] \cup {NoTable} :
       /\ answer' = [answer EXCEPT ![t] = [b \in DOMAIN @ \cup {a} |->
                                             IF b = a THEN table ELSE @[b]]]
       /\ SetModels(a, table)
  /\ UNCHANGED <<now, cache, locals, asked, written, last>>

AnswerMax(t, a) ==
  /\ pc[t] = "round" /\ a \in DOMAIN answer[t] \ written[t]
  /\ SetMaxModels(a, answer[t][a])
  /\ written' = [written EXCEPT ![t] = @ \cup {a}]
  /\ UNCHANGED <<now, cache, locals, asked, answer, last>>

\* A capacity of 0 is one the account did not report.
Weaker(x, y) == IF y > 0 /\ (x = 0 \/ y < x) THEN y ELSE x

\* Mutant of Merged: an account that did not report a window makes it unknown.
MergedAbsent(cur, mi) ==
  [window |-> IF mi.window < cur.window THEN mi.window ELSE cur.window,
   max |-> cur.max \/ mi.max, hidden |-> cur.hidden \/ mi.hidden]

Merged(cur, mi) ==
  [window |-> Weaker(cur.window, mi.window),
   max |-> cur.max \/ mi.max, hidden |-> cur.hidden \/ mi.hidden]

Meet(base, table) ==
  [m \in DOMAIN base \cap DOMAIN table |-> Merged(base[m], table[m])]

\* refreshModelIntersection: from the first answer on, in the order of the uids.
Intersection(answers) ==
  LET who == {a \in DOMAIN answers : answers[a] # NoTable} IN
  IF who = {} THEN NoTable
  ELSE MapThenFoldSet(LAMBDA table, base : Meet(base, table), answers[Min(who)],
                      LAMBDA a : answers[a], Max, who)

\* The round is over: its list, or the instant of its failure, is published.
Publish(t) ==
  /\ pc[t] = "round" /\ written[t] = asked[t]
  /\ LET infos == Intersection(answer[t]) IN
       /\ refreshing' = FALSE
       /\ IF infos # NoTable
            THEN ids' = infos /\ fetched' = now /\ lastFail' = Never
            ELSE lastFail' = now /\ UNCHANGED <<ids, fetched>>
       /\ Conclude(t, infos)
       /\ last' = [answers |-> answer[t], end |-> now, made |-> infos # NoTable]
  /\ asked' = [asked EXCEPT ![t] = {}] /\ answer' = [answer EXCEPT ![t] = <<>>]
  /\ written' = [written EXCEPT ![t] = {}]
  /\ UNCHANGED <<now, caps, ask, look, config, tier>>

-----------------------------------------------------------------------------
(* Admission: mapModel, resolveModelTier, and the gate of chatCompletions *)

Lookup(t, purpose) == look' = [look EXCEPT ![t] = purpose] /\ Goto(t, "read")

Admit(t, m, asTier) ==
  /\ config' = [config EXCEPT ![t] = m] /\ tier' = [tier EXCEPT ![t] = asTier]
  /\ Goto(t, "admitted") /\ UNCHANGED look

Refuse(t) == Goto(t, "refused") /\ UNCHANGED <<look, config, tier>>

\* A model of the Work channel is taken by its plain name when there are tools.
Config(t, m) == IF ask[t].tools THEN Plain[m] ELSE m

\* resolveModelTier up to its look at the catalog.
Resolve(t, mapped) ==
  LET m == Config(t, mapped) IN
  IF \/ ask[t].work \/ m \in WorkModels \/ ask[t].tier = "dev"
     \/ ask[t].tier = "bare" /\ (MaxTierMode # "auto" \/ ~FunctionSupportsMaxTier)
    THEN Admit(t, m, "dev")
  ELSE IF MaxTierMode # "auto" THEN Refuse(t)
  ELSE /\ config' = [config EXCEPT ![t] = m] /\ tier' = [tier EXCEPT ![t] = "dev"]
       /\ Lookup(t, "tier")

\* A request, or a look at the list (/v1/models, the console).
Start(t) ==
  /\ pc[t] = "idle" /\ t \in Clients
  /\ \/ /\ Lookup(t, "list") /\ UNCHANGED <<ask, config, tier>>
     \/ \E req \in Asks :
          /\ ask' = [ask EXCEPT ![t] = req]
          /\ Lookup(t, IF req.named THEN "base" ELSE "default")
          /\ UNCHANGED <<config, tier>>
  /\ UNCHANGED <<now, cache, caps, got, round, last>>

\* mapModel asks for no table when no model was named.
Default(t) ==
  /\ pc[t] = "read" /\ look[t] = "default" /\ Resolve(t, ask[t].base)
  /\ UNCHANGED <<now, cache, caps, ask, got, round, last>>

\* knownModel: the static table answers when there is no other.
Known(table, m) == IF table = NoTable THEN m \in StaticModels ELSE m \in DOMAIN table
HasMaxTier(table, m) == m \in DOMAIN table /\ table[m].max

Decide(t) ==
  /\ pc[t] = "decide" /\ got' = [got EXCEPT ![t] = NoTable]
  /\ \/ look[t] = "list" /\ Goto(t, "idle") /\ UNCHANGED <<look, config, tier>>
     \/ /\ look[t] = "base"
        /\ IF Known(got[t], ask[t].base) THEN Resolve(t, ask[t].base)
           ELSE Lookup(t, "norm") /\ UNCHANGED <<config, tier>>
     \/ /\ look[t] = "norm"
        /\ IF Known(got[t], ask[t].norm) THEN Resolve(t, ask[t].norm)
           ELSE IF ask[t].work THEN Resolve(t, ask[t].base) ELSE Refuse(t)
     \/ /\ look[t] = "tier" /\ UNCHANGED <<look, config>>
        /\ \/ /\ HasMaxTier(got[t], config[t])
              /\ IF ask[t].tier = "max"
                   THEN Goto(t, "gate") /\ tier' = [tier EXCEPT ![t] = "max"]
                   ELSE Goto(t, "served") /\ UNCHANGED tier
           \/ /\ ~HasMaxTier(got[t], config[t]) /\ UNCHANGED tier
              /\ Goto(t, IF ask[t].tier = "max" THEN "refused" ELSE "admitted")
  /\ UNCHANGED <<now, cache, caps, ask, round, last>>

\* MaxServed: an account that was not probed may serve any model.
MaxServed(m) == \E a \in present : ~maxProbed[a] \/ m \in maxModels[a]

\* A bare name is raised to the max tier if the pool may serve it.
Served(t) ==
  /\ pc[t] = "served"
  /\ IF MaxServed(config[t])
       THEN Goto(t, "gate") /\ tier' = [tier EXCEPT ![t] = "max"]
       ELSE Goto(t, "admitted") /\ UNCHANGED tier
  /\ UNCHANGED <<now, cache, caps, ask, look, got, config, round, last>>

\* chatCompletions asks the pool again, for a name with a suffix too.
Gate(t) ==
  /\ pc[t] = "gate" /\ Goto(t, "admitted")
  /\ tier' = [tier EXCEPT ![t] = IF MaxServed(config[t]) THEN "max" ELSE "dev"]
  /\ UNCHANGED <<now, cache, caps, ask, look, got, config, round, last>>

Leave(t) ==
  /\ pc[t] \in {"admitted", "refused"} /\ Goto(t, "idle")
  /\ ask' = [ask EXCEPT ![t] = NoAsk] /\ look' = [look EXCEPT ![t] = "list"]
  /\ config' = [config EXCEPT ![t] = DefaultModel]
  /\ tier' = [tier EXCEPT ![t] = "dev"]
  /\ UNCHANGED <<now, cache, caps, got, round, last>>

-----------------------------------------------------------------------------
(* The outside *)

Tick ==
  /\ now < MaxNow /\ now' = now + 1
  /\ UNCHANGED <<cache, caps, locals, round, last>>

\* adminDeleteAccount: what the pool knew goes with the entry.
Delete(a) ==
  /\ a \in present /\ present' = present \ {a}
  /\ models' = [models EXCEPT ![a] = {}]
  /\ maxProbed' = [maxProbed EXCEPT ![a] = FALSE]
  /\ maxModels' = [maxModels EXCEPT ![a] = {}]
  /\ UNCHANGED <<now, cache, locals, round, last>>

\* An import or a login makes an entry of which nothing is known; one that is there
\* keeps what is known of it.
Import(a) ==
  /\ a \notin present /\ present' = present \cup {a}
  /\ UNCHANGED <<now, cache, models, maxProbed, maxModels, locals, round, last>>

Work(t) ==
  \/ (look[t] # "default" /\ ReadCache(t)) \/ Default(t) \/ Once(t) \/ Healthy(t)
  \/ (\E a \in Accounts : Answer(t, a) \/ AnswerMax(t, a))
  \/ Publish(t) \/ Decide(t) \/ Served(t) \/ Gate(t) \/ Leave(t)

NextM ==
  \/ Tick \/ \E a \in Accounts : Delete(a) \/ Import(a)
  \/ \E t \in Threads : Start(t) \/ Work(t)

SpecM == InitM /\ [][NextM]_cvars

-----------------------------------------------------------------------------
(* Properties *)

InRound(t) == pc[t] \in {"healthy", "round"}

\* At most one thread at a time asks the accounts, whoever finds the cache stale
\* or empty ("at most one fan-out at a time", handler.go:495).
SingleFlight ==
  /\ \A t, u \in Threads : InRound(t) /\ InRound(u) => t = u
  /\ refreshing <=> \E t \in Threads : InRound(t)

\* After a round nobody asks again before the lifetime of its outcome has passed.
RoundsSpaced ==
  [][(~refreshing /\ refreshing') /\ last.end # Never =>
       now - last.end >= IF last.made THEN TTL ELSE FetchFailCooldown]_cvars

\* The published list is what every account that answered has in common, with
\* the weakest window that any of them reported, the max tier if any has it, and
\* hidden if any hides it (refreshModelIntersection).
ListIsIntersection ==
  ~refreshing /\ last.made =>
    LET who == {a \in DOMAIN last.answers : last.answers[a] # NoTable} IN
    /\ DOMAIN ids = {m \in Models : \A a \in who : m \in DOMAIN last.answers[a]}
    /\ \A m \in DOMAIN ids :
         LET reported == {last.answers[a][m].window : a \in who} \ {0} IN
         /\ ids[m].window = IF reported = {} THEN 0 ELSE Min(reported)
         /\ ids[m].max = \E a \in who : last.answers[a][m].max
         /\ ids[m].hidden = \E a \in who : last.answers[a][m].hidden

\* Between rounds the pool knows of an account that was asked what it answered in
\* the last round or nothing, never what it said in an earlier one ("rather no
\* limit than stale data", handler.go:592); so after a round that made a list no
\* account is left out for a model on it.  (A round whose answers have nothing in
\* common makes none: the old list stays, though no account need serve it.)
ListedIsServable ==
  ~refreshing => \A a \in DOMAIN last.answers :
    models[a] # {} => /\ models[a] = DOMAIN last.answers[a]
                      /\ last.made => DOMAIN ids \subseteq models[a]

\* An account with this answer may serve m at the max tier: its table has the tier,
\* or it failed, and a failure forbids nothing.
MayServe(table, m) == table = NoTable \/ m \in MaxOf(table)

\* Between rounds a listed max tier has an account that may serve it, so that the
\* two looks at the pool agree with the list, unless every account that could was
\* deleted since: then nobody makes a new list before the old one is stale, and an
\* explicit __max is served as dev meanwhile.  This holds after a round that made
\* the list and after one in which everybody asked had failed.
ListedTierIsServed ==
  ~refreshing /\ DOMAIN last.answers # {}
    /\ (last.made \/ \A a \in DOMAIN last.answers : last.answers[a] = NoTable)
    => \A m \in DOMAIN ids : ids[m].max =>
         LET offers == {a \in DOMAIN last.answers : MayServe(last.answers[a], m)} IN
         MaxServed(m) \/ (offers # {} /\ offers \cap present = {})
=============================================================================
