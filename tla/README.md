# trae2api: TLA+ models of the gateway and its account pool

trae2api is a gateway that speaks the OpenAI API to its clients and spreads
their requests over a pool of Trae accounts. What makes it hard is not the wire
format but the state of the accounts: cooldowns, disabled sessions, a user
switch, two balances, leases, capability tables and blocks, all changed by
concurrent request handlers, probes, a scheduler and the console, persisted as a
whole at nearly every change, and read back after a crash. This directory models
that state and the code that moves it, checks it with TLC and proves the central
properties with TLAPS for every value of the constants.

Line numbers below are those of the repository (`src/`).

## 1. The system

| Component | State it keeps | Operations | Hard part |
|---|---|---|---|
| Account pool (`internal/pool/pool.go`) | `byUID` (entries), session affinity, `state.json` | about 45 methods under one mutex; most rewrite `state.json` | any caller, any order; crash after any call; failed saves; leases of removed accounts |
| Chat handler (`internal/server/handler.go`) | locals of each request: tier, `tried`, the lease, the loop index; the model cache | `chatCompletions`, `executeWorkRequest`, `handleStreamError` | nested rotation loops, fallback between channels, checks and updates in separate critical sections |
| Usage log and panel (`internal/server/usage.go`, `admin.go`) | day files, month summaries; the ring of a query | `recordUsage`, the archive, the query of a range | crash between write and remove, failures in the middle, midnight, a query beside the archiver |
| Scheduler (`internal/scheduler`) | none of its own | token refresh, daily check-in and archive, hourly ledger probe | races with requests; long rounds miss an hour |
| Credential store (`internal/auth`) | one `Auth` and one file for each account | refresh, `SaveAtomic`, `LoadDir` | a refresh token is good once; save and delete race; two `Auth`s of one account |
| Login (`internal/server/login.go`, `callback.go`) | pending logins | start, poll, cancel, callback | callbacks that are late or come twice |
| Admin API (`accounts.go`) | none | import, delete, switch, refresh | pool and file change in two steps |
| Model catalog (`handler.go:397-680`, `tier.go`) | cache, capability tables in the pool | single-flight refresh over all accounts | staleness, partial answers |
| Check-in (`scheduler.go`, `cmd/checkin`) | generation and back-off in `state.json`, `checkin-state.json` | claim, rotate the device, back off | a second process, with a pool of its own on the same file |
| SOLO client and stream relay (`internal/upstream`) | none | calls, SSE translation, keep-alive | errors inside a stream; two writers |
| Work client (`work_client.go`) | none | native call with a bridge fallback, the relay of its answer | bodies left open; text that is sent twice |
| Console, logging, in-flight counters | counters | reads | none that interacts |

How they interact: handlers, probes, scheduler and console share the pool by
method calls, each of which is one critical section of `Pool.mu`. A handler that
asks the pool and then acts on the answer does so in two sections, with calls
upstream in between. The pool and its `state.json` change together inside the
section; the auth files and the usage log have their own locks. The components
meet the outside in upstream's answers, the file system's failures and the end of
the process.

What makes each component correct:

* pool: a restart loses no cooldown, stop or balance; stops and cooldowns are
  lifted only by what may lift them; leases count the requests that hold them;
* handler: every exit gives back its lease; every request is answered; the
  selection rules hold although their inputs change; a penalty hits the account
  and the model it should;
* usage log: no request is lost or counted twice; recent files stay; old ones go
  in the end;
* credential store: what is in the file can be refreshed after a restart, however
  refreshes, imports and logins overlap; a deleted account stays deleted;
* ledger: the sort key fits the packs that are known, and the copy returns to what
  upstream has;
* check-in: a flagged number is left behind; nobody is left out who was not
  checked in; one round a day;
* catalog: one round at a time; what is listed can be served;
* relays: streamed or whole, the client gets the same answer; a stream gives the pool
  each bill and error that was read, whoever leaves when and however it ends, and a
  whole answer that succeeds gives it the same balance.

## 2. The modules

```
PoolEntry            one account: predicates and method bodies as pure operators
  Pool               the pool of one process, state.json, leases, restarts
    MCPool           pool.cfg
    PoolRelogin      + the session upstream          pool_relogin.cfg
    ChatRotation     the request handlers over the pool
      RotationProofs   of Pool: types, durability, leases, action properties; of
                       ChatRotation: it implements Pool, exact leases, rule 1
      MCRotation       rotation_dev.cfg, rotation_work.cfg, rotation_pair.cfg
Ledger               the packs behind the balance of an account
  LedgerProofs       the sort key, the copy follows upstream
  MCLedger           ledger.cfg
Credentials          the credential of an account, its file, its logins
  CredentialProofs   the four safety properties
  MCCredentials      credentials.cfg
Checkin              the daily check-in by two processes
  CheckinProofs      fresh numbers, nobody left out, one round a day
  MCCheckin          checkin.cfg
ModelCatalog         the model cache, its rounds, the admission of a request
  CatalogProofs      single flight, spacing of the rounds, what a list promises
  MCCatalog          catalog.cfg
StreamRelay          the relay of the dev channel, with its pings
  WorkRelay          the call and the relay of the work channel
    RelayProofs      frames apart, bodies closed, both answers agree, every text
    MCRelay          relay.cfg: one request, relayed by either channel
UsageLog             the count of a day's requests, abstractly
UsageArchive         the files of the usage log, the archive; implements UsageLog
  UsagePanel         + the query of the console
    UsageProofs      nothing lost, exact months, the refinement, the panel, its ring
    MCUsage          usage.cfg, usage_loss.cfg
FoldFacts            what a fold of the community modules computes, for any operation;
                     the proof modules instantiate it
```

Two specifications are abstract. `Pool` is what the handlers may do to the pool,
and `ChatRotation` implements it (`PoolSpec`). `UsageLog` is what the usage log
promises, and `UsageArchive` implements it (`LogSpec`): the refinement mapping counts
a day by its summary, if that has it, and else by its file.

### PoolEntry and Pool

`PoolEntry` is the type `entry` with the body of every method that works on one
entry as an operator (`Cooled` is the body of `Cooldown`, `ErrorNoted` that of
`NoteError`, and so on), the readers (`Healthy`, `Serves`, `Before`,
`ExpirePressure`), and the translation to a row of `state.json` and back
(`Durable`, `Loaded`), which drops what the code does not persist: the error
counts, the capability tables and blocks, the leases, the pick stamp.

`Pool` has one action for each method. `UpdateAndSave` is a method that ends in
`saveLocked`, `UpdateOnly` one that does not; a save fails when the environment
says so (`SaveOutcomes`) and then leaves the old file, and `saved` remembers the
outcome of the latest one. `Restart` is the end of the process at any point and
the next start (`New`, `SyncToDir`), with whichever auth files there are then.

| Variable | Code |
|---|---|
| `present`, `entry` | `Pool.byUID`; an absent account reads as `NewEntry` |
| `disk` | `state.json`; a missing row reads as a new account |
| `saved` | nothing in the code: `saveLocked` drops the error |
| `held` | `heldUID` of each running `chatCompletions` |
| `now` | the clock |

Data are abstracted to what can be told apart: reasons are the kind of call that
set them (only `""` and the work channel's are read back), models are a set, a
block table maps a model to the instant of the block, and of the pack ledger only
`credits` and `nearestExpire` are kept, which `Account` sets to any pair of
values. A row of `state.json` for an account that has no auth file, which the
code drops at the next save, reads back only if the file comes back.

### ChatRotation

One client is one request at a time, and `pc` says where its handler is. A step
is one critical section of the pool with the local work up to the next one, so
that two sections the code keeps apart are two steps here: the pick and the
lease, `Credits` and the penalty that depends on it (`Attribute`, then `PlanGate`
or `PlanCool`), `ModelKnown` and the pick, the probe's balance and its cooldown.

| `pc` | In the code |
|---|---|
| `filter` | before `ModelKnown` (handler.go:980) |
| `pick` | the head of the dev loop (985) |
| `hold` | in `acquireAcct` (961) |
| `call` | the token refresh and the call upstream (1030, 1048) |
| `gate`, `plan` | after a 1005, the ledger having been read (1073, 1248) |
| `stream` | reading a successful answer (1134-1218) |
| `work`, `wcall`, `wread` | `executeWorkRequest` (775, 785, 846) |
| `exit` | answered, before the deferred release (956) |

`Answers` are the kinds of `upstream.Classify` and of the transport errors, so
every branch of the status switch is a disjunct of `Call`. A stream may hold any
number of usage and error events, and the relay reads on after an error.
`Background` is what else moves the pool: the probe's ledgers, the catalog's
capabilities, the console's switch. The cleaning of old session bindings is left
out, because a binding that is cleaned is one that no request asked for in half
an hour, and reads do not look at its age.

### Ledger

The packs of one account, upstream and in the pool (`packs`, `credits`,
`nearestExpire`). `Charge`, `Grant` and `Expire` change them upstream; answers
travel: a bill (`notify_usage`, applied by `ApplyUsageRemain`, first pack first),
the hourly probe (`SetPacks`), and the check-in round, which reads the total,
calls `ReenableIfCredits`, and reads the packs only then. Upstream counts
fractions of a credit: `PackList` cuts them off, a bill rounds them. Two history
variables, `applied` and `off`, remember which answer the copy shows and why it
may be off.

### Credentials

The `Auth`s of one account in memory, each with its own lock, the file and its
`.tmp`, the refresh token that upstream accepts for each login (`live`), and the
pending logins of the page. A worker is a goroutine that does a job: refresh
before a request (`due`: its access token is about to expire), refresh of the
scheduler or the console, import by link or by document, nickname, delete, and the
callback of a login. A step is a critical section of a lock, one file operation, or
the exchange upstream under the lock. The exchange may be refused, and its answer
may be lost after upstream has replaced the token; a save may fail at each of its
two operations; the process may stop anywhere. `hurt` remembers the logins to which
that happened or whose session upstream ended, `overlap` that a delete met a save of
the same account. The `Auth`s have a lock each but one `.tmp`, so that a rename moves
whatever the latest write left there: `stored` are the logins that a rename has put
into the file, `overwritten` those whose temporary file another save wrote over before
their own rename. Content is abstracted to a login and the number of its token.

### Checkin

The scheduler's loop and the command as processes with a pool each. The day has
`DayLength` hours; a step is one call upstream or one critical section. Both run
the same check-in (`checkinOne`, `checkinOnce`): generation, status, claim, and
after 9074 the next generation and a second try. What is saved is what the
process's own pool holds of this account, also when it is saved for another one
(`OtherSave`), so that the generation can go back. The command keeps
`checkin-state.json`, may run past midnight and be killed.

### ModelCatalog

The cache with its lifetime and its negative cache, `refreshing` for the single flight,
a round whose accounts answer in any order, each followed by the two critical
sections that write its capabilities into the pool (`SetModels`, `SetMaxModels`), the
intersection of the answers, which goes through them by uid, and the admission of a
request: `mapModel`, `resolveModelTier` and the gate, which read the cache up to three
times and the pool twice. A request with tools has its work model taken by the plain
name (`Config`), and only a channel with max tiers raises a bare name. `Delete` takes
an account and what is known of it out of the pool at any moment, `Import` brings it
back unknown (`present`); a round leaves alone what was deleted since it asked. A
thread is a request or the goroutine that a stale read starts.

### StreamRelay and WorkRelay

A frame on the wire is two steps, its begin and its end, so that pings (`ping`, the
goroutine before the first chunk) and frames can meet where `writeMu` is not held.
The client may leave between any two frames, and a read may fail. `Aggregate`, the
code's other path, is also the reference that the streamed answer is compared with;
after a failed read it has nothing but the error, not even the balance it had read
(`Broken`), and `ToldOfWhole` is what the handler tells the pool of it. `WorkRelay` is
`ChatStream` (native call, first read, bridge) with the bodies it opens, and the
relay of the answer, which must not send again what a later line repeats
(`handleDelta`). That function takes a piece that was said before for a repetition, and
has one memory for reasoning and content. `AggregateWork` reads the same lines with a
`Scanner` that gives up at a line of 64 KB (`long`), passes on a body that is an answer
already (`json`, of which the stream makes nothing) and returns a failed read as an
error. In `MCRelay` a request takes one of the two relays.

### UsageArchive and UsagePanel

A day is a number, a file the number of its lines, a summary the lines of each
day and their sum. The archiver takes no lock, so each file operation is a step:
requests are recorded in between, midnight passes, the process stops, and each
operation in `Faults` may fail. The age of a file is counted from midnight UTC
while its name is Beijing's date, so a run before eight in the morning sees it a
day younger (`early`). `UsagePanel` adds a query that reads the files of a range
one after the other, beside all that, with the ring of the last lines: `ring` is
a `usageRing`, `RingAdd` writes a line over the oldest one, and `RingAll` reads the
slots in the order the code does. The figures by day are those of the query;
the panel of a single day shows only their sum.

## 3. The runs

Passing runs, with their distinct states:

| Run | Instance | What it shows |
|---|---|---|
| `pool` | 1 account, 2 requests, 1 model, 2 instants; at most one failed save in a row | `RestartLosesNothing`, `NoLeakedLease`, `CooldownLiftedOnlyByCredits`, `StopsStick` over all orders of calls |
| `rotation_dev` (156 000) | 2 accounts, 1 request on the max tier (stream or not), `MaxRotate` 2 | `LeaseExact`, `EveryRequestEnds`, `PressureFirst`, with the downgrade and in-stream errors |
| `rotation_work` (215 000) | 2 accounts, 1 request through the dev loop or straight to the work channel | `EveryRequestEnds` for the nested loops |
| `rotation_pair` (135 000) | 2 accounts, 2 requests in one session, 2 instants | the handlers implement `Pool` (`PoolSpec`) |
| `ledger` (175 000) | packs of 2 credits and of 1, 3 fractions a credit, charges of 1 and 4, 4 changes upstream | `NearestIsFirstOpen`, `FollowsUpstream`, `EventuallyExact`: bills, probe and check-in round in any order |
| `credentials` (1 313 000) | 3 `Auth`s, a login by link and one by document, 2 workers, 1 exchange a login, one login at a time hurt | `NoOverlapKills`, `RestartCanRefresh`, `NoOrphanFile`, `ReportedSuccessIsStored` |
| `checkin` (182 000) | 3 days of 4 hours, refresh at 1, check-in at 3, rounds of up to 1 hour, 3 generations | `RoundOnceADay`, `SecondTryIsFresh`, `LeftOutOnlyIfClaimed` with two processes |
| `catalog` (2 761 000) | 4 models; account 1 with one table, account 2 with one of two, one of them without a common model, both deleted and imported at any moment; 2 clients, 1 goroutine, lifetime 2, negative lifetime 1 | `SingleFlight`, `RoundsSpaced`, `ListIsIntersection`, `ListedIsServable`, `ListedTierIsServed` |
| `relay` (368 000) | every 3 events of the dev stream, every 3 lines of the work stream, long ones, the bridge's DONE and an answer that is no stream among them, every way to get one | `StreamAgrees`, `AccountingAgrees`, `OnlyErrorsMeetPings`, `PingsEnd`, `EveryTextArrives`, `WorkAgrees`, `BodiesClosed` |
| `usage` (463 000) | 5 days in 2 months, 1 request a day, 2 failures, a query of 3 days with a ring of 2 | `NothingLost`, `MonthlyExact`, `KeepsRecent`, `OldDaysArchived`, `LogSpec`, `RingShowsNewest`, `PanelShowsRecent`, with every fault but a cut-off scan |

Runs that refute what a comment says:

| Run | Claim | What happens |
|---|---|---|
| `pool_relogin` | a disabled account recovers by a re-login or a new file (pool.go:70) | `Add` keeps `disabled`, and so does a restart |
| `usage_loss` | the archive is never a way to lose data (usage.go:554) | a scan that stops early is archived as the whole day, and the file removed |

Bounds, and why they are enough:

* One account in `pool`: no action of `Pool` reads two accounts, except the save,
  which writes each by its own entry. Two requests show leases that outlive an
  account. Two instants with durations of 1 and 2 show a cooldown that has passed
  and one that has not. Clients are symmetric.
* The `VIEW` of `pool` drops the capability tables and the pick stamp, which no
  action of `Pool` reads and `state.json` does not hold.
* `OneFailedSave` keeps a second save from failing right after a failed one; the
  proofs have no such bound.
* `MaxRotate` 2 with two accounts has a first, a last and an exhausted iteration,
  and lets the budget end before and after the candidates do.
* `DevCatalog`, `OneProbe` and `SwitchOnly` bound how often the
  background changes the catalog and the switch: each is read in one step and
  never kept across two, so what matters is the value that is met, not the
  changes.
* The clock stands still in `rotation_dev` and `rotation_work`; it runs in
  `rotation_pair`, where cooldowns end and a 100 ms gap passes.
* `ledger`: two packs let a charge use up one and go on in the next; a charge of
  one fraction is lost in the rounding, one of four is more than a credit. Four
  changes upstream are enough for two bills that overtake each other around a
  probe.
* `credentials`: a third `Auth` is needed when a new login replaces one that a
  request still holds while another import is on its way. `OneHurt` is the bound
  that one login at a time has lost an answer or a save. The `VIEW` drops what is
  in an `Auth` that nobody refers to, which is overwritten before it is read. The
  theorems have none of these bounds.
* `checkin`: two numbers flagged on one day, and a third day that begins after
  both; the `VIEW` drops locals of a process that is not at work.
* `catalog`: tables that differ in a model, a window and a tier, so that the
  intersection loses a model, an account that answers differently in the next
  round, and one whose answer has nothing in common with the other's: such a round
  writes the capabilities and keeps the old list, which no account need serve any
  more, and the three properties of the list say so. With two accounts a delete takes
  the only one with a tier or one of two. A lifetime longer than the negative one.
* `relay`: three events hold a chunk, what changes the state, and what meets the
  changed state. The texts are letters of a small alphabet with common prefixes, the
  tool calls of an event are none, one object or a list. A usage event without
  figures takes back what an earlier one said in the whole answer, while the
  streamed one has sent it; `UsageInTime` says when the two agree on the usage. A long
  line between two short ones shows what the whole answer of the work channel loses.
* Five days with a retention of one give two months, each with a day that is old
  enough, and days that become old while an earlier failure is still open.
  `MaxFaults` 2 allows a failure while another one is being made good. The query is
  of the fourth day, so that its range has archived, recent and future days at one
  time or another.

Deadlock is checked in every run but `checkin`, where time is bounded, and
`relay`, where a request ends.

Fairness: `Spec` of the pool has none. In `ChatRotation` every handler is weakly
fair: the Go runtime schedules it, the locks are held for bounded work, and calls
upstream end (`ResponseHeaderTimeout` before the first byte, the refresh client's
timeout, the client's own departure through `r.Context()`). `StreamEnds` is
strongly fair, because error events may come any number of times but a stream
ends when upstream or the client leaves. Clients, probes and background are not
fair. In `UsageArchive` the archiver is weakly fair: the scheduler starts it every
day, and it does not wait for anything. In `Ledger` the ticker starts the hourly
probe (weak), a stream ends with its bill or without one (weak), the check-in
round goes on (weak), and the probe is strongly fair: a call may fail any number of
times, but not every one does. In `StreamRelay` a write ends (weak); the
goroutine's `select` picks at random among the cases that are ready, and the mutex
starves nobody, so its ping and its stop are strongly fair. Nothing makes upstream
or the client go on. `Credentials`, `Checkin` and `ModelCatalog` have no fairness:
nothing is claimed there about what must happen.

## 4. What is proved

`RotationProofs`, part I, about `Pool` for any accounts, models, requests,
durations, clock and failed saves:

* `TypeCorrect`, `Durability`: `Spec => []TypeOK`, `Spec => []RestartLosesNothing`.
  The inductive invariant `IInv` adds to the two that an absent account has the
  initial entry (so that an import starts from nothing) and that what is on disk is
  well typed. Each method is either a change of one entry with a save, which
  equates the disk to all entries, or a change that no durable field shows.
* `NoLeak`: `Spec => []NoLeakedLease`, by induction over the holders: the
  cardinality of the set of requests that hold an account grows by one with
  `Acquire` and shrinks by one with `Release`, whose guard keeps a re-imported
  account at zero.
* `OnlyCreditsLift`, `StopsAreKept`: the action properties, from `IInv`; only the
  restart needs it, since only there entries come from the disk.

`RotationProofs`, part II, about `ChatRotation` for any number of requests and
accounts, any answers and any `MaxRotate`:

* `RotationImplementsPool`: `SpecC => PoolSpec`. Every step of the handlers is
  one action of `Pool` or leaves its variables alone. The refinement is the
  identity on the pool's variables; what has to be shown is that a handler only
  passes accounts the pool may have, only releases what it holds, and acquires
  only with free hands. That needs the invariant of the locals, `LocalOK`, by
  program point.
* `LeasesExact`: `SpecC => []LeaseExact`, stronger than the pool's own inequality
  because nothing removes accounts here. The inductive invariant `CInv` is the
  types, `LocalOK`, and that a request at `idle` holds nothing.
* `RotationTypeCorrect`, with the bound of both loop indices.
* `RotationKeepsPool`: the pool's guarantees, carried over by the refinement.
* `PressureGoesFirst`: `SpecC => PressureFirst`. The order of the candidates is
  strict and total (`BetterOrders`), so each set of them has a best one
  (`BestIsBest`, by induction over the set); nobody presses the best, and who presses
  anybody makes the best do so too (`BestIsNotPressed`); and of at most five
  candidates none is left out of the five that are compared
  (`PickBestTakesRested`).

`UsageProofs`, for any calendar, retention and number of failures:

* `ArchiveLosesNothing`: `SpecU => []NothingLost`, assuming that scans read the
  whole file (`"scan" \notin Faults`); `usage_loss` shows the assumption is
  needed. The invariant `IInvU` relates memory to disk: the summary in hand is the
  one on disk but for days with their true count, and what waits for removal is
  archived.
* `ArchiveImplementsLog`: `SpecU => LogSpec`, under the same assumption. By `IInvU`
  no step of the archive changes what `Counted` says of a day, and a request adds
  one to its day, which is never archived before it is over.
* `RecentKept`: `SpecU => KeepsRecent` with every fault, from the weaker `AgeInv`:
  the queue and the days in hand are past the retention, and only get older.
* `PanelIsRecent`: `SpecP => []PanelShowsRecent` with every fault, for any question.
  The invariant adds to `AgeInv` that the file of a recent day is complete, and
  that what was read of a day lies between the count at the question and the count
  now; the archiver cannot remove in between what the retention protects.
* `MonthsAreExact`: `SpecU => []MonthlyExact`, under the assumption about scans.
  `IInvU` says what the days of a summary are, `SumsTrue` that its total is their
  sum, in the file and in the one in hand: the archive adds a day to both or, if
  it has it already, to neither.
* `NewestAreShown`: `SpecP => []RingShowsNewest`, for a ring of any size and any
  number of lines. `RingInv` says that the ring has had exactly the lines that were
  read, in their order, and `HoldsLast` that each of the last ones is in the slot of
  its number modulo the size; the remainder of a sum, which the provers know nothing
  of, has lemmas of its own (`RemainderLater`, `TurnBefore`). So what
  `RingAll` reads from the oldest slot on is the end of what was read
  (`EntriesAreNewest`).

`CredentialProofs`, for any goroutines, `Auth`s and logins. The four properties
do not hold by themselves; the inductive invariant `CredInv` says of a login that
is not hurt that at most one `Auth` in use has it, with the token that upstream
accepts; that the file and the `.tmp` hold such a token or are about to be
replaced; which points belong to which job, and who holds the lock at them; and that
the `Auth` of a link that is not exchanged yet is known to its worker only.

* `OverlapsKillNothing`: a refresh that finds its token spent means that this login
  has lost an answer or a save, so no order of refresh, import and delete alone
  disables the account. The account may have another login by then: the pool goes by
  the uid, and the late rejection of an `Auth` that was replaced disables the account
  with its good new login. The theorem is about the login that was rejected.
* `FileStaysGood`: a restart can refresh what is in the file.
* `DeletedStaysDeleted`: without a save during the delete, no file is left behind.
* `SuccessIsStored`: the login page reports a success only of a login that a rename
  has put into the file, or whose temporary file another save wrote over. In the
  second case the login may never have been in the file: two callbacks write, the
  first renames the other's content and reports its own login. `PageOK` says of who is
  about to rename that the temporary file is its own or was written over.
* `CredentialTypes`: the types.

`CheckinProofs`, for any timetable and any interference through `state.json`:

* `SecondTriesAreFresh`: the numbers that a process knows, used or saw refused,
  never exceed the one of its own pool, so the next one is new to it. What the
  other process writes back is only read at a start, which forgets.
* `LeftOutAreClaimed`: a day that counts as done, in memory or in the file, was
  claimed, or is over.
* `OneRoundADay`: by `Timetable`, exactly the check-in hours that have passed have
  had their round, where an hour has passed when the timer is set beyond it or its
  round has begun. It rests on two lemmas: `nextFire` passes over no check-in hour,
  and none comes while a round lasts. The assumption that a round ends before the
  next check-in hour is needed: nothing in `Run` makes up for an hour that struck
  during a round.

`CatalogProofs`, for any clients, goroutines and lifetimes:

* `OneRoundAtATime`: the flag is set exactly while one thread is in its round
  (`LockInv`).
* `RoundsAreSpaced`: `CacheInv` relates the age of the list, and of the failure, to
  when the last round began and ended.
* `ListIsCommon`, `ListIsServable`, `ListedTierHasServer`: the list is the
  intersection of the answers of a round, with the smallest window that any account
  reports; what the pool knows of an account is what it answered in the last round,
  or nothing; and between rounds a listed max tier has an account that may serve it,
  unless every account that could was deleted since. `ListInv`
  follows the round: what the pool knows of the accounts that were asked so far
  (`KnownNow`), and that a published list is the fold of the answers (`ListMade`).
  What that fold is (`IsMeet`), and that a set of windows has a smallest one, is by
  induction over the answers (`FoldFacts`).

`RelayProofs`, for any events and lines:

* `PingsAreApart`: who is inside a write holds `writeMu`, but for the error frame.
* `OnlyHandedBackStaysOpen`: by program point of the call, which bodies are open.
* `PoolHearsAll`: `SpecS => []AccountingAgrees`. `AccountInv` says that the pool has
  heard of the last error and the last balance that were read, whoever left meanwhile
  and however the stream ended. Of a whole answer the handler tells it the last error,
  or the last balance if there is none: a balance that came with an error event or
  before a failed read is dropped.
* `StreamIsWhole`: `SpecS => []StreamAgrees`. `StreamInv` says it of every moment
  and not of the end only: while no write failed, what is written and what is still
  to be written say together what `Aggregate` makes of the events read so far
  (`Told`), but for a usage that waits for a chunk, and from the moment on when a
  DONE is due they have one.
* `TextsReachTheClient`, `WorkIsWhole`: `SpecW => []EveryTextArrives` and
  `SpecW => []WorkAgrees`. `WorkInv` says that a client that stays has got what
  `handleDelta` has heard, reasoning and content together, and without reasoning as
  content (`Quiet`); that this has every text in it, and of texts that each begin with
  the one before only the last (`Repeats`); and that what `AggregateWork` has read of
  the lines, if they are ones that it reads (`AllAlike`), is a beginning of it and,
  while no line was long, all of it (`Follows`).

`LedgerProofs`, for any packs and charges:

* `KeyIsFirstOpen`: only bills and probes touch the packs, and they set the key with
  them.
* `CopyFollowsUpstream`: `SpecL => []FollowsUpstream`. `LedgerInv` says it of every
  answer on its way: a bill tells of its version, and of less than the bill before;
  packs that a round has read are those of their version; and the copy's total is
  not below what the next bill will say (`NotBelow`), because the probe cuts off
  fractions of what is used, pack by pack, and the bill rounds only the sum. So a bill
  in its turn takes and never gives, and `ApplyUsageRemain`, which can only take,
  reaches its total.

`FoldFacts`, for any operation, choice and values. The models sum over sets and go
through sequences with the folds of the community modules, which are all
`MapThenFoldSet`, a function that is chosen. What a fold computes is an induction
over data, which the library has only as theorems about predicates that the
provers cannot instantiate. The module does without: of a finite set of counterexamples
that is not empty there is a smallest (`Smallest`, from the
well-foundedness of the strict subset order), so a set of subsets that has the empty one and grows
with each element has all (`Growing`, `GrowingSeq`). From it follow that the
function exists (`FoldExists`) and is the only one (`OneFold`), so that a fold takes the chosen element last
(`FoldLast`), for a sequence its end (`FoldAppend`, `FoldOne`), and for operations whose
order does not matter any element (`FoldAny`).

Model-checked only: liveness (`EveryRequestEnds`, `OldDaysArchived`,
`EventuallyExact`, `PingsEnd`), which is beyond the prover. Every invariant and every
action property of a passing run, and both refinements, are theorems. The fairness
of the specifications is not used by any of them.

Assumptions on the constants are named and stated in the modules that declare
them: durations and the threshold are positive (`NewHandler` replaces others by
the defaults), uids are ordered and finitely many, `MaxRotate` is positive, the empty uid is no
account, hours are hours of the day and a round of the scheduler ends before the
next check-in hour, lifetimes are positive.

## 5. What is not modelled

Left out on purpose: wire formats, headers and payloads; the text matching of
`Classify`, which appears by its kinds; the console's views, but for the usage
panel; log lines and in-flight counters; configuration parsing; the hash that
derives a device number from a generation; the command-line probes (`cmd/credit`,
`cmd/verify_work_credits`), which read and print; the capture scripts under
`frida/`.

The check-in command refreshes credentials too, as a second process on the auth
files (`cmd/checkin/main.go:203`). `Credentials` has one process: between two, the
locks of an `Auth` do not hold, and the code accepts the race in a comment. In
`Checkin` the two processes share `state.json` only.

The fractions of a bill are modelled as whole numbers of `Unit`; the code rounds a
float, and what its last bit may do is not modelled.

### What the models show besides

Places where the code does something else than its documents or comments say, or
than a reader may expect. Each is a behaviour of the models; the properties
above are stated so that they hold with it.

* An account with money may be cooled down for a 1005 when its balance arrives
  between the check and the cooldown (handler.go:1071, 1078).
* When the last iteration exhausts the max candidates, the request is not tried on
  dev any more (README.md:196).
* Streams that break after their header do not add up to the error cooldown: the
  success noted at the next header resets the count (handler.go:1135, 1241).
* A plan cooldown, which docs/RESEARCH.md:121 calls long, is shortened to 60 s by
  a 429 of a request that was already on its way (pool.go:1047).
* A generation goes back when the other process saves its own copy (pool.go:1262),
  so a flagged number may be used again on another day.
* The instant of the back-off is saved and read by nobody (pool.go:1326).
* During a round an explicit max request may be downgraded, because `SetModels` and
  `SetMaxModels` are two sections (handler.go:929, against 287-294).
* At a cold start a second request gets the static table while the first is
  still asking (handler.go:499, 544).
* A delete that meets a save leaves an auth file without an account
  (accounts.go:290), which the next start brings back.
* A day file whose removal failed stays beside its summary, and later runs skip it
  (usage.go:615).
* A tool call that is an object and not an array is kept in a whole answer and
  dropped from a streamed one (solosse.go:481).
* A whole answer that fails, by an error event or a read that fails, drops the balance
  that came with it, although the whole answer is to bring it along too (handler.go:1209,
  solosse.go:190); the streamed one passes it on at once.
* The work relay drops a text that is contained in an earlier one, a piece that only
  repeats something as well as content that came as reasoning before
  (work_client.go:499), and its whole answer reads no `event` lines, no reasoning and
  no errors, which the streamed one does.
* A whole answer of the work channel ends at the first line of 64 KB, and nothing says
  so (work_client.go:753): the error of the `Scanner` is not read.
* A login may be reported as stored (login.go:28) that was never in the file, when two
  saves of the account meet in the one temporary file (auth.go:217).
* The rejection of a login that was replaced disables the account although its new
  login is good (client.go:228, pool.go:1055).
* After the last account with a max tier was deleted, the catalog lists the tier until
  it is stale, and a request that names it is served as dev (handler.go:929).
* A native answer with a status of 400 and more is handed back with its body open
  (work_client.go:450).
* The error frame is written without `writeMu` (solosse.go:524) and may meet a ping.

### What could come next

* The command as a second process on the auth files, with what an exchange by one
  does to the other.
* Two requests with two models in `ChatRotation`, where blocks of a model matter.
* The order of records of two requests around midnight (usage.go:127), which needs
  the lines of a file and not only their number.

The hazards in `PROJECT.json` list, for each place where the code could go wrong
in a way a test would hardly reach, the property that watches it, or why none
does.
