-------------------------------- MODULE Checkin --------------------------------
(***************************************************************************)
(* The daily check-in of one account by two processes: the server's        *)
(* scheduler (internal/scheduler) and the check-in command (cmd/checkin).  *)
(* Each has its own Pool; both load the same state.json at their start and *)
(* write all of it at every save.  What is at stake is the generation of   *)
(* the device number: upstream flags a number and answers 9074 to it from  *)
(* then on, and the next generation gives a new one.                       *)
(*                                                                         *)
(* Time passes in hours of a day of DayLength hours.  A step is one call   *)
(* upstream or one critical section of a pool.                             *)
(***************************************************************************)
EXTENDS Integers, FiniteSetsExt

CONSTANTS
  DayLength,
  RefreshHours, CheckinHour,
  RoundHours,   \* the hours a round of the scheduler may take
  Accounts,     \* calls the other accounts of a pool make it save (0: none)
  MaxHour, MaxGen  \* bounds

Hours == RefreshHours \cup {CheckinHour}

\* A refresh round ends before the check-in hour.
ASSUME CheckinAssumption ==
  /\ DayLength \in Nat \ {0} /\ Hours \subseteq 0..(DayLength - 1)
  /\ RoundHours \in Nat
  /\ \A h \in RefreshHours :
       /\ h < CheckinHour => h + RoundHours < CheckinHour
       /\ h > CheckinHour => h + RoundHours < DayLength + CheckinHour
  /\ RoundHours < DayLength
  /\ Accounts \in {0, 1} /\ {MaxHour, MaxGen} \subseteq Nat

Processes == {"server", "command"}

VARIABLES
  now,
  next,     \* the scheduler's timer
  since,    \* when its round began
  disk,     \* state.json: the account's generation
  mem,      \* the same in the pool of each process
  pc,       \* what each process is doing
  gen,      \* the generation the check-in uses, and whether it is the second try
  second,
  err,      \* whether the check-in of the command failed
  today,    \* the command: the day it was started
  acct,     \* the command: the day of the last claim in checkin-state.json
  csDisk,   \* that file
  claimed,  \* upstream: the days the account was checked in
  flagged,  \* upstream: the generations it flagged
  refused,  \* history: the generations refused to each process since its start
  started   \* history: how many check-in rounds the scheduler began each day

timer == <<now, next, since>>
pools == <<disk, mem>>
calls == <<gen, second, err>>
command == <<today, acct, csDisk>>
outside == <<claimed, flagged>>
hist == <<refused, started>>
kvars == <<timer, pools, pc, calls, command, outside, hist>>

Day(t) == t \div DayLength
Midnight(t) == Day(t) * DayLength
Never == 0 - 1

\* Mutant of NextFire: the hour that just struck is not past.
NextFireAgain(t) ==
  Min({Midnight(t) + (IF t % DayLength <= h THEN h ELSE h + DayLength) : h \in Hours})

\* nextFire: the first of the hours after t.
NextFire(t) ==
  Min({Midnight(t) + (IF t % DayLength < h THEN h ELSE h + DayLength) : h \in Hours})

InitI ==
  /\ now = 0 /\ next = NextFire(0) /\ since = 0
  /\ disk = 0 /\ mem = [p \in Processes |-> disk]
  /\ pc = [p \in Processes |-> IF p = "server" THEN "sleep" ELSE "off"]
  /\ gen = [p \in Processes |-> 0] /\ second = [p \in Processes |-> FALSE]
  /\ err = [p \in Processes |-> FALSE]
  /\ today = 0 /\ acct = Never /\ csDisk = Never
  /\ claimed = {} /\ flagged = {}
  /\ refused = [p \in Processes |-> {}]
  /\ started = [d \in 0..Day(MaxHour) |-> 0]

Goto(p, point) == pc' = [pc EXCEPT ![p] = point]

\* A method of the pool changes the account and saves.
Saved(p, g) == mem' = [mem EXCEPT ![p] = g] /\ disk' = g

-----------------------------------------------------------------------------
(* The scheduler's loop *)

Busy == pc["server"] # "sleep"

\* The timer goes off in time, and a round is over within RoundHours.
Tick ==
  /\ now < MaxHour /\ now' = now + 1
  /\ IF Busy THEN now - since < RoundHours ELSE now < next
  /\ UNCHANGED <<next, since, pools, pc, calls, command, outside, hist>>

Wake ==
  /\ pc["server"] = "sleep" /\ now = next
  /\ since' = now
  /\ Goto("server", "refresh")
  /\ UNCHANGED <<now, next, pools, calls, command, outside, hist>>

\* The hour was read when the timer went off.
Sleep == next' = NextFire(now) /\ Goto("server", "sleep")

\* RunRefreshNow is over, if it was its hour; then RunCheckinNow.
AfterRefresh ==
  /\ pc["server"] = "refresh"
  /\ IF since % DayLength = CheckinHour
       THEN /\ Goto("server", "scheduled") /\ UNCHANGED next
            /\ started' = [started EXCEPT ![Day(since)] = @ + 1]
       ELSE Sleep /\ UNCHANGED started
  /\ UNCHANGED <<now, since, pools, calls, command, outside, refused>>

-----------------------------------------------------------------------------
(* checkinOne of the scheduler, checkinOnce of the command: the same steps *)

Over(p) ==
  IF p = "server" THEN Sleep ELSE Goto(p, "record") /\ UNCHANGED next

Generation(p) ==
  /\ pc[p] = "scheduled" /\ Goto(p, "status")
  /\ gen' = [gen EXCEPT ![p] = mem[p]]
  /\ second' = [second EXCEPT ![p] = FALSE]
  /\ err' = [err EXCEPT ![p] = FALSE]
  /\ UNCHANGED <<timer, pools, command, outside, hist>>

\* The first try gives up on any error but 9074; the second backs off on any.
Fails(p) ==
  /\ err' = [err EXCEPT ![p] = TRUE]
  /\ IF second[p] THEN Goto(p, "limited") /\ UNCHANGED next ELSE Over(p)
  /\ UNCHANGED <<gen, second>>

\* CheckinStatus: it fails or check-in is disabled, it is done today, or not yet.
Status(p) ==
  /\ pc[p] = "status"
  /\ \/ Fails(p)
     \/ /\ Goto(p, IF Day(now) \in claimed THEN "checked" ELSE "claim")
        /\ UNCHANGED <<next, calls>>
  /\ UNCHANGED <<now, since, pools, command, outside, hist>>

\* CheckinClaim succeeds once a day.
Claim(p) ==
  /\ pc[p] = "claim" /\ gen[p] \notin flagged
  /\ \/ /\ Day(now) \notin claimed /\ claimed' = claimed \cup {Day(now)}
        /\ Goto(p, "checked") /\ UNCHANGED <<next, calls>>
     \/ Fails(p) /\ UNCHANGED claimed
  /\ UNCHANGED <<now, since, pools, command, flagged, hist>>

\* 9074: upstream flagged the number, now or earlier.
ClaimRefused(p) ==
  /\ pc[p] = "claim" /\ flagged' = flagged \cup {gen[p]}
  /\ refused' = [refused EXCEPT ![p] = @ \cup {gen[p]}]
  /\ IF second[p] THEN Fails(p)
     ELSE /\ mem[p] < MaxGen
          /\ Goto(p, "bump") /\ UNCHANGED <<next, calls>>
  /\ UNCHANGED <<now, since, pools, command, claimed, started>>

\* Mutant of Bump: the second try goes out with the number of the first.
BumpLate(p) ==
  /\ pc[p] = "bump" /\ Goto(p, "status")
  /\ Saved(p, mem[p] + 1)
  /\ second' = [second EXCEPT ![p] = TRUE]
  /\ UNCHANGED <<timer, gen, err, command, outside, hist>>

\* BumpCheckinGeneration, and the second try.
Bump(p) ==
  /\ pc[p] = "bump" /\ Goto(p, "status")
  /\ Saved(p, mem[p] + 1)
  /\ gen' = [gen EXCEPT ![p] = mem[p] + 1]
  /\ second' = [second EXCEPT ![p] = TRUE]
  /\ UNCHANGED <<timer, err, command, outside, hist>>

\* NoteCheckinRateLimited: the count and the instant of the back-off, which are
\* saved but which nothing reads (the instant it returns is only logged).
RateLimited(p) ==
  /\ pc[p] = "limited" /\ Saved(p, mem[p])
  /\ Over(p)
  /\ UNCHANGED <<now, since, calls, command, outside, hist>>

\* NoteCheckinChecked clears the back-off and keeps the generation.
Checked(p) ==
  /\ pc[p] = "checked"
  /\ Saved(p, mem[p])
  /\ Over(p)
  /\ UNCHANGED <<now, since, calls, command, outside, hist>>

-----------------------------------------------------------------------------
(* The command *)

\* It loads state.json and checkin-state.json; an account that was checked in
\* today is left out.  The stagger, and the cooldown after failures (30 minutes
\* to two hours), only delay the rest.
CommandStart ==
  /\ pc["command"] = "off"
  /\ mem' = [mem EXCEPT !["command"] = disk]
  /\ refused' = [refused EXCEPT !["command"] = {}]
  /\ today' = Day(now) /\ acct' = csDisk
  /\ csDisk # Day(now) /\ Goto("command", "scheduled")
  /\ UNCHANGED <<timer, disk, calls, csDisk, outside, started>>

\* Mutant of Record: the day is recorded whatever came out.
RecordAnyway ==
  /\ pc["command"] = "record"
  /\ acct' = today /\ csDisk' = acct'
  /\ Goto("command", "off")
  /\ UNCHANGED <<timer, pools, calls, today, outside, hist>>

\* The usage query that follows may fail too, and counts as a failure.  The day
\* recorded is that of the start.  The file is written at the end only.
Record ==
  /\ pc["command"] = "record"
  /\ \E usageFails \in BOOLEAN :
       acct' = IF err["command"] \/ usageFails THEN acct ELSE today
  /\ csDisk' = acct' /\ Goto("command", "off")
  /\ UNCHANGED <<timer, pools, calls, today, outside, hist>>

\* The command is killed: checkin-state.json stays as it was.
CommandKilled ==
  /\ pc["command"] # "off" /\ Goto("command", "off")
  /\ UNCHANGED <<timer, pools, calls, command, outside, hist>>

\* A save of a pool for another account, with all it has of this one.
OtherSave(p) ==
  /\ Accounts = 1 /\ pc[p] # "off"
  /\ disk' = mem[p]
  /\ UNCHANGED <<timer, mem, pc, calls, command, outside, hist>>

-----------------------------------------------------------------------------
Step(p) ==
  \/ Generation(p) \/ Status(p) \/ Claim(p) \/ ClaimRefused(p) \/ Bump(p)
  \/ RateLimited(p) \/ Checked(p) \/ OtherSave(p)

NextI ==
  \/ Tick \/ Wake \/ AfterRefresh \/ CommandStart \/ Record \/ CommandKilled
  \/ \E p \in Processes : Step(p)

SpecI == InitI /\ [][NextI]_kvars

-----------------------------------------------------------------------------
(* Properties *)

\* The check-in hour of day d.
Due(d) == d * DayLength + CheckinHour

\* The scheduler holds its check-in round once each day after its start, neither
\* twice in its hour nor never, if no round lasts into the next check-in hour (Run).
RoundOnceADay ==
  /\ \A d \in 0..Day(now) : started[d] <= 1
  /\ \A d \in 0..(Day(now) - 1) :
       Due(d) > 0 => (pc["server"] = "refresh" /\ Day(since) = d) \/ started[d] = 1

\* The second try heals: it goes out with a number that was never refused to
\* this process ("rotate the device and try again at once", scheduler.go:119).
SecondTryIsFresh ==
  \A p \in Processes :
    second[p] /\ pc[p] \in {"status", "claim"} /\ pc[p] # "off"
      => gen[p] \notin refused[p]

\* The command leaves an account out only if it was checked in today, although
\* it may run past midnight and be killed before it writes its file.
LeftOutOnlyIfClaimed == csDisk = Day(now) => Day(now) \in claimed
=============================================================================
