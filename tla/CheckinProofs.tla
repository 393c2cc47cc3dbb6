---------------------------- MODULE CheckinProofs ----------------------------
(***************************************************************************)
(* The check-in of Checkin for any timetable, and however often the two    *)
(* processes overwrite each other's state.json.                            *)
(***************************************************************************)
EXTENDS Checkin, WellFoundedInduction, TLAPS

DaysPass == now \in Nat /\ claimed \subseteq Int /\ \A d \in claimed : d <= Day(now)

\* A day that counts as done was claimed, or is over.
DoneBy(d) == d \in claimed \/ d < Day(now)

CommandOK ==
  /\ {today, acct, csDisk} \subseteq Int /\ today <= Day(now)
  /\ pc["command"] = "limited" => err["command"]
  /\ pc["command"] = "checked" \/ (pc["command"] = "record" /\ ~err["command"])
       => DoneBy(today)
  /\ DoneBy(acct) /\ DoneBy(csDisk)

\* Of the numbers that a process knows, the pool's is the last.
GenerationOK ==
  /\ mem \in [Processes -> Nat] /\ gen \in [Processes -> Nat]
  /\ second \in [Processes -> BOOLEAN] /\ refused \in [Processes -> SUBSET Nat]
  /\ disk \in Nat
  /\ \A p \in Processes :
       /\ \A g \in refused[p] : g <= mem[p]
       /\ pc[p] \in {"status", "claim"} => gen[p] <= mem[p]
       /\ second[p] /\ pc[p] \in {"status", "claim"} => gen[p] \notin refused[p]

Typed ==
  /\ pc \in [Processes -> {"sleep", "refresh", "off", "scheduled", "status", "claim",
     "bump",
                           "limited", "checked", "record"}]
  /\ err \in [Processes -> BOOLEAN]

LEMMA DayGrows == ASSUME NEW t \in Nat PROVE Day(t) \in Int /\ Day(t) <= Day(t + 1)
<1>1. DayLength \in Nat \ {0}
  BY CheckinAssumption
<1> QED BY <1>1, SMTT(30) DEF Day

LEMMA TypedStep ==
  ASSUME Typed, [NextI]_kvars PROVE Typed'
<1> USE DEF Typed, Processes, Goto, timer, pools, calls, command, outside, hist
<1>1. CASE Tick
  BY <1>1 DEF Tick
<1>2. CASE Wake
  BY <1>2 DEF Wake
<1>3. CASE AfterRefresh
  BY <1>3 DEF AfterRefresh, Sleep
<1>4. CASE CommandStart
  BY <1>4 DEF CommandStart
<1>5. CASE Record
  BY <1>5 DEF Record
<1>6. CASE CommandKilled
  BY <1>6 DEF CommandKilled
<1>7. ASSUME NEW p \in Processes, Generation(p) PROVE Typed'
  BY <1>7 DEF Generation
<1>8. ASSUME NEW p \in Processes, Status(p) PROVE Typed'
  <2>1. CASE Fails(p)
    BY <2>1, <1>8 DEF Status, Fails, Over, Sleep
  <2>2. CASE ~Fails(p)
    BY <1>8, <2>2 DEF Status
  <2> QED
    BY <2>1, <2>2
<1>9. ASSUME NEW p \in Processes, Claim(p) PROVE Typed'
  <2>1. CASE Fails(p)
    BY <2>1 DEF Fails, Over, Sleep
  <2>2. CASE ~Fails(p)
    BY <1>9, <2>2 DEF Claim
  <2> QED
    BY <2>1, <2>2
<1>10. ASSUME NEW p \in Processes, ClaimRefused(p) PROVE Typed'
  BY <1>10, ZenonT(20) DEF ClaimRefused, Fails, Over, Sleep
<1>11. ASSUME NEW p \in Processes, Bump(p) PROVE Typed'
  BY <1>11 DEF Bump, Saved
<1>12. ASSUME NEW p \in Processes, RateLimited(p) PROVE Typed'
  BY <1>12 DEF RateLimited, Saved, Over, Sleep
<1>13. ASSUME NEW p \in Processes, Checked(p) PROVE Typed'
  BY <1>13 DEF Checked, Saved, Over, Sleep
<1>14. ASSUME NEW p \in Processes, OtherSave(p) PROVE Typed'
  BY <1>14 DEF OtherSave
<1>15. CASE UNCHANGED kvars
  BY <1>15 DEF kvars
<1> QED
  BY <1>1, <1>2, <1>3, <1>4, <1>5, <1>6, <1>7, <1>8, <1>9, <1>10, <1>11, <1>12, <1>13,
     <1>14, <1>15 DEF NextI, Step

\* Claims are made on the day of the call, which is not before that of the start.
LEMMA CommandStep ==
  ASSUME Typed, DaysPass, CommandOK, [NextI]_kvars PROVE DaysPass' /\ CommandOK'
<1>0. Day(now) \in Int /\ Day(now + 1) \in Int /\ Day(now) <= Day(now + 1)
  BY DayGrows DEF DaysPass
<1> USE <1>0 DEF Typed, DaysPass, CommandOK, DoneBy, Processes, Goto, Never, timer, pools,
   calls, command, outside, hist
<1>1. CASE Tick
  <2>1. now' = now + 1 /\ Day(now)' = Day(now + 1)
    BY <1>1 DEF Tick
  <2>2. UNCHANGED <<pc, err, today, acct, csDisk, claimed>>
    BY <1>1 DEF Tick
  <2>3. now' \in Nat
    BY <2>1
  <2>4. Day(now)' \in Int /\ Day(now) <= Day(now)'
    BY <2>1
  <2>5. DaysPass'
    BY <2>2, <2>3, <2>4
  <2>6. \A d \in Int : DoneBy(d) => DoneBy(d)'
    BY <2>2, <2>4
  <2>7. CommandOK'
    BY <2>2, <2>4, <2>6
  <2> QED
    BY <2>5, <2>7
<1>2. CASE Wake
  BY <1>2 DEF Wake
<1>3. CASE AfterRefresh
  BY <1>3 DEF AfterRefresh, Sleep
<1>4. CASE CommandStart
  BY <1>4 DEF CommandStart
<1>5. CASE Record
  BY <1>5 DEF Record
<1>6. CASE CommandKilled
  BY <1>6 DEF CommandKilled
<1>7. ASSUME NEW p \in Processes, Generation(p) PROVE DaysPass' /\ CommandOK'
  BY <1>7 DEF Generation
<1>8. ASSUME NEW p \in Processes, Status(p) PROVE DaysPass' /\ CommandOK'
  BY <1>8 DEF Status, Fails, Over, Sleep
<1>9. ASSUME NEW p \in Processes, Claim(p) PROVE DaysPass' /\ CommandOK'
  <2>1. /\ Day(now)' = Day(now) /\ now' = now
        /\ claimed' = claimed \/ claimed' = claimed \cup {Day(now)}
    BY <1>9 DEF Claim
  <2>2. UNCHANGED <<today, acct, csDisk>>
    BY <1>9 DEF Claim
  <2>3. DaysPass'
    <3>1. \A d \in claimed' : d \in Int /\ d <= Day(now)
      <4>1. CASE claimed' = claimed
        BY <4>1
      <4>2. CASE claimed' = claimed \cup {Day(now)}
        BY <4>2
      <4> QED
        BY <2>1, <4>1, <4>2
    <3> QED
      BY <2>1, <3>1
  <2>4. pc'[p] = "checked" \/ claimed' = claimed
    BY <1>9 DEF Claim
  <2>5. CommandOK'
    BY <1>9, <2>1, <2>2, <2>4 DEF Claim, Fails, Over, Sleep
  <2> QED
    BY <2>3, <2>5
<1>10. ASSUME NEW p \in Processes, ClaimRefused(p) PROVE DaysPass' /\ CommandOK'
  BY <1>10 DEF ClaimRefused, Fails, Over, Sleep
<1>11. ASSUME NEW p \in Processes, Bump(p) PROVE DaysPass' /\ CommandOK'
  BY <1>11 DEF Bump, Saved
<1>12. ASSUME NEW p \in Processes, RateLimited(p) PROVE DaysPass' /\ CommandOK'
  BY <1>12 DEF RateLimited, Saved, Over, Sleep
<1>13. ASSUME NEW p \in Processes, Checked(p) PROVE DaysPass' /\ CommandOK'
  BY <1>13 DEF Checked, Saved, Over, Sleep
<1>14. ASSUME NEW p \in Processes, OtherSave(p) PROVE DaysPass' /\ CommandOK'
  BY <1>14 DEF OtherSave
<1>15. CASE UNCHANGED kvars
  BY <1>15 DEF kvars
<1> QED
  BY <1>1, <1>2, <1>3, <1>4, <1>5, <1>6, <1>7, <1>8, <1>9, <1>10, <1>11, <1>12, <1>13,
     <1>14, <1>15 DEF NextI, Step

\* Only the process itself moves its number, and only forward.
LEMMA GenerationStep ==
  ASSUME Typed, GenerationOK, [NextI]_kvars PROVE GenerationOK'
<1> USE
   DEF Typed, GenerationOK, Processes, Goto, timer, pools, calls, command, outside, hist
<1>1. CASE Tick
  BY <1>1 DEF Tick
<1>2. CASE Wake
  BY <1>2 DEF Wake
<1>3. CASE AfterRefresh
  BY <1>3 DEF AfterRefresh, Sleep
<1>4. CASE CommandStart
  BY <1>4 DEF CommandStart
<1>5. CASE Record
  BY <1>5 DEF Record
<1>6. CASE CommandKilled
  BY <1>6 DEF CommandKilled
<1>7. ASSUME NEW p \in Processes, Generation(p) PROVE GenerationOK'
  BY <1>7 DEF Generation
<1>8. ASSUME NEW p \in Processes, Status(p) PROVE GenerationOK'
  BY <1>8 DEF Status, Fails, Over, Sleep
<1>9. ASSUME NEW p \in Processes, Claim(p) PROVE GenerationOK'
  BY <1>9 DEF Claim, Fails, Over, Sleep
<1>10. ASSUME NEW p \in Processes, ClaimRefused(p) PROVE GenerationOK'
  BY <1>10 DEF ClaimRefused, Fails, Over, Sleep
<1>11. ASSUME NEW p \in Processes, Bump(p) PROVE GenerationOK'
  BY <1>11 DEF Bump, Saved
<1>12. ASSUME NEW p \in Processes, RateLimited(p) PROVE GenerationOK'
  BY <1>12 DEF RateLimited, Saved, Over, Sleep
<1>13. ASSUME NEW p \in Processes, Checked(p) PROVE GenerationOK'
  BY <1>13 DEF Checked, Saved, Over, Sleep
<1>14. ASSUME NEW p \in Processes, OtherSave(p) PROVE GenerationOK'
  BY <1>14 DEF OtherSave
<1>15. CASE UNCHANGED kvars
  BY <1>15 DEF kvars
<1> QED
  BY <1>1, <1>2, <1>3, <1>4, <1>5, <1>6, <1>7, <1>8, <1>9, <1>10, <1>11, <1>12, <1>13,
     <1>14, <1>15 DEF NextI, Step

CheckinInv == Typed /\ DaysPass /\ CommandOK /\ GenerationOK

LEMMA CheckinInvariant == SpecI => []CheckinInv
<1>1. InitI => CheckinInv
  <2>1. Day(0) \in Int /\ 0 <= Day(0)
    BY CheckinAssumption DEF Day
  <2> QED
    BY <2>1 DEF InitI, CheckinInv, Typed, DaysPass, CommandOK, GenerationOK, DoneBy,
       Processes, Never
<1>2. CheckinInv /\ [NextI]_kvars => CheckinInv'
  BY TypedStep, CommandStep, GenerationStep DEF CheckinInv
<1> QED BY <1>1, <1>2, PTL DEF SpecI

\* The second try of either process is never with a number that was refused to it.
THEOREM SecondTriesAreFresh == SpecI => []SecondTryIsFresh
<1>1. CheckinInv => SecondTryIsFresh
  BY DEF CheckinInv, GenerationOK, SecondTryIsFresh
<1> QED BY <1>1, CheckinInvariant, PTL

\* Whenever the command is started, killed or late, it leaves an account out only
\* on a day on which it was checked in.
THEOREM LeftOutAreClaimed == SpecI => []LeftOutOnlyIfClaimed
<1>1. CheckinInv => LeftOutOnlyIfClaimed
  BY DayGrows DEF CheckinInv, DaysPass, CommandOK, DoneBy, LeftOutOnlyIfClaimed
<1> QED BY <1>1, CheckinInvariant, PTL

-----------------------------------------------------------------------------
(* One round a day: some arithmetic of days and hours, and the timetable. *)

\* Two days less than a day apart are one.
LEMMA FewerThanALength ==
  ASSUME NEW k \in Int, NEW len \in Nat \ {0}, 0 - len < k * len, k * len < len
  PROVE  k = 0
<1>1. k >= 1 => k * len >= len
  BY SMTT(30)
<1>2. k <= 0 - 1 => k * len <= 0 - len
  BY SMTT(30)
<1> QED
  BY <1>1, <1>2

\* An instant is a day and an hour of it, and the other way round.
LEMMA DayAndHour ==
  ASSUME NEW t \in Nat
  PROVE  /\ Day(t) \in Nat /\ t % DayLength \in 0..(DayLength - 1)
         /\ t = Day(t) * DayLength + (t % DayLength)
<1>1. DayLength \in Nat \ {0}
  BY CheckinAssumption
<1> QED
  BY <1>1, SMTT(30) DEF Day

LEMMA HourOf ==
  ASSUME NEW d \in Nat, NEW h \in 0..(DayLength - 1)
  PROVE  /\ d * DayLength + h \in Nat
         /\ Day(d * DayLength + h) = d /\ (d * DayLength + h) % DayLength = h
<1> DEFINE t == d * DayLength + h
           q == Day(t)
<1>1. DayLength \in Nat \ {0}
  BY CheckinAssumption
<1>2. t \in Nat
  BY <1>1
<1>3. /\ q \in Nat /\ t % DayLength \in 0..(DayLength - 1)
      /\ t = q * DayLength + (t % DayLength)
  BY <1>2, DayAndHour
<1> HIDE DEF q
<1>4. (d - q) * DayLength = (t % DayLength) - h
  BY <1>1, <1>3, SMTT(30)
<1>5. d - q = 0
  BY <1>1, <1>3, <1>4, FewerThanALength
<1> QED
  BY <1>1, <1>2, <1>3, <1>5 DEF q

\* What Min chooses from a set of numbers.
LEMMA LeastExists ==
  ASSUME NEW S \in SUBSET Nat, S # {}
  PROVE  Min(S) \in S /\ \A x \in S : Min(S) <= x
<1>1. PICK x \in S : \A y \in S : ~(<<y, x>> \in {ss \in Nat \X Nat : ss[1] < ss[2]})
  BY NatLessThanWellFounded, WFMin DEF OpToRel
<1>2. ASSUME NEW y \in S PROVE x <= y
  <2>1. x \in Nat /\ y \in Nat /\ <<y, x>> \in Nat \X Nat
    OBVIOUS
  <2>2. ~(<<y, x>>[1] < <<y, x>>[2])
    BY <1>1, <2>1
  <2> QED
    BY <2>1, <2>2
<1> QED
  BY <1>2 DEF Min

\* The timer is set to the next hour of the timetable, and no check-in is passed over.
LEMMA FiresNext ==
  ASSUME NEW t \in Nat
  PROVE  /\ NextFire(t) \in Nat /\ t < NextFire(t) /\ NextFire(t) % DayLength \in Hours
         /\ \A d \in Nat : t < Due(d) => NextFire(t) <= Due(d)
<1> DEFINE q == Day(t)
           r == t % DayLength
           f(h) == Midnight(t) + (IF r < h THEN h ELSE h + DayLength)
<1>1. /\ DayLength \in Nat \ {0} /\ CheckinHour \in Hours
      /\ \A h \in Hours : h \in 0..(DayLength - 1)
  BY CheckinAssumption DEF Hours
<1>2. /\ q \in Nat /\ r \in 0..(DayLength - 1) /\ t = q * DayLength + r
      /\ q * DayLength \in Nat /\ (q + 1) * DayLength = q * DayLength + DayLength
  <2>1. q \in Nat /\ r \in 0..(DayLength - 1) /\ t = q * DayLength + r
    BY DayAndHour
  <2> HIDE DEF q, r
  <2> QED
    BY <1>1, <2>1, SMTT(30)
<1>3. ASSUME NEW h \in Hours
      PROVE  f(h) \in Nat /\ t < f(h) /\ f(h) % DayLength = h
  <2>1. f(h) = q * DayLength + (IF r < h THEN h ELSE h + DayLength)
    BY DEF Midnight
  <2>2. h \in 0..(DayLength - 1)
    BY <1>1
  <2> HIDE DEF q, r, f
  <2>3. CASE r < h
    <3>1. f(h) = q * DayLength + h
      BY <2>1, <2>3
    <3>2. f(h) \in Nat /\ f(h) % DayLength = h
      BY <1>2, <2>2, <3>1, HourOf
    <3> QED
      BY <1>1, <1>2, <2>2, <2>3, <3>1, <3>2
  <2>4. CASE ~(r < h)
    <3>1. f(h) = (q + 1) * DayLength + h
      BY <1>1, <1>2, <2>1, <2>2, <2>4
    <3>2. f(h) \in Nat /\ f(h) % DayLength = h
      BY <1>2, <2>2, <3>1, HourOf
    <3> QED
      BY <1>1, <1>2, <2>2, <3>1, <3>2
  <2> QED
    BY <2>3, <2>4
<1>4. NextFire(t) \in {f(h) : h \in Hours} /\ \A h \in Hours : NextFire(t) <= f(h)
  <2>1. {f(h) : h \in Hours} \in SUBSET Nat /\ {f(h) : h \in Hours} # {}
    BY <1>1, <1>3
  <2>2. NextFire(t) = Min({f(h) : h \in Hours})
    BY DEF NextFire
  <2> HIDE DEF f
  <2> QED
    BY <2>1, <2>2, LeastExists
<1>5. ASSUME NEW d \in Nat, t < Due(d) PROVE f(CheckinHour) <= Due(d)
  <2> HIDE DEF q, r
  <2>1. f(CheckinHour) = IF r < CheckinHour THEN q * DayLength + CheckinHour
                         ELSE (q + 1) * DayLength + CheckinHour
    BY <1>1, <1>2 DEF Midnight, q
  <2>2. Due(d) = d * DayLength + CheckinHour
    BY DEF Due
  <2>3. CASE d >= q + 1
    <3>1. d * DayLength >= (q + 1) * DayLength
      BY <1>1, <1>2, <2>3, SMTT(30)
    <3> QED
      BY <1>1, <1>2, <2>1, <2>2, <3>1
  <2>4. CASE d = q
    BY <1>1, <1>2, <1>5, <2>1, <2>2, <2>4
  <2>5. CASE d + 1 <= q
    <3>1. /\ (d + 1) * DayLength <= q * DayLength
          /\ (d + 1) * DayLength = d * DayLength + DayLength
      BY <1>1, <1>2, <2>5, SMTT(30)
    <3> QED
      BY <1>1, <1>2, <1>5, <2>2, <3>1
  <2> QED
    BY <1>2, <2>3, <2>4, <2>5
<1> HIDE DEF f
<1> QED
  <2>1. PICK h \in Hours : NextFire(t) = f(h)
    BY <1>4
  <2>2. ASSUME NEW d \in Nat, t < Due(d) PROVE NextFire(t) <= Due(d)
    <3>1. f(CheckinHour) <= Due(d)
      BY <1>5, <2>2
    <3>2. f(CheckinHour) \in Nat /\ Due(d) \in Nat
      BY <1>1, <1>3 DEF Due
    <3>3. NextFire(t) <= f(CheckinHour)
      BY <1>1, <1>4
    <3>4. NextFire(t) \in Nat
      BY <1>3, <2>1
    <3> QED
      BY <3>1, <3>2, <3>3, <3>4
  <2> QED
    BY <1>3, <2>1, <2>2

\* From an hour of the timetable on, no check-in is due while the round lasts, unless
\* it is that hour's.
LEMMA NoneWhileBusy ==
  ASSUME NEW t \in Nat, t % DayLength \in Hours, NEW u \in Nat, u - t <= RoundHours,
         NEW d \in Nat, t <= Due(d), Due(d) <= u
  PROVE  Due(d) = t /\ Day(t) = d /\ t % DayLength = CheckinHour
<1> DEFINE q == Day(t)
           r == t % DayLength
<1>1. /\ DayLength \in Nat \ {0} /\ RoundHours \in Nat /\ RoundHours < DayLength
      /\ CheckinHour \in 0..(DayLength - 1)
      /\ r # CheckinHour => r \in RefreshHours
  BY CheckinAssumption DEF Hours
<1>2. /\ q \in Nat /\ r \in 0..(DayLength - 1) /\ t = q * DayLength + r
  BY DayAndHour
<1>3. /\ r < CheckinHour => r + RoundHours < CheckinHour
      /\ r > CheckinHour => r + RoundHours < DayLength + CheckinHour
  BY <1>1, CheckinAssumption
<1> HIDE DEF q, r
<1>4. (d - q) * DayLength = Due(d) - t + r - CheckinHour
  BY <1>1, <1>2, SMTT(30) DEF Due
<1>5. Due(d) \in Nat
  BY <1>1 DEF Due
<1>6. 0 - DayLength < (d - q) * DayLength /\ (d - q) * DayLength < DayLength
  BY <1>1, <1>2, <1>3, <1>4, <1>5
<1>7. d - q = 0
  BY <1>1, <1>2, <1>6, FewerThanALength
<1>8. d = q /\ Due(d) - t + r - CheckinHour = 0
  BY <1>1, <1>2, <1>4, <1>7
<1>9. r = CheckinHour
  BY <1>1, <1>2, <1>3, <1>5, <1>8
<1> QED
  BY <1>2, <1>5, <1>8, <1>9 DEF q, r

\* Every check-in hour after the start and before Passed has had its round, and no
\* other has.
Passed ==
  CASE pc["server"] = "sleep" -> next
    [] pc["server"] = "refresh" -> since
    [] OTHER -> since + 1

InRound == pc["server"] \notin {"sleep", "refresh"}

HeldOnce ==
  \A d \in 0..Day(MaxHour) : started[d] = IF 0 < Due(d) /\ Due(d) < Passed THEN 1 ELSE 0

Timetable ==
  /\ now \in 0..MaxHour /\ since \in 0..now /\ next \in Nat
  /\ started \in [0..Day(MaxHour) -> Nat]
  /\ ~Busy => now <= next /\ 0 < next /\ next % DayLength \in Hours
  /\ Busy => 0 < since /\ now - since <= RoundHours /\ since % DayLength \in Hours
  /\ InRound => since % DayLength = CheckinHour
  /\ HeldOnce

LEMMA Dues == \A d \in Nat : Due(d) \in Nat
<1>1. DayLength \in Nat /\ CheckinHour \in Nat
  BY CheckinAssumption DEF Hours
<1> QED
  BY <1>1 DEF Due

LEMMA DaysOrdered ==
  ASSUME NEW t \in Nat, NEW u \in Nat, t <= u
  PROVE  Day(t) \in Nat /\ Day(t) <= Day(u) /\ Day(u) \in Nat
<1>1. /\ DayLength \in Nat \ {0}
      /\ Day(t) \in Nat /\ t % DayLength \in 0..(DayLength - 1)
      /\ t = Day(t) * DayLength + (t % DayLength)
      /\ Day(u) \in Nat /\ u % DayLength \in 0..(DayLength - 1)
      /\ u = Day(u) * DayLength + (u % DayLength)
  BY DayAndHour, CheckinAssumption
<1> DEFINE q == Day(t)
           s == Day(u)
<1> HIDE DEF q, s
<1>2. CASE s + 1 <= q
  <2>1. /\ (s + 1) * DayLength <= q * DayLength
        /\ (s + 1) * DayLength = s * DayLength + DayLength
    BY <1>1, <1>2, SMTT(30) DEF q, s
  <2>2. s * DayLength \in Nat /\ q * DayLength \in Nat
    BY <1>1 DEF q, s
  <2> QED
    BY <1>1, <2>1, <2>2 DEF q, s
<1> QED
  BY <1>1, <1>2 DEF q, s

\* What the timer is set to after a round: no check-in hour was missed meanwhile.
LEMMA SleepKeeps ==
  ASSUME Typed, Timetable, Busy, Sleep, UNCHANGED <<now, since, started>>,
         pc["server"] = "refresh" => since % DayLength # CheckinHour
  PROVE  Timetable'
<1>1. pc'["server"] = "sleep" /\ next' = NextFire(now)
  BY DEF Sleep, Goto, Typed, Processes
<1>2. /\ now \in Nat /\ since \in Nat /\ since <= now /\ now - since <= RoundHours
      /\ since % DayLength \in Hours
  BY CheckinAssumption DEF Timetable
<1>3. /\ next' \in Nat /\ now < next' /\ next' % DayLength \in Hours
      /\ \A d \in Nat : now < Due(d) => next' <= Due(d)
  BY <1>1, <1>2, FiresNext
<1>4. ASSUME NEW d \in Nat PROVE Due(d) < Passed <=> Due(d) < next'
  <2>1. Due(d) \in Nat
    BY Dues
  <2>2. CASE pc["server"] = "refresh"
    <3>1. ~(since <= Due(d) /\ Due(d) <= now)
      BY <1>2, <2>2, NoneWhileBusy
    <3> QED
      BY <1>2, <1>3, <2>1, <2>2, <3>1 DEF Passed
  <2>3. CASE InRound
    <3>1. since <= Due(d) /\ Due(d) <= now => Due(d) = since
      BY <1>2, NoneWhileBusy
    <3>2. Passed = since + 1
      BY <2>3 DEF Passed, InRound
    <3> QED
      BY <1>2, <1>3, <2>1, <3>1, <3>2
  <2> QED
    BY <2>2, <2>3 DEF Busy, InRound
<1>5. HeldOnce'
  <2>1. Passed' = next'
    BY <1>1 DEF Passed
  <2>2. \A d \in 0..Day(MaxHour) : Due(d)' = Due(d)
    BY DEF Due
  <2> QED
    BY <1>4, <2>1, <2>2 DEF HeldOnce, Timetable
<1> QED
  BY <1>1, <1>3, <1>5 DEF Timetable, Busy, InRound

\* The steps of a check-in leave the timetable alone, or end the round.
Kept ==
  /\ UNCHANGED <<now, since, started>>
  /\ \/ pc'["server"] = pc["server"] /\ next' = next
     \/ InRound /\ InRound' /\ next' = next
     \/ InRound /\ Sleep

LEMMA StepKeeps ==
  ASSUME Typed, NEW p \in Processes, Step(p) PROVE Kept
<1> USE DEF Kept, Typed, Processes, Goto, InRound, timer, hist
<1>0. CASE Fails(p) /\ pc[p] \in {"status", "claim"} /\ UNCHANGED <<now, since, started>>
  BY <1>0 DEF Fails, Over, Sleep
<1>1. CASE Generation(p)
  BY <1>1 DEF Generation
<1>2. CASE Status(p)
  <2>1. CASE Fails(p)
    BY <1>0, <1>2, <2>1 DEF Status
  <2>2. CASE ~Fails(p)
    BY <1>2, <2>2 DEF Status
  <2> QED
    BY <2>1, <2>2
<1>3. CASE Claim(p)
  <2>1. CASE Fails(p)
    BY <1>0, <1>3, <2>1 DEF Claim
  <2>2. CASE ~Fails(p)
    BY <1>3, <2>2 DEF Claim
  <2> QED
    BY <2>1, <2>2
<1>4. CASE ClaimRefused(p)
  <2>1. CASE Fails(p)
    BY <1>0, <1>4, <2>1 DEF ClaimRefused
  <2>2. CASE ~Fails(p)
    BY <1>4, <2>2 DEF ClaimRefused
  <2> QED
    BY <2>1, <2>2
<1>5. CASE Bump(p)
  BY <1>5 DEF Bump
<1>6. CASE RateLimited(p)
  BY <1>6 DEF RateLimited, Over, Sleep
<1>7. CASE Checked(p)
  BY <1>7 DEF Checked, Over, Sleep
<1>8. CASE OtherSave(p)
  BY <1>8 DEF OtherSave
<1> QED
  BY <1>1, <1>2, <1>3, <1>4, <1>5, <1>6, <1>7, <1>8 DEF Step

LEMMA KeptTimetable ==
  ASSUME Typed, Timetable, Kept PROVE Timetable'
<1>1. CASE InRound /\ Sleep
  BY <1>1, SleepKeeps DEF Kept, InRound, Busy
<1>2. CASE /\ UNCHANGED next
           /\ pc'["server"] = pc["server"] \/ (InRound /\ InRound')
  <2>1. Passed' = Passed /\ Busy' = Busy /\ InRound' = InRound
    BY <1>2 DEF Passed, Busy, InRound, Kept
  <2>2. HeldOnce'
    BY <2>1 DEF HeldOnce, Timetable, Kept, Due
  <2> QED
    BY <1>2, <2>1, <2>2 DEF Timetable, Kept
<1> QED
  BY <1>1, <1>2 DEF Kept

LEMMA TimetableStep ==
  ASSUME Typed, Timetable, [NextI]_kvars PROVE Timetable'
<1>1. CASE Tick
  <2>1. /\ UNCHANGED <<since, next, pc, started>> /\ now' = now + 1 /\ now < MaxHour
        /\ IF Busy THEN now - since < RoundHours ELSE now < next
    BY <1>1 DEF Tick, pools, hist
  <2>2. HeldOnce'
    BY <2>1 DEF HeldOnce, Timetable, Passed, Due
  <2> QED
    BY <2>1, <2>2, CheckinAssumption DEF Timetable, Busy, InRound
<1>2. CASE Wake
  <2>1. /\ pc["server"] = "sleep" /\ pc'["server"] = "refresh"
        /\ since' = next /\ now = next /\ UNCHANGED <<now, next, started>>
    BY <1>2 DEF Wake, Goto, Typed, Processes, hist
  <2>2. HeldOnce'
    BY <2>1 DEF HeldOnce, Timetable, Passed, Due
  <2> QED
    BY <2>1, <2>2, CheckinAssumption DEF Timetable, Busy, InRound
<1>3. CASE AfterRefresh /\ since % DayLength = CheckinHour
  <2>1. /\ pc["server"] = "refresh" /\ pc'["server"] = "scheduled"
        /\ UNCHANGED <<now, since, next>>
        /\ started' = [started EXCEPT ![Day(since)] = @ + 1]
    BY <1>3 DEF AfterRefresh, Goto, Typed, Processes
  <2>0. 0 < since
    BY <2>1 DEF Timetable, Busy
  <2>2. /\ now \in Nat /\ since \in Nat /\ since <= MaxHour /\ MaxHour \in Nat
        /\ started \in [0..Day(MaxHour) -> Nat]
    BY CheckinAssumption DEF Timetable
  <2>3. Day(since) \in 0..Day(MaxHour)
    BY <2>2, DaysOrdered
  <2>4. Due(Day(since)) = since
    BY <1>3, <2>2, DayAndHour DEF Due
  <2>5. ASSUME NEW d \in 0..Day(MaxHour), d # Day(since)
        PROVE  Due(d) \in Nat /\ Due(d) # since
    <3>1. d \in Nat /\ CheckinHour \in 0..(DayLength - 1)
      BY CheckinAssumption DEF Hours
    <3>2. Day(Due(d)) = d
      BY <3>1, HourOf DEF Due
    <3> QED
      BY <2>5, <3>1, <3>2, Dues
  <2>6. Passed = since /\ Passed' = since + 1
    BY <2>1 DEF Passed
  <2>7. HeldOnce'
    <3>1. ASSUME NEW d \in 0..Day(MaxHour)
          PROVE  started'[d] = IF 0 < Due(d) /\ Due(d) < since + 1 THEN 1 ELSE 0
      <4>1. started[d] = IF 0 < Due(d) /\ Due(d) < since THEN 1 ELSE 0
        BY <2>6 DEF Timetable, HeldOnce
      <4>2. CASE d = Day(since)
        <5>1. started[d] = 0 /\ started'[d] = 1
          BY <2>1, <2>2, <2>3, <2>4, <4>1, <4>2
        <5> QED
          BY <2>0, <2>2, <2>4, <4>2, <5>1
      <4>3. CASE d # Day(since)
        <5>1. started'[d] = started[d] /\ Due(d) \in Nat /\ Due(d) # since
          BY <2>1, <2>2, <2>5, <4>3
        <5> QED
          BY <2>2, <4>1, <5>1
      <4> QED
        BY <4>2, <4>3
    <3> QED
      BY <2>6, <3>1 DEF HeldOnce, Due
  <2> QED
    BY <1>3, <2>1, <2>2, <2>3, <2>7 DEF Timetable, Busy, InRound
<1>4. CASE AfterRefresh /\ since % DayLength # CheckinHour
  BY <1>4, SleepKeeps DEF AfterRefresh, Busy
<1>5. CASE CommandStart \/ Record \/ CommandKilled
  <2>1. Kept
    BY <1>5 DEF CommandStart, Record, CommandKilled, Kept, Goto, Typed,
       Processes, timer, hist
  <2> QED
    BY <2>1, KeptTimetable
<1>6. CASE \E p \in Processes : Step(p)
  BY <1>6, StepKeeps, KeptTimetable
<1>7. CASE UNCHANGED kvars
  <2>1. Kept
    BY <1>7 DEF kvars, Kept, timer, hist
  <2> QED
    BY <2>1, KeptTimetable
<1> QED
  BY <1>1, <1>2, <1>3, <1>4, <1>5, <1>6, <1>7 DEF NextI

LEMMA TimetableInit == InitI => Timetable
<1> SUFFICES ASSUME InitI PROVE Timetable
  OBVIOUS
<1>1. /\ now = 0 /\ since = 0 /\ next = NextFire(0) /\ pc["server"] = "sleep"
      /\ started = [d \in 0..Day(MaxHour) |-> 0] /\ MaxHour \in Nat
  BY CheckinAssumption DEF InitI, Processes
<1>2. /\ next \in Nat /\ 0 < next /\ next % DayLength \in Hours
      /\ \A d \in Nat : 0 < Due(d) => next <= Due(d)
  BY <1>1, FiresNext
<1>3. HeldOnce
  <2>1. ASSUME NEW d \in 0..Day(MaxHour) PROVE ~(0 < Due(d) /\ Due(d) < next)
    BY <1>2, Dues
  <2> QED
    BY <1>1, <2>1 DEF HeldOnce, Passed
<1> QED
  BY <1>1, <1>2, <1>3 DEF Timetable, Busy, InRound

LEMMA TimetableHolds == SpecI => []Timetable
<1>1. CheckinInv => Typed
  BY DEF CheckinInv
<1> QED
  BY <1>1, CheckinInvariant, TimetableInit, TimetableStep, PTL DEF SpecI

\* A check-in hour of a day that is over has passed, or its round is in hand.
LEMMA OverIsPassed ==
  ASSUME Timetable, NEW d \in 0..(Day(now) - 1)
  PROVE  (pc["server"] = "refresh" /\ Day(since) = d) \/ Due(d) < Passed
<1>1. /\ now \in Nat /\ since \in Nat /\ since <= now /\ d \in Nat /\ Due(d) \in Nat
      /\ next \in Nat
  BY CheckinAssumption, DayAndHour, Dues DEF Timetable
<1>2. Due(d) < now
  <2>1. /\ DayLength \in Nat \ {0} /\ CheckinHour \in 0..(DayLength - 1)
    BY CheckinAssumption DEF Hours
  <2>2. ~(now <= Due(d))
    <3>1. Day(Due(d)) = d
      BY <1>1, <2>1, HourOf DEF Due
    <3>2. now <= Due(d) => Day(now) <= d
      BY <1>1, <3>1, DaysOrdered
    <3> QED
      BY <1>1, <3>2, DayAndHour
  <2> QED
    BY <1>1, <2>2
<1>3. Busy /\ since <= Due(d) => Due(d) = since /\ Day(since) = d
  BY <1>1, <1>2, NoneWhileBusy DEF Timetable
<1> QED
  BY <1>1, <1>2, <1>3 DEF Timetable, Passed, Busy

\* Whatever the hours and however long a round lasts within its bound, no day goes
\* without its check-in round and none has two.
THEOREM OneRoundADay == SpecI => []RoundOnceADay
<1>1. Timetable => RoundOnceADay
  <2> SUFFICES ASSUME Timetable PROVE RoundOnceADay
    OBVIOUS
  <2>1. Day(now) \in Nat /\ Day(MaxHour) \in Nat /\ Day(now) <= Day(MaxHour)
    BY CheckinAssumption, DaysOrdered DEF Timetable
  <2>2. \A d \in 0..Day(now) : started[d] = IF 0 < Due(d) /\ Due(d) < Passed THEN 1 ELSE 0
    BY <2>1 DEF Timetable, HeldOnce
  <2>3. ASSUME NEW d \in 0..(Day(now) - 1), Due(d) > 0
        PROVE  (pc["server"] = "refresh" /\ Day(since) = d) \/ started[d] = 1
    <3>1. d \in 0..Day(now) /\ d \in Nat /\ Due(d) \in Nat
      BY <2>1, Dues
    <3> QED
      BY <2>2, <2>3, <3>1, OverIsPassed
  <2> QED
    BY <2>2, <2>3 DEF RoundOnceADay
<1> QED
  BY <1>1, TimetableHolds, PTL
==============================================================================
