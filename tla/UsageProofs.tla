---------------------------- MODULE UsageProofs ----------------------------
(***************************************************************************)
(* Proofs about UsageArchive, for any calendar, any retention and any      *)
(* number of failures of the file system and crashes.  That no data are    *)
(* lost needs the assumption that no scan stops early (see usage_loss).    *)
(***************************************************************************)
EXTENDS UsagePanel, FiniteSetTheorems, SequenceTheorems, TLAPS

Sums == INSTANCE FoldFacts WITH op <- LAMBDA a, b : b + a,
                                choose <- LAMBDA s : CHOOSE d \in s : TRUE

\* What the archiver has in memory, next to the files: every archived day has
\* its true count, every other day has its file, the summary in memory is the
\* one on disk but for the days in done, and what waits for removal is
\* archived and past the retention.
CountsTrue ==
  \A d \in Days : Archived(d) => monthly[Month[d]].byDay[d] = recorded[d]

ArchivedIsPast == \A d \in Days : Archived(d) => d < today

FileOrCount == \A d \in Days : file[d] = recorded[d] \/ (file[d] = 0 /\ Archived(d))

WorkTrue ==
  pc = "scan" =>
    \A d \in Days : Month[d] = month =>
      \/ work.byDay[d] = monthly[month].byDay[d]
      \/ work.byDay[d] = recorded[d] /\ d < today

DoneInWork ==
  pc = "scan" =>
    \A d \in done : Month[d] = month /\ work.byDay[d] # NotArchived

DoneArchived == pc = "remove" => \A d \in done : Archived(d)

PastRetention == \A d \in queue \cup done : today - d > Retention

IInvU ==
  /\ TypeOKU /\ CountsTrue /\ ArchivedIsPast /\ FileOrCount
  /\ WorkTrue /\ DoneInWork /\ DoneArchived /\ PastRetention

-----------------------------------------------------------------------------
\* A fresh log satisfies the invariant.
LEMMA UsageInit == InitU => IInvU
<1> SUFFICES ASSUME InitU PROVE IInvU
  OBVIOUS
<1> USE UsageAssumption DEF InitU, NotArchived
<1>1. NewSummary \in Summary
  BY DEF NewSummary, Summary
<1>2. TypeOKU
  BY <1>1 DEF TypeOKU
<1>3. \A d \in Days : Month[d] \in Months /\ ~Archived(d)
  BY DEF Archived, HasDay, NewSummary
<1> QED
  BY <1>2, <1>3 DEF IInvU, CountsTrue, ArchivedIsPast, FileOrCount, WorkTrue,
     DoneInWork, DoneArchived, PastRetention

\* Adding a day to a summary touches no other day, and keeps the type.
LEMMA AddDayFacts ==
  ASSUME NEW s \in Summary, NEW d \in Days, NEW count \in Nat
  PROVE  /\ AddDay(s, d, count) \in Summary
         /\ AddDay(s, d, count).byDay[d] = count
         /\ \A e \in Days : e # d => AddDay(s, d, count).byDay[e] = s.byDay[e]
<1> DEFINE b == [s.byDay EXCEPT ![d] = count]
<1>1. b \in [Days -> Nat \cup {NotArchived}] /\ s.requests + count \in Nat
  BY DEF Summary
<1>2. AddDay(s, d, count) = [byDay |-> b, requests |-> s.requests + count]
  BY DEF AddDay
<1>3. b[d] = count /\ \A e \in Days : e # d => b[e] = s.byDay[e]
  BY DEF Summary
<1> HIDE DEF b
<1> QED
  BY <1>1, <1>2, <1>3 DEF Summary

\* A request is recorded: only today's line count changes, and today is not
\* archived.
LEMMA RecordStep ==
  ASSUME IInvU, Record
  PROVE  IInvU'
<1> USE UsageAssumption DEF Record, locals
<1>1. TypeOKU'
  BY DEF IInvU, TypeOKU
<1>2. ~Archived(today)
  BY DEF IInvU, TypeOKU, ArchivedIsPast
<1>3. \A d \in Days : Archived(d)' = Archived(d)
  BY DEF Archived, HasDay
<1>4. \A d \in Days : d # today => recorded'[d] = recorded[d] /\ file'[d] = file[d]
  BY DEF IInvU, TypeOKU
<1>5. /\ recorded'[today] = recorded[today] + 1 /\ file'[today] = file[today] + 1
      /\ file[today] = recorded[today]
  BY <1>2 DEF IInvU, TypeOKU, FileOrCount
<1>6. CountsTrue' /\ ArchivedIsPast'
  BY <1>2, <1>3, <1>4 DEF IInvU, CountsTrue, ArchivedIsPast
<1>7. FileOrCount'
  BY <1>3, <1>4, <1>5 DEF IInvU, FileOrCount
<1>8. WorkTrue'
  BY <1>4 DEF IInvU, TypeOKU, WorkTrue
<1>9. DoneInWork' /\ DoneArchived' /\ PastRetention'
  BY <1>3 DEF IInvU, TypeOKU, DoneInWork, DoneArchived, PastRetention
<1> QED
  BY <1>1, <1>6, <1>7, <1>8, <1>9 DEF IInvU

\* A new day only makes everything older.
LEMMA NewDayStep ==
  ASSUME IInvU, NewDay
  PROVE  IInvU'
<1> USE UsageAssumption DEF NewDay, locals
<1>1. TypeOKU' /\ today \in Nat /\ today' = today + 1
  BY DEF IInvU, TypeOKU
<1>2. \A d \in Days : Archived(d)' = Archived(d) /\ d \in Nat
  BY DEF Archived, HasDay
<1>3. CountsTrue' /\ ArchivedIsPast' /\ FileOrCount'
  BY <1>1, <1>2 DEF IInvU, CountsTrue, ArchivedIsPast, FileOrCount
<1>4. WorkTrue' /\ DoneInWork' /\ DoneArchived'
  BY <1>1, <1>2 DEF IInvU, TypeOKU, WorkTrue, DoneInWork, DoneArchived
<1>5. PastRetention'
  BY <1>1, <1>2 DEF IInvU, TypeOKU, PastRetention
<1> QED
  BY <1>1, <1>3, <1>4, <1>5 DEF IInvU

\* What depends on the log and the summaries alone survives a step that leaves
\* them alone.
LEMMA FilesKept ==
  ASSUME IInvU, UNCHANGED <<today, recorded, file, monthly>>
  PROVE  /\ CountsTrue' /\ ArchivedIsPast' /\ FileOrCount'
         /\ \A d \in Days : Archived(d)' = Archived(d)
BY DEF IInvU, CountsTrue, ArchivedIsPast, FileOrCount, Archived, HasDay

\* The archiver lists the old files.
LEMMA BeginStep ==
  ASSUME IInvU, Begin
  PROVE  IInvU'
<1> USE UsageAssumption DEF Begin
<1>1. CountsTrue' /\ ArchivedIsPast' /\ FileOrCount'
  BY FilesKept
<1>2. PICK early \in {0, 1} : queue' = {d \in Days : Old(d, early)}
  OBVIOUS
<1>3. TypeOKU'
  BY <1>2 DEF IInvU, TypeOKU
<1>4. WorkTrue' /\ DoneInWork' /\ DoneArchived'
  BY DEF WorkTrue, DoneInWork, DoneArchived
<1>5. \A d \in queue' : today - d > Retention
  BY <1>2 DEF Old, IInvU, TypeOKU
<1>6. PastRetention'
  BY <1>5 DEF IInvU, PastRetention
<1> QED
  BY <1>1, <1>3, <1>4, <1>6 DEF IInvU

\* A summary is read, or its month is skipped.
LEMMA LoadMonthStep ==
  ASSUME IInvU, NEW m \in Months, LoadMonth(m)
  PROVE  IInvU'
<1> USE UsageAssumption DEF LoadMonth
<1>1. CountsTrue' /\ ArchivedIsPast' /\ FileOrCount'
  BY FilesKept
<1>2. CASE month' = m /\ work' = monthly[m] /\ done' = {} /\ pc' = "scan"
           /\ UNCHANGED <<queue, failures>>
  <2>1. TypeOKU'
    BY <1>2 DEF IInvU, TypeOKU
  <2>2. WorkTrue' /\ DoneInWork' /\ DoneArchived'
    BY <1>2 DEF WorkTrue, DoneInWork, DoneArchived
  <2>3. PastRetention'
    BY <1>2 DEF IInvU, PastRetention
  <2> QED
    BY <1>1, <2>1, <2>2, <2>3 DEF IInvU
<1>3. CASE Fails("load") /\ queue' = queue \ OfMonth(m)
           /\ UNCHANGED <<pc, month, work, done>>
  <2>1. failures' \in Nat
    BY <1>3 DEF IInvU, TypeOKU, Fails
  <2>4. TypeOKU'
    BY <1>3, <2>1 DEF IInvU, TypeOKU
  <2>2. WorkTrue' /\ DoneInWork' /\ DoneArchived'
    BY <1>3 DEF WorkTrue, DoneInWork, DoneArchived
  <2>3. PastRetention'
    BY <1>3 DEF IInvU, PastRetention
  <2> QED
    BY <1>1, <2>2, <2>3, <2>4 DEF IInvU
<1> QED
  BY <1>2, <1>3

\* A day is added to the summary in memory with the lines of its file, which
\* are all its lines because it was not archived before.
LEMMA ScanDayStep ==
  ASSUME IInvU, NEW d \in Days, ScanDay(d), "scan" \notin Faults
  PROVE  IInvU'
<1> USE UsageAssumption DEF ScanDay
<1>1. CountsTrue' /\ ArchivedIsPast' /\ FileOrCount'
  BY FilesKept
<1>2. /\ queue' = queue \ {d} /\ d \in queue /\ Month[d] = month
      /\ pc = "scan" /\ pc' = "scan"
  BY DEF OfMonth
<1>3. CASE HasDay(work, d) /\ UNCHANGED <<work, done, failures>>
  <2>1. TypeOKU'
    BY <1>2, <1>3 DEF IInvU, TypeOKU
  <2>2. WorkTrue' /\ DoneInWork' /\ DoneArchived' /\ PastRetention'
    BY <1>2, <1>3 DEF IInvU, WorkTrue, DoneInWork, DoneArchived, PastRetention
  <2> QED
    BY <1>1, <2>1, <2>2 DEF IInvU
<1>4. CASE /\ ~HasDay(work, d) /\ done' = done \cup {d}
           /\ work' = AddDay(work, d, file[d]) /\ UNCHANGED failures
  <2>1. work \in Summary /\ file[d] \in Nat /\ d \in Nat /\ today \in Nat
    BY DEF IInvU, TypeOKU
  <2>2. /\ work' \in Summary /\ work'.byDay[d] = file[d]
        /\ \A e \in Days : e # d => work'.byDay[e] = work.byDay[e]
    <3>1. work' = AddDay(work, d, file[d])
      BY <1>4
    <3>2. /\ AddDay(work, d, file[d]) \in Summary
          /\ AddDay(work, d, file[d]).byDay[d] = file[d]
          /\ \A e \in Days : e # d => AddDay(work, d, file[d]).byDay[e] = work.byDay[e]
      BY ONLY <2>1, AddDayFacts, d \in Days, ZenonT(30)
    <3> QED
      BY ONLY <3>1, <3>2
  <2>3. today - d > Retention
    BY <1>2 DEF IInvU, PastRetention
  <2>4. d < today
    BY <2>1, <2>3
  <2>5. file[d] = recorded[d]
    <3>1. CASE work.byDay[d] = monthly[month].byDay[d]
      BY <1>2, <1>4, <3>1 DEF IInvU, FileOrCount, Archived, HasDay
    <3>2. CASE work.byDay[d] = recorded[d]
      BY <1>4, <3>2 DEF IInvU, TypeOKU, FileOrCount, Archived, HasDay, NotArchived,
         WorkTrue, CountsTrue
    <3> QED
      BY <1>2, <3>1, <3>2 DEF IInvU, WorkTrue
  <2>6. TypeOKU'
    BY <1>2, <1>4, <2>2 DEF IInvU, TypeOKU
  <2>7. WorkTrue'
    BY <1>2, <2>2, <2>4, <2>5 DEF IInvU, WorkTrue
  <2>8. work'.byDay[d] # NotArchived
    BY <2>1, <2>2 DEF NotArchived
  <2>9. DoneInWork'
    BY <1>2, <1>4, <2>2, <2>8 DEF IInvU, TypeOKU, DoneInWork
  <2>10. DoneArchived' /\ PastRetention'
    BY <1>2, <1>4, <2>3 DEF IInvU, DoneArchived, PastRetention
  <2> QED
    BY <1>1, <2>6, <2>7, <2>9, <2>10 DEF IInvU
<1> QED
  BY <1>3, <1>4 DEF Fails

\* The summary is written as a whole, or the files stay.
LEMMA WriteMonthStep ==
  ASSUME IInvU, WriteMonth
  PROVE  IInvU'
<1> USE UsageAssumption DEF WriteMonth
<1>1. CASE pc' = "months" /\ UNCHANGED monthly /\ failures' \in Nat
  <2>1. CountsTrue' /\ ArchivedIsPast' /\ FileOrCount'
    BY <1>1, FilesKept
  <2>2. TypeOKU'
    BY <1>1 DEF IInvU, TypeOKU
  <2>3. WorkTrue' /\ DoneInWork' /\ DoneArchived' /\ PastRetention'
    BY <1>1 DEF IInvU, WorkTrue, DoneInWork, DoneArchived, PastRetention
  <2> QED
    BY <2>1, <2>2, <2>3 DEF IInvU
<1>2. CASE /\ done # {} /\ pc' = "remove"
           /\ monthly' = [monthly EXCEPT ![month] = work] /\ UNCHANGED failures
  <2>1. TypeOKU'
    BY <1>2 DEF IInvU, TypeOKU
  <2>2. \A d \in Days : Month[d] \in Months
    OBVIOUS
  <2>3. \A d \in Days : Month[d] = month =>
          /\ monthly'[Month[d]].byDay[d] = work.byDay[d]
          /\ \/ work.byDay[d] = monthly[month].byDay[d]
             \/ work.byDay[d] = recorded[d] /\ d < today
    BY <1>2, <2>2 DEF IInvU, TypeOKU, WorkTrue
  <2>4. \A d \in Days : Month[d] # month => monthly'[Month[d]] = monthly[Month[d]]
    BY <1>2, <2>2 DEF IInvU, TypeOKU
  <2>5. CountsTrue' /\ ArchivedIsPast'
    BY <2>3, <2>4 DEF IInvU, CountsTrue, ArchivedIsPast, Archived, HasDay
  <2>6. \A d \in Days : Archived(d) => Archived(d)'
    BY <2>3, <2>4 DEF IInvU, TypeOKU, Archived, HasDay, NotArchived
  <2>7. FileOrCount'
    BY <2>6 DEF IInvU, FileOrCount
  <2>8. DoneArchived'
    BY <2>3 DEF IInvU, TypeOKU, DoneInWork, DoneArchived, Archived, HasDay
  <2>9. WorkTrue' /\ DoneInWork' /\ PastRetention'
    BY <1>2 DEF IInvU, WorkTrue, DoneInWork, PastRetention
  <2> QED
    BY <2>1, <2>5, <2>7, <2>8, <2>9 DEF IInvU
<1>3. failures + 1 \in Nat
  BY DEF IInvU, TypeOKU
<1> QED
  BY <1>1, <1>2, <1>3 DEF Fails, IInvU, TypeOKU

\* Only an archived day loses its file.
LEMMA RemoveDayStep ==
  ASSUME IInvU, NEW d \in Days, RemoveDay(d)
  PROVE  IInvU'
<1> USE UsageAssumption DEF RemoveDay
<1>1. failures + 1 \in Nat
  BY DEF IInvU, TypeOKU
<1>2. TypeOKU'
  BY <1>1 DEF IInvU, TypeOKU, Fails
<1>3. Archived(d) /\ pc' = "remove" /\ done' \subseteq done
  BY DEF IInvU, DoneArchived
<1>4. \A e \in Days : Archived(e)' = Archived(e)
  BY DEF Archived, HasDay
<1>5. \A e \in Days : file'[e] = file[e] \/ (e = d /\ file'[e] = 0)
  BY DEF IInvU, TypeOKU
<1>6. FileOrCount'
  BY <1>3, <1>4, <1>5 DEF IInvU, FileOrCount
<1>7. CountsTrue' /\ ArchivedIsPast'
  BY <1>4 DEF IInvU, CountsTrue, ArchivedIsPast
<1>8. WorkTrue' /\ DoneInWork' /\ DoneArchived' /\ PastRetention'
  BY <1>3, <1>4 DEF IInvU, TypeOKU, WorkTrue, DoneInWork, DoneArchived, PastRetention
<1> QED
  BY <1>2, <1>6, <1>7, <1>8 DEF IInvU

\* The archiver goes on to the next month, returns, or dies.
LEMMA QuietStep ==
  ASSUME IInvU, NextMonth \/ Return \/ Crash
  PROVE  IInvU'
<1> USE DEF NextMonth, Return, Crash
<1>1. failures + 1 \in Nat
  BY DEF IInvU, TypeOKU
<1>2. TypeOKU'
  BY <1>1 DEF IInvU, TypeOKU, Fails
<1>3. CountsTrue' /\ ArchivedIsPast' /\ FileOrCount'
  BY FilesKept
<1>4. pc' \in {"idle", "months"} /\ queue' \subseteq queue /\ done' \subseteq done
  OBVIOUS
<1>5. WorkTrue' /\ DoneInWork' /\ DoneArchived' /\ PastRetention'
  BY <1>4 DEF IInvU, WorkTrue, DoneInWork, DoneArchived, PastRetention
<1> QED
  BY <1>2, <1>3, <1>5 DEF IInvU

\* Every step keeps the invariant.
LEMMA UsageStep ==
  ASSUME "scan" \notin Faults, IInvU, [NextU]_uvars
  PROVE  IInvU'
<1>1. CASE Record
  BY <1>1, RecordStep
<1>2. CASE NewDay
  BY <1>2, NewDayStep
<1>3. CASE Begin
  BY <1>3, BeginStep
<1>4. CASE WriteMonth
  BY <1>4, WriteMonthStep
<1>5. CASE NextMonth \/ Return \/ Crash
  BY <1>5, QuietStep
<1>6. CASE \E m \in Months : LoadMonth(m)
  BY <1>6, LoadMonthStep
<1>7. CASE \E d \in Days : ScanDay(d) \/ RemoveDay(d)
  BY <1>7, ScanDayStep, RemoveDayStep
<1>8. CASE UNCHANGED uvars
  <2> USE <1>8 DEF uvars, locals
  <2>1. CountsTrue' /\ ArchivedIsPast' /\ FileOrCount'
    BY FilesKept
  <2>2. \A d \in Days : Archived(d)' = Archived(d)
    BY FilesKept
  <2> QED
    BY <2>1, <2>2 DEF IInvU, TypeOKU, WorkTrue, DoneInWork, DoneArchived, PastRetention
<1> QED
  BY <1>1, <1>2, <1>3, <1>4, <1>5, <1>6, <1>7, <1>8 DEF NextU, Archive

-----------------------------------------------------------------------------
\* As long as a scan reads the whole file, the archive loses no request: the
\* lines of every day are in its file or counted in its summary.
THEOREM ArchiveLosesNothing ==
  ASSUME "scan" \notin Faults
  PROVE  SpecU => []NothingLost
<1>1. InitU => IInvU
  BY UsageInit
<1>2. IInvU /\ [NextU]_uvars => IInvU'
  BY UsageStep
<1>3. IInvU => NothingLost
  BY DEF IInvU, FileOrCount, CountsTrue, NothingLost
<1> QED
  BY <1>1, <1>2, <1>3, PTL DEF SpecU

-----------------------------------------------------------------------------
(* The sums of the months. *)

\* The days of a month that are in a summary, and their requests.
DaysIn(s, m) == {d \in Days : Month[d] = m /\ HasDay(s, d)}

\* A summary counts each of its days once, with the requests recorded on it.
Exact(s, m) ==
  /\ IsFiniteSet(DaysIn(s, m))
  /\ s.requests = Sums!Fold(0, recorded, DaysIn(s, m))

\* Both hold the sum: the summary on disk and the one in memory.
SumsTrue ==
  /\ \A m \in Months : Exact(monthly[m], m)
  /\ pc = "scan" => Exact(work, month)

LEMMA SumIsFold ==
  ASSUME NEW g, NEW S
  PROVE  MapThenSumSet(LAMBDA d : g[d], S) = Sums!Fold(0, g, S)
BY DEF Sums!Fold, MapThenSumSet, MapThenFoldSet, Sums!MapThenFoldSet

LEMMA SumTerms ==
  ASSUME NEW S
  PROVE  /\ 0 \in Int /\ Sums!Commutes(Int) /\ Sums!Chooses(S)
         /\ Sums!IsFiniteSet(S) <=> IsFiniteSet(S)
BY DEF Sums!Commutes, Sums!Chooses, Sums!IsFiniteSet, IsFiniteSet

\* One more day, and its requests.
LEMMA SumPut ==
  ASSUME NEW S, IsFiniteSet(S), NEW d, d \notin S, NEW g, \A e \in S \cup {d} : g[e] \in Int
  PROVE  Sums!Fold(0, g, S \cup {d}) = g[d] + Sums!Fold(0, g, S)
<1>1. IsFiniteSet(S \cup {d}) /\ (S \cup {d}) \ {d} = S /\ d \in S \cup {d}
  BY FS_AddElement
<1>2. Sums!Fold(0, g, S \cup {d}) = g[d] + Sums!Fold(0, g, (S \cup {d}) \ {d})
  BY <1>1, SumTerms, Sums!FoldAny
<1> QED
  BY <1>1, <1>2

\* What is appended to another day does not change the sum.
LEMMA ExactKept ==
  ASSUME NEW s, NEW m, Exact(s, m),
         \A d \in DaysIn(s, m) : recorded'[d] = recorded[d]
  PROVE  IsFiniteSet(DaysIn(s, m)) /\ s.requests = Sums!Fold(0, recorded', DaysIn(s, m))
<1>1. Sums!Fold(0, recorded, DaysIn(s, m)) = Sums!Fold(0, recorded', DaysIn(s, m))
  BY SumTerms, Sums!FoldSame DEF Exact
<1> QED
  BY <1>1 DEF Exact

\* The archived days and those in memory are past.
LEMMA SummedIsPast ==
  ASSUME IInvU
  PROVE  /\ \A m \in Months : \A d \in DaysIn(monthly[m], m) : d < today
         /\ pc = "scan" => \A d \in DaysIn(work, month) : d < today
<1>1. \A m \in Months : \A d \in DaysIn(monthly[m], m) : d < today
  BY DEF IInvU, ArchivedIsPast, Archived, DaysIn
<1>2. ASSUME pc = "scan", NEW d \in DaysIn(work, month) PROVE d < today
  <2>1. d \in Days /\ Month[d] = month /\ HasDay(work, d) /\ month \in Months
    BY DEF DaysIn, IInvU, TypeOKU
  <2>2. CASE work.byDay[d] = monthly[month].byDay[d]
    BY <1>1, <2>1, <2>2 DEF DaysIn, HasDay
  <2>3. CASE work.byDay[d] = recorded[d] /\ d < today
    BY <2>3
  <2> QED
    BY <1>2, <2>1, <2>2, <2>3 DEF IInvU, WorkTrue
<1> QED
  BY <1>1, <1>2

\* A request is appended to a day that is in no sum yet.
LEMMA RecordSums ==
  ASSUME IInvU, SumsTrue, Record
  PROVE  SumsTrue'
<1>1. UNCHANGED <<monthly, pc, work, month>>
  BY DEF Record, locals
<1>2. \A d \in Days : d < today => recorded'[d] = recorded[d]
  BY UsageAssumption DEF Record, IInvU, TypeOKU
<1>3. ASSUME NEW m \in Months PROVE Exact(monthly[m], m)'
  <2>1. \A d \in DaysIn(monthly[m], m) : recorded'[d] = recorded[d]
    BY <1>2, SummedIsPast DEF DaysIn
  <2>2. Exact(monthly[m], m)
    BY DEF SumsTrue
  <2>3. /\ IsFiniteSet(DaysIn(monthly[m], m))
        /\ monthly[m].requests = Sums!Fold(0, recorded', DaysIn(monthly[m], m))
    BY <2>1, <2>2, ExactKept
  <2> QED
    BY <1>1, <2>3 DEF Exact, DaysIn, HasDay
<1>4. ASSUME pc' = "scan" PROVE Exact(work, month)'
  <2>1. \A d \in DaysIn(work, month) : recorded'[d] = recorded[d]
    BY <1>1, <1>2, <1>4, SummedIsPast DEF DaysIn
  <2>2. Exact(work, month)
    BY <1>1, <1>4 DEF SumsTrue
  <2>3. /\ IsFiniteSet(DaysIn(work, month))
        /\ work.requests = Sums!Fold(0, recorded', DaysIn(work, month))
    BY <2>1, <2>2, ExactKept
  <2> QED
    BY <1>1, <2>3 DEF Exact, DaysIn, HasDay
<1> QED
  BY <1>3, <1>4 DEF SumsTrue

\* A day is added that the summary did not have, with all its requests.
LEMMA ScanDaySums ==
  ASSUME IInvU, SumsTrue, NEW d \in Days, ScanDay(d), "scan" \notin Faults
  PROVE  SumsTrue'
<1>1. /\ pc = "scan" /\ UNCHANGED <<recorded, file, monthly, pc, month>>
      /\ Month[d] = month
  BY DEF ScanDay, OfMonth
<1>2. \A m \in Months : Exact(monthly[m], m)'
  BY <1>1 DEF SumsTrue, Exact, DaysIn, HasDay
<1>3. CASE work' = work
  BY <1>1, <1>2, <1>3 DEF SumsTrue, Exact, DaysIn, HasDay
<1>4. CASE ~HasDay(work, d) /\ work' = AddDay(work, d, file[d])
  <2>1. work \in Summary /\ file[d] \in Nat /\ recorded \in [Days -> Nat]
    BY DEF IInvU, TypeOKU
  <2>2. file[d] = recorded[d]
    <3>1. CASE work.byDay[d] = monthly[month].byDay[d]
      BY <1>1, <1>4, <3>1 DEF IInvU, FileOrCount, Archived, HasDay
    <3>2. CASE work.byDay[d] = recorded[d]
      BY <1>4, <2>1, <3>2 DEF HasDay, NotArchived
    <3>3. work.byDay[d] = monthly[month].byDay[d] \/ work.byDay[d] = recorded[d]
      BY <1>1 DEF IInvU, WorkTrue
    <3> QED
      BY <3>1, <3>2, <3>3
  <2>3. /\ work'.byDay[d] = file[d]
        /\ \A e \in Days : e # d => work'.byDay[e] = work.byDay[e]
    BY <1>4, <2>1, AddDayFacts, ZenonT(30)
  <2>4. work'.requests = work.requests + file[d]
    BY <1>4 DEF AddDay
  <2>5. HasDay(work', d) /\ \A e \in Days : e # d => (HasDay(work', e) <=> HasDay(work, e))
    BY <2>1, <2>3 DEF HasDay, NotArchived
  <2>6. DaysIn(work', month') = DaysIn(work, month) \cup {d} /\ d \notin DaysIn(work, month)
    BY <1>1, <1>4, <2>5 DEF DaysIn
  <2>7. Exact(work, month)
    BY <1>1 DEF SumsTrue
  <2>8. IsFiniteSet(DaysIn(work, month) \cup {d})
    BY <2>7, FS_AddElement DEF Exact
  <2>9. \A e \in DaysIn(work, month) \cup {d} : recorded[e] \in Int
    BY <2>1 DEF DaysIn
  <2>10. Sums!Fold(0, recorded, DaysIn(work, month) \cup {d})
           = recorded[d] + Sums!Fold(0, recorded, DaysIn(work, month))
    BY <2>6, <2>7, <2>9, SumPut DEF Exact
  <2>11. work.requests = Sums!Fold(0, recorded, DaysIn(work, month)) /\ work.requests \in Nat
    BY <2>1, <2>7 DEF Exact, Summary
  <2>12. work'.requests = Sums!Fold(0, recorded, DaysIn(work, month) \cup {d})
    BY <2>1, <2>2, <2>4, <2>10, <2>11
  <2>13. Exact(work, month)'
    <3>1. DaysIn(work, month)' = DaysIn(work, month) \cup {d}
      BY <2>6 DEF DaysIn, HasDay
    <3> QED
      BY <1>1, <2>8, <2>12, <3>1 DEF Exact
  <2> QED
    BY <1>2, <2>13 DEF SumsTrue
<1> QED
  BY <1>3, <1>4 DEF ScanDay, Fails

\* A summary that is read or written is exact as it was.
LEMMA SumsStep ==
  ASSUME "scan" \notin Faults, IInvU, SumsTrue, [NextU]_uvars
  PROVE  SumsTrue'
<1>1. CASE Record
  BY <1>1, RecordSums
<1>2. CASE \E d \in Days : ScanDay(d)
  BY <1>2, ScanDaySums
<1>3. CASE \E m \in Months : LoadMonth(m)
  <2>1. PICK m \in Months : LoadMonth(m)
    BY <1>3
  <2>2. UNCHANGED <<recorded, monthly>>
    BY <2>1 DEF LoadMonth
  <2>3. \A other \in Months : Exact(monthly[other], other)'
    BY <2>2 DEF SumsTrue, Exact, DaysIn, HasDay
  <2>4. CASE month' = m /\ work' = monthly[m]
    <3>1. Exact(monthly[m], m)
      BY DEF SumsTrue
    <3>2. IsFiniteSet(DaysIn(work', month')) /\ work'.requests = Sums!Fold(0, recorded, DaysIn(work', month'))
      BY <2>4, <3>1 DEF Exact
    <3>3. Exact(work, month)'
      BY <2>2, <3>2 DEF Exact, DaysIn, HasDay
    <3> QED
      BY <2>3, <3>3 DEF SumsTrue
  <2>5. CASE UNCHANGED <<pc, month, work>>
    <3>1. pc = "scan" => Exact(work, month)'
      BY <2>2, <2>5 DEF SumsTrue, Exact, DaysIn, HasDay
    <3> QED
      BY <2>3, <2>5, <3>1 DEF SumsTrue
  <2> QED
    BY <2>1, <2>4, <2>5 DEF LoadMonth
<1>4. CASE WriteMonth
  <2>1. UNCHANGED recorded /\ pc = "scan" /\ pc' # "scan"
    BY <1>4 DEF WriteMonth
  <2>2. CASE UNCHANGED monthly
    BY <2>1, <2>2 DEF SumsTrue, Exact, DaysIn, HasDay
  <2>3. CASE monthly' = [monthly EXCEPT ![month] = work]
    <3>1. monthly \in [Months -> Summary] /\ month \in Months
      BY DEF IInvU, TypeOKU
    <3>2. \A m \in Months : monthly'[m] = IF m = month THEN work ELSE monthly[m]
      BY <2>3, <3>1
    <3>3. Exact(work, month) /\ \A m \in Months : Exact(monthly[m], m)
      BY <2>1 DEF SumsTrue
    <3>4. ASSUME NEW m \in Months PROVE Exact(monthly[m], m)'
      BY <2>1, <3>2, <3>3 DEF Exact, DaysIn, HasDay
    <3> QED
      BY <2>1, <3>4 DEF SumsTrue
  <2> QED
    BY <1>4, <2>2, <2>3 DEF WriteMonth
<1>5. CASE UNCHANGED <<recorded, monthly>> /\ pc' # "scan"
  BY <1>5 DEF SumsTrue, Exact, DaysIn, HasDay
<1>6. CASE UNCHANGED <<recorded, monthly, pc, work, month>>
  BY <1>6 DEF SumsTrue, Exact, DaysIn, HasDay
<1>7. Begin \/ NextMonth \/ Return \/ Crash => UNCHANGED <<recorded, monthly>> /\ pc' # "scan"
  BY DEF Begin, NextMonth, Return, Crash
<1>8. NewDay \/ (\E d \in Days : RemoveDay(d)) \/ UNCHANGED uvars
        => UNCHANGED <<recorded, monthly, pc, work, month>>
  BY DEF NewDay, RemoveDay, uvars, locals
<1> QED
  BY <1>1, <1>2, <1>3, <1>4, <1>5, <1>6, <1>7, <1>8 DEF NextU, Archive

\* As long as a scan reads the whole file, no request is counted twice and none
\* is left out of its month, however often the archiver fails, dies and starts
\* again.
THEOREM MonthsAreExact ==
  ASSUME "scan" \notin Faults
  PROVE  SpecU => []MonthlyExact
<1>1. InitU => IInvU
  BY UsageInit
<1>2. InitU => SumsTrue
  <2> SUFFICES ASSUME InitU PROVE SumsTrue
    OBVIOUS
  <2>1. ASSUME NEW m \in Months PROVE Exact(monthly[m], m)
    <3>1. monthly[m] = NewSummary
      BY DEF InitU
    <3>2. DaysIn(monthly[m], m) = {} /\ monthly[m].requests = 0
      BY <3>1 DEF DaysIn, HasDay, NewSummary
    <3> QED
      BY <3>2, FS_EmptySet, Sums!FoldEmpty DEF Exact
  <2> QED
    BY <2>1 DEF InitU, SumsTrue
<1>3. IInvU /\ [NextU]_uvars => IInvU'
  BY UsageStep
<1>4. IInvU /\ SumsTrue /\ [NextU]_uvars => SumsTrue'
  BY SumsStep
<1>5. SumsTrue => MonthlyExact
  <2> SUFFICES ASSUME SumsTrue, NEW m \in Months
               PROVE  monthly[m].requests =
                        MapThenSumSet(LAMBDA d : recorded[d],
                                      {d \in Days : Month[d] = m /\ Archived(d)})
    BY DEF MonthlyExact
  <2>1. DaysIn(monthly[m], m) = {d \in Days : Month[d] = m /\ Archived(d)}
    BY DEF DaysIn, Archived
  <2>2. Exact(monthly[m], m)
    BY DEF SumsTrue
  <2> QED
    BY <2>1, <2>2, SumIsFold DEF Exact
<1> QED
  BY <1>1, <1>2, <1>3, <1>4, <1>5, PTL DEF SpecU

\* What can be known of a day is what was recorded on it.
LEMMA CountedIsRecorded ==
  ASSUME IInvU
  PROVE  Counted = [d \in Days |-> recorded[d]]
<1>1. \A d \in Days : (IF Archived(d) THEN monthly[Month[d]].byDay[d] ELSE file[d]) = recorded[d]
  BY DEF IInvU, FileOrCount, CountsTrue
<1> QED
  BY <1>1 DEF Counted

\* A request adds to its day, midnight changes the day, and no other step can be
\* seen.
LEMMA LogStep ==
  ASSUME "scan" \notin Faults, IInvU, [NextU]_uvars
  PROVE  [Log!Add \/ Log!Midnight]_<<today, Counted>>
<1>1. IInvU'
  BY UsageStep
<1>2. Counted = [d \in Days |-> recorded[d]] /\ Counted' = [d \in Days |-> recorded'[d]]
  <2>1. Counted = [d \in Days |-> recorded[d]]
    BY CountedIsRecorded
  <2>2. (Counted = [d \in Days |-> recorded[d]])'
    <3>1. \A d \in Days : (IF Archived(d)' THEN monthly'[Month[d]].byDay[d] ELSE file'[d]) = recorded'[d]
      BY <1>1 DEF IInvU, FileOrCount, CountsTrue
    <3> QED
      BY <3>1 DEF Counted
  <2> QED
    BY <2>1, <2>2
<1>3. CASE Record
  <2>1. today' = today /\ recorded' = [recorded EXCEPT ![today] = @ + 1]
    BY <1>3 DEF Record
  <2>2. recorded \in [Days -> Nat] /\ today \in Days
    BY DEF IInvU, TypeOKU
  <2>3. Counted' = [Counted EXCEPT ![today] = @ + 1]
    BY <1>2, <2>1, <2>2
  <2> QED
    BY <2>1, <2>3 DEF Log!Add
<1>4. CASE NewDay
  BY <1>2, <1>4 DEF NewDay, Log!Midnight
<1>5. CASE UNCHANGED <<today, recorded>>
  BY <1>2, <1>5
<1> QED
  BY <1>3, <1>4, <1>5
  DEF NextU, Archive, Begin, LoadMonth, ScanDay, WriteMonth, RemoveDay, NextMonth,
      Return, Crash, uvars

\* As long as no scan stops early, the archive implements the abstract log:
\* neither its steps nor its failures nor a crash can be seen in the counts.
THEOREM ArchiveImplementsLog ==
  ASSUME "scan" \notin Faults
  PROVE  SpecU => LogSpec
<1>1. InitU => IInvU
  BY UsageInit
<1>2. InitU => Log!InitA
  <2> SUFFICES ASSUME InitU PROVE Log!InitA
    OBVIOUS
  <2>1. \A d \in Days : recorded[d] = 0
    BY DEF InitU
  <2> QED
    BY <1>1, <2>1, CountedIsRecorded DEF InitU, Log!InitA
<1>3. IInvU /\ [NextU]_uvars => IInvU'
  BY UsageStep
<1>4. IInvU /\ [NextU]_uvars => [Log!Add \/ Log!Midnight]_<<today, Counted>>
  BY LogStep
<1> QED
  BY <1>1, <1>2, <1>3, <1>4, PTL DEF SpecU, LogSpec, Log!SpecA

(* What the archiver may remove, whatever fails: only the ages matter, so a   *)
(* weaker invariant does, and it survives a scan that stops early too.        *)
AgeInv ==
  /\ today \in Days /\ queue \subseteq Days /\ done \subseteq Days
  /\ file \in [Days -> Nat]
  /\ PastRetention

\* Days only age, and a day gets into done from queue alone.
LEMMA AgeStep ==
  ASSUME AgeInv, [NextU]_uvars
  PROVE  AgeInv'
<1> USE UsageAssumption DEF AgeInv, PastRetention
<1>1. \A d \in Days : d \in Nat
  OBVIOUS
<1>2. CASE Record
  BY <1>2 DEF Record, locals
<1>3. CASE NewDay
  BY <1>1, <1>3 DEF NewDay, locals
<1>4. CASE Begin
  BY <1>1, <1>4 DEF Begin, Old
<1>5. CASE \E m \in Months : LoadMonth(m)
  BY <1>5 DEF LoadMonth
<1>6. CASE \E d \in Days : ScanDay(d)
  BY <1>6 DEF ScanDay, OfMonth
<1>7. CASE \E d \in Days : RemoveDay(d)
  BY <1>7 DEF RemoveDay
<1>8. CASE WriteMonth \/ NextMonth \/ Return \/ Crash
  BY <1>8 DEF WriteMonth, NextMonth, Return, Crash
<1>9. CASE UNCHANGED uvars
  BY <1>9 DEF uvars, locals
<1> QED
  BY <1>2, <1>3, <1>4, <1>5, <1>6, <1>7, <1>8, <1>9 DEF NextU, Archive

\* A step removes only a file past the retention.
LEMMA RemovesOld ==
  ASSUME AgeInv, [NextU]_uvars
  PROVE  [\A d \in Days : file[d] > 0 /\ file'[d] = 0 => today - d > Retention]_uvars
<1> SUFFICES ASSUME NEW d \in Days, file[d] > 0, file'[d] = 0, NextU
             PROVE  today - d > Retention
  BY DEF uvars
<1> USE UsageAssumption DEF AgeInv
<1>1. CASE \E e \in Days : RemoveDay(e)
  <2>1. d \in done
    BY <1>1 DEF RemoveDay
  <2> QED
    BY <2>1 DEF PastRetention
<1>2. CASE Record
  BY <1>2 DEF Record
<1>3. CASE UNCHANGED file
  BY <1>3
<1> QED
  BY <1>1, <1>2, <1>3
  DEF NextU, Archive, NewDay, Begin, LoadMonth, ScanDay, WriteMonth, NextMonth,
      Return, Crash

\* Whatever fails, a file inside the retention is never removed, also when
\* midnight passes while the archiver is at work.
THEOREM RecentKept == SpecU => KeepsRecent
<1>1. InitU => AgeInv
  BY UsageAssumption DEF InitU, AgeInv, PastRetention
<1>2. AgeInv /\ [NextU]_uvars => AgeInv'
  BY AgeStep
<1>3. AgeInv /\ [NextU]_uvars
        => [\A d \in Days : file[d] > 0 /\ file'[d] = 0 => today - d > Retention]_uvars
  BY RemovesOld
<1> QED
  BY <1>1, <1>2, <1>3, PTL DEF SpecU, KeepsRecent

-----------------------------------------------------------------------------
(* What the panel shows, while the archiver is at work. *)

\* No file has more than was recorded, and a recent one has all of it.
FilesRecent ==
  /\ recorded \in [Days -> Nat]
  /\ \A d \in Days : file[d] <= recorded[d]
  /\ \A d \in Days : today - d <= Retention => file[d] = recorded[d]

LEMMA FilesRecentStep ==
  ASSUME AgeInv, FilesRecent, [NextU]_uvars
  PROVE  FilesRecent'
<1> USE UsageAssumption DEF AgeInv, FilesRecent
<1>1. \A d \in Days : d \in Nat
  OBVIOUS
<1>2. CASE Record
  BY <1>1, <1>2 DEF Record
<1>3. CASE NewDay
  BY <1>1, <1>3 DEF NewDay
<1>4. CASE \E d \in Days : RemoveDay(d)
  BY <1>1, <1>4 DEF RemoveDay, PastRetention
<1>5. CASE UNCHANGED <<today, recorded, file>>
  BY <1>5
<1> QED
  BY <1>2, <1>3, <1>4, <1>5
  DEF NextU, Archive, Begin, LoadMonth, ScanDay, WriteMonth, NextMonth, Return,
      Crash, uvars

\* The question, and what it may know.
Asked ==
  /\ before \in [Days -> Nat] /\ \A d \in Days : before[d] <= recorded[d]
  /\ warned \in BOOLEAN /\ date \in Days /\ span \in Nat
  /\ span = 0 => daily = <<>>

\* The days read so far are those from the first to the next; each with no more
\* than was recorded, and if it is recent with what was when the question came.
ReadSoFar ==
  span # 0 =>
    /\ next \in Int /\ From(date, span) <= next /\ next <= date + 1
    /\ DOMAIN daily = From(date, span)..(next - 1)
    /\ \A d \in Days : d \in DOMAIN daily =>
         /\ daily[d] \in Nat /\ daily[d] <= recorded[d]
         /\ ~warned /\ today - d <= Retention => daily[d] >= before[d]

Reading == Asked /\ ReadSoFar

PanelInv == AgeInv /\ FilesRecent /\ Reading

\* Records and midnight leave what was read.
LEMMA ReadingKept ==
  ASSUME AgeInv, FilesRecent, Reading, [NextU]_uvars, UNCHANGED panel
  PROVE  Reading'
<1> USE UsageAssumption DEF AgeInv, FilesRecent, panel, From
<1>1. \A d \in Days : d \in Nat
  OBVIOUS
<1>2. today' \in Nat /\ today <= today'
  BY <1>1 DEF NextU, Archive, Record, NewDay, Begin, LoadMonth, ScanDay, WriteMonth, RemoveDay,
     NextMonth, Return, Crash, uvars
<1>3. \A d \in Days : recorded[d] <= recorded'[d] /\ recorded'[d] \in Nat
  <2>1. CASE Record
    BY <2>1 DEF Record
  <2>2. CASE UNCHANGED recorded
    BY <2>2
  <2> QED
    BY <2>1, <2>2 DEF NextU, Archive, NewDay, Begin, LoadMonth, ScanDay, WriteMonth, RemoveDay,
       NextMonth, Return, Crash, uvars
<1>4. Asked'
  BY <1>3, SMTT(20) DEF Reading, Asked
<1>5. ReadSoFar'
  <2> SUFFICES ASSUME span # 0 PROVE ReadSoFar'
    BY DEF ReadSoFar
  <2>1. next \in Int /\ From(date, span) <= next /\ next <= date + 1
    BY DEF Reading, ReadSoFar
  <2>2. ASSUME NEW d \in Days, d \in DOMAIN daily
        PROVE  /\ daily[d] \in Nat /\ daily[d] <= recorded'[d]
               /\ ~warned /\ today' - d <= Retention => daily[d] >= before[d]
    BY <1>1, <1>2, <1>3, <2>2, SMTT(20) DEF Reading, ReadSoFar
  <2> QED
    BY <2>1, <2>2 DEF Reading, ReadSoFar
<1> QED
  BY <1>4, <1>5 DEF Reading

LEMMA NoQuestionReads ==
  ASSUME NoQuestion, recorded' \in [Days -> Nat]
  PROVE  Reading'
<1>1. before' \in [Days -> Nat] /\ \A d \in Days : before'[d] <= recorded'[d]
  BY DEF NoQuestion
<1>2. warned' \in BOOLEAN /\ date' \in Days /\ span' = 0 /\ daily' = <<>>
  BY UsageAssumption DEF NoQuestion
<1>3. Asked'
  BY <1>1, <1>2 DEF Asked
<1> QED
  BY <1>2, <1>3 DEF NoQuestion, Reading, ReadSoFar

LEMMA AskReads ==
  ASSUME PanelInv, Ask PROVE Reading'
<1> USE UsageAssumption, PanelAssumption DEF PanelInv, FilesRecent, AgeInv, Reading, Asked, ReadSoFar, From
<1>1. PICK d \in Dates, s \in Spans, l \in Limits :
        date' = d /\ span' = s /\ next' = From(d, s)
  BY DEF Ask
<1>2. /\ daily = <<>> /\ UNCHANGED <<daily, warned, today, recorded>> /\ before' = recorded
  BY DEF Ask, uvars
<1>3. d \in Days /\ d \in Nat /\ s \in Nat \ {0}
  OBVIOUS
<1>4. DOMAIN daily' = {} /\ From(d, s)..(From(d, s) - 1) = {}
  BY <1>2, <1>3
<1> QED
  BY <1>1, <1>2, <1>3, <1>4, SMTT(20)

LEMMA ScanReads ==
  ASSUME PanelInv, ScanFile PROVE Reading'
<1> USE UsageAssumption DEF PanelInv, FilesRecent, AgeInv, Reading, Asked, ReadSoFar, From
<1>1. \A d \in Days : d \in Nat
  OBVIOUS
<1>2. /\ span # 0 /\ next <= date /\ next' = next + 1
      /\ UNCHANGED <<today, recorded, file, date, span, before>>
  BY DEF ScanFile, uvars
<1>3. PICK count \in 0..(IF next \in Days THEN file[next] ELSE 0) :
        /\ warned' = (warned \/ count # IF next \in Days THEN file[next] ELSE 0)
        /\ daily' = [d \in DOMAIN daily \cup {next} |-> IF d = next THEN count ELSE daily[d]]
  BY DEF ScanFile
<1>4. DOMAIN daily' = From(date, span)..next
  <2>1. /\ date \in Nat /\ span \in Nat /\ next \in Int /\ From(date, span) <= next
        /\ From(date, span) \in Int /\ DOMAIN daily = From(date, span)..(next - 1)
    BY <1>1, <1>2
  <2>2. DOMAIN daily' = DOMAIN daily \cup {next}
    BY <1>3
  <2> HIDE UsageAssumption DEF PanelInv, FilesRecent, AgeInv, Reading, Asked, ReadSoFar, From
  <2> QED
    BY <2>1, <2>2
<1>5. ASSUME NEW d \in Days, d \in DOMAIN daily'
      PROVE  /\ daily'[d] \in Nat /\ daily'[d] <= recorded[d]
             /\ ~warned' /\ today - d <= Retention => daily'[d] >= before[d]
  <2>1. CASE d = next
    <3>1. /\ count \in 0..file[d] /\ daily'[d] = count
          /\ ~warned' => count = file[d]
      BY <1>3, <2>1
    <3>2. file[d] \in Nat /\ recorded[d] \in Nat /\ file[d] <= recorded[d]
          /\ before[d] \in Nat /\ before[d] <= recorded[d]
      OBVIOUS
    <3>3. today - d <= Retention => file[d] = recorded[d]
      OBVIOUS
    <3> HIDE UsageAssumption DEF PanelInv, FilesRecent, AgeInv, Reading, Asked, ReadSoFar, From
    <3> QED
      BY <3>1, <3>2, <3>3
  <2>2. CASE d # next
    <3>1. d \in DOMAIN daily /\ daily'[d] = daily[d] /\ (~warned' => ~warned)
      BY <1>1, <1>2, <1>3, <1>5, <2>2
    <3> QED
      BY <1>1, <1>2, <3>1
  <2> QED
    BY <2>1, <2>2
<1>6. /\ next' \in Int /\ From(date, span) <= next' /\ next' <= date + 1
      /\ next' - 1 = next
  <2>1. date \in Nat /\ span \in Nat /\ next \in Int /\ From(date, span) <= next
    BY <1>1, <1>2
  <2> QED
    BY <1>2, <2>1
<1> QED
  BY <1>2, <1>3, <1>4, <1>5, <1>6

LEMMA PanelStep ==
  ASSUME PanelInv, [NextP]_pvars PROVE PanelInv'
<1>1. CASE NextU /\ UNCHANGED panel
  BY <1>1, AgeStep, FilesRecentStep, ReadingKept DEF PanelInv
<1>2. CASE Crash /\ NoQuestion
  <2>1. AgeInv' /\ FilesRecent'
    BY <1>2, AgeStep, FilesRecentStep DEF PanelInv, NextU
  <2> QED
    BY <1>2, <2>1, NoQuestionReads, UsageAssumption DEF PanelInv, FilesRecent
<1>3. CASE UNCHANGED uvars /\ Reading'
  BY <1>3, AgeStep, FilesRecentStep DEF PanelInv
<1>4. CASE Panel
  <2>1. UNCHANGED uvars
    BY <1>4 DEF Panel, Ask, ScanFile, Answered
  <2>2. Answered => Reading'
    BY <2>1, NoQuestionReads, UsageAssumption DEF Answered, PanelInv, FilesRecent, uvars
  <2> QED
    BY <1>3, <1>4, <2>1, <2>2, AskReads, ScanReads DEF Panel
<1>5. CASE UNCHANGED pvars
  <2>1. [NextU]_uvars /\ UNCHANGED panel
    BY <1>5 DEF pvars
  <2> QED
    BY <2>1, AgeStep, FilesRecentStep, ReadingKept DEF PanelInv
<1> QED
  BY <1>1, <1>2, <1>4, <1>5 DEF NextP, NextU

LEMMA PanelInit == InitP => PanelInv
<1> SUFFICES ASSUME InitP PROVE PanelInv
  OBVIOUS
<1>1. AgeInv /\ FilesRecent
  BY UsageAssumption DEF InitP, InitU, AgeInv, PastRetention, FilesRecent
<1>2. Asked
  <2>1. before \in [Days -> Nat] /\ \A d \in Days : before[d] <= recorded[d]
    BY DEF InitP, InitU
  <2> QED
    BY <2>1, UsageAssumption DEF InitP, Asked
<1>3. Reading
  BY <1>2 DEF InitP, Reading, ReadSoFar
<1> QED
  BY <1>1, <1>3 DEF PanelInv

\* The panel's range is complete, and without a warning no recent day in it misses
\* a request that was recorded before the question came, for any range and any
\* failures of the archiver that is removing files meanwhile.
THEOREM PanelIsRecent == SpecP => []PanelShowsRecent
<1>2. PanelInv => PanelShowsRecent
  <2> SUFFICES ASSUME PanelInv, Shown PROVE PanelShowsRecent
    BY DEF PanelShowsRecent
  <2> USE UsageAssumption DEF PanelInv, Reading, Asked, ReadSoFar, Shown, From, AgeInv
  <2>1. next = date + 1 /\ date \in Nat /\ span \in Nat \ {0}
    OBVIOUS
  <2>2. DOMAIN daily = (date - (span - 1))..date
    BY <2>1
  <2>3. Cardinality(DOMAIN daily) = span
    BY <2>1, <2>2, FS_Interval
  <2>4. date \in DOMAIN daily
    BY <2>1, <2>2
  <2> QED
    BY <2>1, <2>2, <2>3, <2>4 DEF PanelShowsRecent
<1> QED
  BY PanelInit, <1>2, PanelStep, PTL DEF SpecP

-----------------------------------------------------------------------------
(* The ring of the panel. *)

Rings == INSTANCE FoldFacts WITH op <- RingAdd, choose <- Max
Joins == INSTANCE FoldFacts WITH op <- Join, choose <- Max

Line == Int \X Int

LEMMA LastIsChosen ==
  ASSUME NEW k \in Nat
  PROVE  Rings!ChoosesLast(k) /\ Joins!ChoosesLast(k)
<1>1. ASSUME NEW P \in SUBSET (1..k), P # {} PROVE Max(P) \in P /\ \A x \in P : x <= Max(P)
  <2>1. Max(P) = Joins!Max(P)
    BY DEF Max, Joins!Max
  <2> QED
    BY <1>1, <2>1, Joins!MaxIsLast
<1> QED
  BY <1>1 DEF Rings!ChoosesLast, Joins!ChoosesLast

LEMMA RingOne ==
  ASSUME NEW r, NEW S, NEW s \in Seq(S), NEW e \in S
  PROVE  RingAll(r, Append(s, e)) = RingAdd(RingAll(r, s), e)
<1>1. \A l : RingAll(r, l) = Rings!Fold(r, l, DOMAIN l)
  BY DEF RingAll, FoldLeft, Rings!Fold, MapThenFoldSet, Rings!MapThenFoldSet
<1>2. Rings!ChoosesLast(Len(s) + 1)
  BY LastIsChosen, LenProperties
<1>3. Rings!Fold(r, Append(s, e), DOMAIN Append(s, e)) = RingAdd(Rings!Fold(r, s, DOMAIN s), e)
  BY <1>2, Rings!FoldOne
<1> QED
  BY <1>1, <1>3

LEMMA JoinOne ==
  ASSUME NEW S, NEW s \in Seq(S), NEW e \in S
  PROVE  Joined(Append(s, e)) = Joined(s) \o e
<1>1. \A l : Joined(l) = Joins!Fold(<<>>, l, DOMAIN l)
  BY DEF Joined, FoldLeft, Joins!Fold, MapThenFoldSet, Joins!MapThenFoldSet
<1>2. Joins!ChoosesLast(Len(s) + 1)
  BY LastIsChosen, LenProperties
<1> QED
  BY <1>1, <1>2, Joins!FoldOne DEF Join

\* Nothing is folded of an empty sequence.
LEMMA FoldNone == Joined(<<>>) = <<>> /\ \A r : RingAll(r, <<>>) = r
<1>1. DOMAIN <<>> = {}
  OBVIOUS
<1>2. \A r : RingAll(r, <<>>) = Rings!Fold(r, <<>>, {})
  BY <1>1 DEF RingAll, FoldLeft, Rings!Fold, MapThenFoldSet, Rings!MapThenFoldSet
<1>3. Joined(<<>>) = Joins!Fold(<<>>, <<>>, {})
  BY <1>1 DEF Joined, FoldLeft, Joins!Fold, MapThenFoldSet, Joins!MapThenFoldSet
<1> QED
  BY <1>2, <1>3, Rings!FoldEmpty, Joins!FoldEmpty

\* Division with remainder, and the remainder less than a whole turn later.
LEMMA Remainder ==
  ASSUME NEW l \in Nat \ {0}, NEW a \in Int
  PROVE  a % l \in 0..(l - 1) /\ a = ((a \div l) * l) + (a % l) /\ a \div l \in Int
OBVIOUS

LEMMA RemainderIs ==
  ASSUME NEW l \in Nat \ {0}, NEW q \in Int, NEW r \in 0..(l - 1)
  PROVE  ((q * l) + r) % l = r
OBVIOUS

LEMMA RemainderLater ==
  ASSUME NEW l \in Nat \ {0}, NEW a \in Int, NEW k \in 0..(l - 1)
  PROVE  (a + k) % l = IF (a % l) + k < l THEN (a % l) + k ELSE (a % l) + k - l
<1> DEFINE q == a \div l
           r == a % l
<1>1. q \in Int /\ r \in 0..(l - 1) /\ a = (q * l) + r
  BY Remainder
<1> HIDE DEF q, r
<1>2. CASE r + k < l
  <2>1. r + k \in 0..(l - 1) /\ a + k = (q * l) + (r + k)
    BY <1>1, <1>2
  <2>2. (a + k) % l = r + k
    BY <1>1, <2>1, RemainderIs
  <2> QED
    BY <1>2, <2>2 DEF r
<1>3. CASE r + k >= l
  <2>1. r + k - l \in 0..(l - 1) /\ q + 1 \in Int
    BY <1>1, <1>3
  <2>2. a + k = ((q + 1) * l) + (r + k - l)
    BY <1>1
  <2>3. (a + k) % l = r + k - l
    BY <2>1, <2>2, RemainderIs
  <2> QED
    BY <1>1, <1>3, <2>3 DEF r
<1> QED
  BY <1>1, <1>2, <1>3

LEMMA SlotIsIn ==
  ASSUME NEW l \in Nat \ {0}, NEW a \in Int
  PROVE  a % l \in 0..(l - 1) /\ RingSlot(a, l) \in 1..l
<1>1. a % l \in 0..(l - 1)
  BY Remainder
<1> QED
  BY <1>1 DEF RingSlot

\* The ring has the last lines, each at its slot.
HoldsLast(r, s) ==
  /\ r.limit \in Nat \ {0} /\ r.n = Len(s) /\ r.buf \in Seq(Line)
  /\ Len(r.buf) = IF Len(s) < r.limit THEN Len(s) ELSE r.limit
  /\ \A j \in 1..Len(s) :
       j > Len(s) - r.limit => r.buf[RingSlot(j - 1, r.limit)] = s[j]

\* A line takes the place of the one a whole turn before.
LEMMA AddHolds ==
  ASSUME NEW r, NEW s \in Seq(Line), NEW x \in Line, HoldsLast(r, s)
  PROVE  HoldsLast(RingAdd(r, x), Append(s, x))
<1> DEFINE k == Len(s)
           l == r.limit
           b == RingAdd(r, x).buf
           z == Append(s, x)
<1>1. /\ k \in Nat /\ l \in Nat \ {0} /\ r.n = k /\ r.buf \in Seq(Line)
      /\ Len(r.buf) = IF k < l THEN k ELSE l
      /\ \A j \in 1..k : j > k - l => r.buf[RingSlot(j - 1, l)] = s[j]
  BY LenProperties DEF HoldsLast
<1>2. z \in Seq(Line) /\ Len(z) = k + 1 /\ z[k + 1] = x /\ \A j \in 1..k : z[j] = s[j]
  BY AppendProperties
<1>3. RingAdd(r, x).n = k + 1 /\ RingAdd(r, x).limit = l
  BY <1>1 DEF RingAdd
<1>8. b = IF Len(r.buf) < l THEN Append(r.buf, x) ELSE [r.buf EXCEPT ![RingSlot(k, l)] = x]
  BY <1>1 DEF RingAdd
<1> HIDE DEF k, l, b, z
<1>4. k % l \in 0..(l - 1) /\ RingSlot(k, l) \in 1..l
  <2>1. k \in Int
    BY <1>1
  <2> QED
    BY <1>1, <2>1, SlotIsIn
<1>5. \A j \in 1..k : RingSlot(j - 1, l) \in 1..l
  <2>1. \A j \in 1..k : j - 1 \in Int
    BY <1>1
  <2> QED
    BY <1>1, <2>1, SlotIsIn
<1>6. ASSUME k < l
      PROVE  /\ b \in Seq(Line) /\ Len(b) = IF k + 1 < l THEN k + 1 ELSE l
             /\ \A j \in 1..Len(z) : j > Len(z) - l => b[RingSlot(j - 1, l)] = z[j]
  <2>1. b = Append(r.buf, x) /\ Len(r.buf) = k
    BY <1>1, <1>6, <1>8
  <2>2. b \in Seq(Line) /\ Len(b) = k + 1 /\ b[k + 1] = x /\ \A j \in 1..k : b[j] = r.buf[j]
    BY <1>1, <2>1, AppendProperties
  <2>3. ASSUME NEW j \in 1..(k + 1) PROVE RingSlot(j - 1, l) = j
    <3>1. j - 1 \in 0..(l - 1) /\ j - 1 = (0 * l) + (j - 1) /\ 0 \in Int
      BY <1>1, <1>6
    <3>2. (j - 1) % l = j - 1
      BY <1>1, <3>1, RemainderIs
    <3> QED
      BY <3>2 DEF RingSlot
  <2>4. \A j \in 1..(k + 1) : b[j] = z[j]
    <3>1. \A j \in 1..k : r.buf[j] = s[j]
      <4>1. \A j \in 1..k : j \in 1..(k + 1) /\ j > k - l
        BY <1>1, <1>6
      <4> QED
        BY <1>1, <2>3, <4>1
    <3> QED
      BY <1>1, <1>2, <2>2, <3>1
  <2>5. ASSUME NEW j \in 1..Len(z) PROVE b[RingSlot(j - 1, l)] = z[j]
    <3>1. j \in 1..(k + 1)
      BY <1>2
    <3> QED
      BY <2>3, <2>4, <3>1
  <2>6. Len(b) = IF k + 1 < l THEN k + 1 ELSE l
    BY <1>1, <1>6, <2>2
  <2> QED
    BY <2>2, <2>5, <2>6
<1>7. ASSUME k >= l
      PROVE  /\ b \in Seq(Line) /\ Len(b) = IF k + 1 < l THEN k + 1 ELSE l
             /\ \A j \in 1..Len(z) : j > Len(z) - l => b[RingSlot(j - 1, l)] = z[j]
  <2>1. b = [r.buf EXCEPT ![RingSlot(k, l)] = x] /\ Len(r.buf) = l
    BY <1>1, <1>7, <1>8
  <2>2. /\ b \in Seq(Line) /\ Len(b) = l /\ b[RingSlot(k, l)] = x
        /\ \A i \in 1..l : i # RingSlot(k, l) => b[i] = r.buf[i]
    BY <1>1, <1>4, <2>1, ExceptSeq
  <2>3. ASSUME NEW j \in 1..k, j > k + 1 - l PROVE RingSlot(j - 1, l) # RingSlot(k, l)
    <3>1. /\ j - 1 \in Int /\ k - (j - 1) \in 1..(l - 1) /\ k - (j - 1) \in 0..(l - 1)
          /\ k = (j - 1) + (k - (j - 1))
      BY <1>1, <2>3
    <3>2. (j - 1) % l \in 0..(l - 1)
      BY <1>1, <3>1, Remainder
    <3>3. k % l = IF ((j - 1) % l) + (k - (j - 1)) < l THEN ((j - 1) % l) + (k - (j - 1))
                  ELSE ((j - 1) % l) + (k - (j - 1)) - l
      BY <1>1, <3>1, RemainderLater
    <3>4. k % l # (j - 1) % l
      BY <1>1, <3>1, <3>2, <3>3
    <3> QED
      BY <1>1, <1>4, <3>2, <3>4 DEF RingSlot
  <2>4. ASSUME NEW j \in 1..(k + 1), j > k + 1 - l PROVE b[RingSlot(j - 1, l)] = z[j]
    <3>1. CASE j = k + 1
      <4>1. j - 1 = k
        BY <1>1, <3>1
      <4> QED
        BY <1>2, <2>2, <3>1, <4>1
    <3>2. CASE j \in 1..k
      <4>1. j > k - l
        BY <1>1, <2>4, <3>2
      <4>2. r.buf[RingSlot(j - 1, l)] = s[j]
        BY <1>1, <3>2, <4>1
      <4> QED
        BY <1>2, <1>5, <2>2, <2>3, <2>4, <3>2, <4>2
    <3> QED
      BY <1>1, <3>1, <3>2
  <2>5. Len(b) = IF k + 1 < l THEN k + 1 ELSE l
    BY <1>1, <1>7, <2>2
  <2>6. ASSUME NEW j \in 1..Len(z), j > Len(z) - l PROVE b[RingSlot(j - 1, l)] = z[j]
    <3>1. j \in 1..(k + 1) /\ j > k + 1 - l
      BY <1>1, <1>2, <2>6
    <3> QED
      BY <2>4, <3>1
  <2> QED
    BY <2>2, <2>5, <2>6
<1>9. /\ b \in Seq(Line) /\ Len(b) = IF k + 1 < l THEN k + 1 ELSE l
      /\ \A j \in 1..Len(z) : j > Len(z) - l => b[RingSlot(j - 1, l)] = z[j]
  BY <1>1, <1>6, <1>7
<1>10. \A j \in 1..Len(z) : j > Len(z) - RingAdd(r, x).limit
         => RingAdd(r, x).buf[RingSlot(j - 1, RingAdd(r, x).limit)] = z[j]
  BY <1>3, <1>9 DEF b
<1>11. /\ RingAdd(r, x).limit \in Nat \ {0} /\ RingAdd(r, x).n = Len(z)
       /\ RingAdd(r, x).buf \in Seq(Line)
       /\ Len(RingAdd(r, x).buf) = IF Len(z) < RingAdd(r, x).limit THEN Len(z) ELSE RingAdd(r, x).limit
  BY <1>1, <1>2, <1>3, <1>9 DEF b
<1> QED
  BY <1>10, <1>11 DEF HoldsLast, z

LEMMA ConcatAppend ==
  ASSUME NEW S, NEW s \in Seq(S), NEW t \in Seq(S), NEW x \in S
  PROVE  s \o Append(t, x) = Append(s \o t, x)
<1>1. <<x>> \in Seq(S) /\ s \o t \in Seq(S)
  BY ConcatProperties
<1>2. (s \o t) \o <<x>> = s \o (t \o <<x>>)
  BY <1>1, ConcatAssociative
<1>3. Append(t, x) = t \o <<x>>
  BY AppendIsConcat
<1>4. Append(s \o t, x) = (s \o t) \o <<x>>
  BY <1>1, AppendIsConcat
<1> QED
  BY <1>2, <1>3, <1>4

\* So do all the lines of a file, one by one.
LEMMA AllHold ==
  ASSUME NEW r, NEW s \in Seq(Line), HoldsLast(r, s), NEW lines \in Seq(Line)
  PROVE  HoldsLast(RingAll(r, lines), s \o lines)
<1> DEFINE T == {t \in Seq(Line) : HoldsLast(RingAll(r, t), s \o t)}
<1>1. <<>> \in T
  BY FoldNone, ConcatEmptySeq, EmptySeq
<1>2. ASSUME NEW t \in Seq(Line), NEW x \in Line, t \in T PROVE Append(t, x) \in T
  <2>1. s \o t \in Seq(Line) /\ Append(t, x) \in Seq(Line)
    BY ConcatProperties, AppendProperties
  <2>2. HoldsLast(RingAdd(RingAll(r, t), x), Append(s \o t, x))
    BY <1>2, <2>1, AddHolds
  <2>3. RingAll(r, Append(t, x)) = RingAdd(RingAll(r, t), x)
    BY RingOne
  <2>4. s \o Append(t, x) = Append(s \o t, x)
    BY ConcatAppend
  <2> QED
    BY <2>1, <2>2, <2>3, <2>4
<1>3. Seq(Line) \subseteq T
  <2> HIDE DEF T
  <2> QED
    BY <1>1, <1>2, Joins!GrowingSeq
<1> QED
  BY <1>3

LEMMA TurnBefore ==
  ASSUME NEW l \in Nat \ {0}, NEW a \in Int
  PROVE  (a - l) % l = a % l
<1> DEFINE q == a \div l
           r == a % l
<1>1. q \in Int /\ r \in 0..(l - 1) /\ a = (q * l) + r
  BY Remainder
<1> HIDE DEF q, r
<1>2. q - 1 \in Int /\ a - l = ((q - 1) * l) + r
  BY <1>1
<1>3. (a - l) % l = r
  BY <1>1, <1>2, RemainderIs
<1> QED
  BY <1>3 DEF r

\* A number below the modulus is its own remainder.
LEMMA RemainderSmall ==
  ASSUME NEW l \in Nat \ {0}, NEW a \in 0..(l - 1)
  PROVE  a % l = a
<1>1. a = (0 * l) + a /\ 0 \in Int
  OBVIOUS
<1>2. ((0 * l) + a) % l = a
  BY <1>1, RemainderIs
<1> QED
  BY <1>1, <1>2

\* How many lines are in the ring after k, and where the oldest is.
Kept(k, l) == IF k < l THEN k ELSE l
First(k, l) == IF k > l THEN k % l ELSE 0

LEMMA FirstIsIn ==
  ASSUME NEW k \in Nat, NEW l \in Nat \ {0}
  PROVE  First(k, l) \in 0..Kept(k, l)
<1>1. k % l \in 0..(l - 1)
  BY Remainder
<1> QED
  BY <1>1 DEF First, Kept

\* Where the i-th of the newest lines is, oldest first.
LEMMA SlotOfNewest ==
  ASSUME NEW k \in Nat, NEW l \in Nat \ {0}
  PROVE  \A i \in 1..Kept(k, l) :
           RingSlot(k - Kept(k, l) + i - 1, l)
             = IF i <= Kept(k, l) - First(k, l) THEN First(k, l) + i
               ELSE i - (Kept(k, l) - First(k, l))
<1> TAKE i \in 1..Kept(k, l)
<1>1. CASE k <= l
  <2>1. /\ Kept(k, l) = k /\ First(k, l) = 0
        /\ k - Kept(k, l) + i - 1 = i - 1 /\ i - 1 \in 0..(l - 1) /\ i \in 1..k
    BY <1>1 DEF Kept, First
  <2>2. (i - 1) % l = i - 1
    BY <2>1, RemainderSmall
  <2>3. RingSlot(k - Kept(k, l) + i - 1, l) = i
    BY <2>1, <2>2 DEF RingSlot
  <2> QED
    BY <2>1, <2>3
<1>2. CASE k > l
  <2>1. /\ Kept(k, l) = l /\ First(k, l) = k % l /\ k - l \in Int
        /\ i - 1 \in 0..(l - 1) /\ i \in Int
        /\ k - Kept(k, l) + i - 1 = (k - l) + (i - 1)
    BY <1>2 DEF Kept, First
  <2>2. First(k, l) \in 0..(l - 1) /\ (k - l) % l = First(k, l)
    BY <2>1, Remainder, TurnBefore
  <2>3. ((k - l) + (i - 1)) % l = IF First(k, l) + (i - 1) < l THEN First(k, l) + (i - 1)
                                  ELSE First(k, l) + (i - 1) - l
    BY <2>1, <2>2, RemainderLater
  <2>4. RingSlot(k - Kept(k, l) + i - 1, l)
          = (IF First(k, l) + (i - 1) < l THEN First(k, l) + (i - 1)
             ELSE First(k, l) + (i - 1) - l) + 1
    BY <2>1, <2>3 DEF RingSlot
  <2> QED
    BY <2>1, <2>2, <2>4
<1> QED
  BY <1>1, <1>2

\* The ring is read from the oldest line on.
LEMMA EntriesAreNewest ==
  ASSUME NEW r, NEW s \in Seq(Line), HoldsLast(r, s)
  PROVE  Entries(r) = Reverse(Newest(s, r.limit))
<1> DEFINE k == Len(s)
           l == r.limit
           c == r.buf
           m == Kept(k, l)
           start == First(k, l)
           a == SubSeq(c, start + 1, m)
           b == SubSeq(c, 1, start)
           f == k - m + 1
           w == SubSeq(s, f, k)
<1>1. k \in Nat /\ l \in Nat \ {0} /\ k \in Int /\ r.n = k /\ Len(c) = m
  BY LenProperties DEF HoldsLast, Kept
<1>13. \A j \in 1..k : j > k - l => c[RingSlot(j - 1, l)] = s[j]
  BY DEF HoldsLast
<1>14. (\A j \in 1..k : s[j] \in Line) /\ (\A i \in 1..m : c[i] \in Line)
  <2>1. c \in Seq(Line) /\ Len(c) = m
    BY DEF HoldsLast, Kept
  <2> HIDE DEF k, c, m
  <2>2. \A j \in 1..Len(s) : s[j] \in Line
    BY ElementOfSeq
  <2>3. \A j \in 1..Len(c) : c[j] \in Line
    BY <2>1, ElementOfSeq
  <2> QED
    BY <2>1, <2>2, <2>3 DEF k
<1>2. Entries(r) = Reverse(a \o b)
  BY <1>1 DEF Entries, First
<1>3. Newest(s, r.limit) = w
  <2>1. (IF k > l THEN k - l + 1 ELSE 1) = f
    <3> HIDE DEF k, l
    <3> QED
      BY <1>1 DEF Kept
  <2> QED
    BY <2>1 DEF Newest
<1> HIDE DEF k, l, c
<1>4. m \in Nat /\ m <= k /\ k - m >= k - l /\ k - m \in Nat
  BY <1>1 DEF Kept
<1>5. start \in 0..m
  BY <1>1, FirstIsIn
<1>6. \A i \in 1..m : RingSlot(k - m + i - 1, l) = IF i <= m - start THEN start + i ELSE i - (m - start)
  <2> HIDE DEF RingSlot
  <2>1. \A i \in 1..Kept(k, l) :
          RingSlot(k - Kept(k, l) + i - 1, l)
            = IF i <= Kept(k, l) - First(k, l) THEN First(k, l) + i ELSE i - (Kept(k, l) - First(k, l))
    BY <1>1, SlotOfNewest
  <2> QED
    BY <2>1 DEF m, start
<1> HIDE DEF m, start
<1>7. /\ a \in Seq(Line) /\ Len(a) = m - start
      /\ \A i \in 1..(m - start) : a[i] = c[start + i]
  <2>1. start + 1 \in Int /\ m \in Int /\ \A i \in (start + 1)..m : c[i] \in Line
    BY <1>4, <1>5, <1>14
  <2>2. /\ a \in Seq(Line) /\ Len(a) = IF start + 1 <= m THEN m - (start + 1) + 1 ELSE 0
        /\ \A i \in 1..(m - (start + 1) + 1) : a[i] = c[(start + 1) + i - 1]
    BY <2>1, SubSeqProperties
  <2>3. m - (start + 1) + 1 = m - start /\ \A i \in 1..(m - start) : (start + 1) + i - 1 = start + i
    BY <1>4, <1>5
  <2> QED
    BY <1>4, <1>5, <2>2, <2>3
<1>8. /\ b \in Seq(Line) /\ Len(b) = start
      /\ \A i \in 1..start : b[i] = c[i]
  <2>1. start \in Int /\ 1 \in Int /\ \A i \in 1..start : c[i] \in Line
    BY <1>4, <1>5, <1>14
  <2>2. /\ b \in Seq(Line) /\ Len(b) = IF 1 <= start THEN start - 1 + 1 ELSE 0
        /\ \A i \in 1..(start - 1 + 1) : b[i] = c[1 + i - 1]
    BY <2>1, SubSeqProperties
  <2>3. start - 1 + 1 = start /\ \A i \in 1..start : 1 + i - 1 = i
    BY <1>4, <1>5
  <2> QED
    BY <1>4, <1>5, <2>2, <2>3
<1>9. /\ w \in Seq(Line) /\ Len(w) = m /\ \A i \in 1..m : w[i] = s[k - m + i]
  <2>1. f \in Int /\ k \in Int /\ \A i \in f..k : s[i] \in Line
    BY <1>1, <1>4, <1>14
  <2>2. /\ w \in Seq(Line) /\ Len(w) = IF f <= k THEN k - f + 1 ELSE 0
        /\ \A i \in 1..(k - f + 1) : w[i] = s[f + i - 1]
    BY <2>1, SubSeqProperties
  <2>3. k - f + 1 = m /\ (f <= k <=> m >= 1) /\ \A i \in 1..m : f + i - 1 = k - m + i
    BY <1>1, <1>4
  <2>4. Len(w) = m
    BY <1>4, <2>2, <2>3
  <2> HIDE DEF f, w
  <2> QED
    BY <2>2, <2>3, <2>4
<1> HIDE DEF a, b, f, w
<1>10. /\ a \o b \in Seq(Line) /\ Len(a \o b) = m
       /\ \A i \in 1..m : (a \o b)[i] = IF i <= m - start THEN c[start + i] ELSE c[i - (m - start)]
  <2>1. /\ a \o b \in Seq(Line) /\ Len(a \o b) = Len(a) + Len(b)
        /\ \A i \in 1..(Len(a) + Len(b)) : (a \o b)[i] = IF i <= Len(a) THEN a[i] ELSE b[i - Len(a)]
    BY <1>7, <1>8, ConcatProperties
  <2>2. Len(a) + Len(b) = m
    BY <1>4, <1>5, <1>7, <1>8
  <2>3. ASSUME NEW i \in 1..m
        PROVE  (a \o b)[i] = IF i <= m - start THEN c[start + i] ELSE c[i - (m - start)]
    <3>1. CASE i <= m - start
      BY <1>4, <1>5, <1>7, <2>1, <2>2, <3>1
    <3>2. CASE ~(i <= m - start)
      <4>1. i - (m - start) \in 1..start
        BY <1>4, <1>5, <3>2
      <4> QED
        BY <1>7, <1>8, <2>1, <2>2, <3>2, <4>1
    <3> QED
      BY <3>1, <3>2
  <2> QED
    BY <2>1, <2>2, <2>3
<1>11. ASSUME NEW i \in 1..m PROVE (a \o b)[i] = w[i]
  <2>1. k - m + i \in 1..k /\ k - m + i > k - l /\ (k - m + i) - 1 = k - m + i - 1
    BY <1>1, <1>4
  <2>2. c[RingSlot(k - m + i - 1, l)] = s[k - m + i]
    BY <1>13, <2>1
  <2> QED
    BY <1>6, <1>9, <1>10, <2>2
<1>12. a \o b = w
  BY <1>9, <1>10, <1>11, SeqEqual
<1> QED
  BY <1>2, <1>3, <1>12

LEMMA LinesIn ==
  ASSUME NEW d \in Int, NEW count \in Nat
  PROVE  LinesOf(d, count) \in Seq(Line)
<1>1. \A i \in 1..count : <<d, i>> \in Line
  BY DEF Line
<1> QED
  BY <1>1 DEF LinesOf

LEMMA JoinedIn ==
  ASSUME NEW parts \in Seq(Seq(Line))
  PROVE  Joined(parts) \in Seq(Line)
<1> DEFINE S == Seq(Line)
           T == {p \in Seq(S) : Joined(p) \in Seq(Line)}
<1>1. <<>> \in T
  BY FoldNone, EmptySeq
<1>2. ASSUME NEW p \in Seq(S), NEW e \in S, p \in T PROVE Append(p, e) \in T
  <2>1. Joined(p) \in Seq(Line) /\ e \in Seq(Line)
    BY <1>2
  <2>2. Joined(p) \o e \in Seq(Line)
    BY <2>1, ConcatProperties
  <2> HIDE DEF S
  <2>3. Append(p, e) \in Seq(S) /\ Joined(Append(p, e)) = Joined(p) \o e
    BY JoinOne, AppendProperties
  <2> QED
    BY <2>2, <2>3
<1>3. Seq(S) \subseteq T
  <2> HIDE DEF T, S
  <2> QED
    BY <1>1, <1>2, Joins!GrowingSeq
<1> QED
  BY <1>3

\* What was read of the k days from first on.
Parts(counts, first, k) ==
  [i \in 1..k |-> LinesOf(first + i - 1, counts[first + i - 1])]

LEMMA PartsIn ==
  ASSUME NEW counts, NEW first \in Int, NEW k \in Nat,
         \A d \in first..(first + k - 1) : counts[d] \in Nat
  PROVE  Parts(counts, first, k) \in Seq(Seq(Line))
<1>1. ASSUME NEW i \in 1..k PROVE LinesOf(first + i - 1, counts[first + i - 1]) \in Seq(Line)
  <2>1. first + i - 1 \in first..(first + k - 1) /\ first + i - 1 \in Int
    OBVIOUS
  <2> QED
    BY <2>1, LinesIn
<1> QED
  BY <1>1 DEF Parts

\* One more day.
LEMMA PartsOne ==
  ASSUME NEW counts, NEW first \in Int, NEW k \in Nat, NEW more, NEW count \in Nat,
         \A d \in first..(first + k - 1) : counts[d] \in Nat /\ more[d] = counts[d],
         more[first + k] = count
  PROVE  Parts(more, first, k + 1) = Append(Parts(counts, first, k), LinesOf(first + k, count))
<1> DEFINE S == Seq(Line)
           f == Parts(counts, first, k)
           g == Parts(more, first, k + 1)
           x == LinesOf(first + k, count)
<1>1. f \in Seq(S) /\ Len(f) = k /\ \A i \in 1..k : f[i] = LinesOf(first + i - 1, counts[first + i - 1])
  <2>1. f \in Seq(S)
    BY PartsIn
  <2> QED
    BY <2>1 DEF Parts
<1>2. \A d \in first..(first + (k + 1) - 1) : more[d] \in Nat
  <2>1. \A d \in first..(first + (k + 1) - 1) : d \in first..(first + k - 1) \/ d = first + k
    OBVIOUS
  <2> QED
    BY <2>1
<1>3. /\ g \in Seq(S) /\ Len(g) = k + 1
      /\ \A i \in 1..(k + 1) : g[i] = LinesOf(first + i - 1, more[first + i - 1])
  <2>1. g \in Seq(S)
    BY <1>2, PartsIn
  <2> QED
    BY <2>1 DEF Parts
<1>4. x \in S
  BY LinesIn
<1> HIDE DEF S, f, g, x
<1>5. /\ Append(f, x) \in Seq(S) /\ Len(Append(f, x)) = k + 1
      /\ Append(f, x)[k + 1] = x /\ \A i \in 1..k : Append(f, x)[i] = f[i]
  BY <1>1, <1>4, AppendProperties
<1>6. ASSUME NEW i \in 1..(k + 1) PROVE g[i] = Append(f, x)[i]
  <2>1. CASE i = k + 1
    <3>1. first + i - 1 = first + k
      BY <2>1
    <3> QED
      BY <1>3, <1>5, <2>1, <3>1 DEF x
  <2>2. CASE i # k + 1
    <3>0. i \in 1..k
      BY <2>2
    <3>1. first + i - 1 \in first..(first + k - 1)
      BY <3>0
    <3>2. more[first + i - 1] = counts[first + i - 1]
      BY <3>1
    <3> QED
      BY <1>1, <1>3, <1>5, <3>0, <3>2
  <2> QED
    BY <2>1, <2>2
<1>7. g = Append(f, x)
  BY <1>3, <1>5, <1>6, SeqEqual
<1> QED
  BY <1>7 DEF f, g, x

\* The ring has the newest of what was read so far.
RingInv ==
  span # 0 => /\ \A d \in DOMAIN daily : daily[d] \in Nat
              /\ HoldsLast(ring, Read)

LEMMA ReadIs ==
  /\ Read = Joined(Parts(daily, From(date, span), next - From(date, span)))
  /\ Read' = Joined(Parts(daily', From(date', span'), next' - From(date', span')))
BY DEF Read, Parts

LEMMA AskRing ==
  ASSUME PanelInv, Ask PROVE RingInv'
<1>1. PICK d \in Dates, s \in Spans, l \in Limits :
        date' = d /\ span' = s /\ next' = From(d, s) /\ ring' = NewRing(l)
  BY DEF Ask
<1>2. daily' = <<>> /\ d \in Nat /\ s \in Nat /\ l \in Nat \ {0}
  BY UsageAssumption, PanelAssumption DEF Ask, PanelInv, Reading, Asked
<1>3. Read' = <<>>
  <2>1. next' - From(date', span') = 0
    BY <1>1, <1>2 DEF From
  <2>2. Parts(daily', From(date', span'), 0) = <<>>
    BY DEF Parts
  <2> QED
    BY <2>1, <2>2, ReadIs, FoldNone
<1>4. HoldsLast(ring', <<>>)
  BY <1>1, <1>2, EmptySeq DEF HoldsLast, NewRing
<1> QED
  BY <1>2, <1>3, <1>4 DEF RingInv

LEMMA ScanRing ==
  ASSUME PanelInv, RingInv, ScanFile PROVE RingInv'
<1> DEFINE first == From(date, span)
           k == next - first
<1>1. /\ span # 0 /\ next' = next + 1 /\ UNCHANGED <<date, span>>
      /\ file \in [Days -> Nat] /\ date \in Nat /\ span \in Nat
  BY UsageAssumption DEF ScanFile, PanelInv, AgeInv, Reading, Asked
<1>2. /\ first \in Int /\ next \in Int /\ first <= next
      /\ DOMAIN daily = first..(next - 1)
      /\ \A d \in DOMAIN daily : daily[d] \in Nat
      /\ HoldsLast(ring, Read)
  BY <1>1 DEF PanelInv, Reading, ReadSoFar, RingInv, From
<1>3. PICK count \in 0..(IF next \in Days THEN file[next] ELSE 0) :
        /\ ring' = RingAll(ring, LinesOf(next, count))
        /\ daily' = [d \in DOMAIN daily \cup {next} |-> IF d = next THEN count ELSE daily[d]]
  BY DEF ScanFile
<1>4. count \in Nat
  BY <1>1, <1>3
<1> HIDE DEF first
<1>5. k \in Nat /\ next = first + k /\ next' - first = k + 1 /\ first + k - 1 = next - 1
  BY <1>1, <1>2
<1>6. Read = Joined(Parts(daily, first, k)) /\ Read' = Joined(Parts(daily', first, k + 1))
  BY <1>1, <1>5, ReadIs DEF first
<1> HIDE DEF k
<1>7. \A d \in first..(first + k - 1) : daily[d] \in Nat /\ daily'[d] = daily[d]
  <2>1. \A d \in first..(next - 1) : d # next
    BY <1>2
  <2> QED
    BY <1>2, <1>3, <1>5, <2>1
<1>8. daily'[first + k] = count
  BY <1>3, <1>5
<1>9. Parts(daily', first, k + 1) = Append(Parts(daily, first, k), LinesOf(next, count))
  <2>1. Parts(daily', first, k + 1) = Append(Parts(daily, first, k), LinesOf(first + k, count))
    <3>1. \A d \in first..(first + k - 1) : daily[d] \in Nat /\ daily'[d] = daily[d]
      BY <1>7
    <3>2. first \in Int /\ k \in Nat /\ daily'[first + k] = count /\ count \in Nat
      BY <1>2, <1>4, <1>5, <1>8
    <3> QED
      BY <3>1, <3>2, PartsOne
  <2> QED
    BY <1>5, <2>1
<1>10. Parts(daily, first, k) \in Seq(Seq(Line)) /\ LinesOf(next, count) \in Seq(Line)
  BY <1>2, <1>4, <1>5, <1>7, PartsIn, LinesIn
<1>11. Read' = Read \o LinesOf(next, count)
  BY <1>6, <1>9, <1>10, JoinOne
<1>12. Read \in Seq(Line)
  BY <1>6, <1>10, JoinedIn
<1>13. HoldsLast(ring', Read')
  BY <1>2, <1>3, <1>10, <1>11, <1>12, AllHold
<1>14. \A d \in DOMAIN daily' : daily'[d] \in Nat
  BY <1>2, <1>3, <1>4
<1> QED
  BY <1>13, <1>14 DEF RingInv

LEMMA RingStep ==
  ASSUME PanelInv, RingInv, [NextP]_pvars PROVE RingInv'
<1>1. CASE Ask
  BY <1>1, AskRing
<1>2. CASE ScanFile
  BY <1>2, ScanRing
<1>3. CASE NoQuestion
  BY <1>3 DEF NoQuestion, RingInv
<1>4. CASE UNCHANGED panel
  <2>1. UNCHANGED <<span, ring, daily, date, next>> /\ Read' = Read
    BY <1>4, ReadIs DEF panel
  <2> QED
    BY <2>1 DEF RingInv
<1> QED
  BY <1>1, <1>2, <1>3, <1>4 DEF NextP, Panel, Answered, pvars

\* The lines that the panel shows are the newest of those that were read, for any
\* limit, any files and any fill of the ring.
THEOREM NewestAreShown == SpecP => []RingShowsNewest
<1>1. InitP => PanelInv /\ RingInv
  BY PanelInit DEF InitP, RingInv
<1>2. PanelInv /\ RingInv /\ [NextP]_pvars => PanelInv' /\ RingInv'
  BY PanelStep, RingStep
<1>3. PanelInv /\ RingInv => RingShowsNewest
  <2> SUFFICES ASSUME PanelInv, RingInv, Shown PROVE RingShowsNewest
    BY DEF RingShowsNewest
  <2> DEFINE first == From(date, span)
             k == next - first
  <2>1. /\ first \in Int /\ next \in Int /\ first <= next /\ DOMAIN daily = first..(next - 1)
        /\ \A d \in DOMAIN daily : daily[d] \in Nat
        /\ HoldsLast(ring, Read)
    BY UsageAssumption DEF PanelInv, Reading, Asked, ReadSoFar, RingInv, From, Shown
  <2> HIDE DEF first
  <2>2. k \in Nat /\ first + k - 1 = next - 1
    BY <2>1
  <2>3. Read = Joined(Parts(daily, first, k))
    BY ReadIs DEF first
  <2> HIDE DEF k
  <2>4. Parts(daily, first, k) \in Seq(Seq(Line))
    BY <2>1, <2>2, PartsIn
  <2>5. Read \in Seq(Line)
    BY <2>3, <2>4, JoinedIn
  <2> QED
    BY <2>1, <2>5, EntriesAreNewest DEF RingShowsNewest
<1> QED
  BY <1>1, <1>2, <1>3, PTL DEF SpecP
=============================================================================
