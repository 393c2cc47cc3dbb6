---------------------------- MODULE UsageArchive ----------------------------
(***************************************************************************)
(* The usage log (internal/server/usage.go).  Every request appends a line *)
(* to the file of its day; once a day the scheduler folds the files older  *)
(* than the retention into one summary per month, and deletes them.        *)
(*                                                                         *)
(* A day is a number, a file is the number of its lines (0: there is none) *)
(* and of the aggregate only the number of requests is kept: the other     *)
(* figures are added up the same way.  The archiver is one goroutine       *)
(* (scheduler.Run) and takes no lock, so every file operation of it is a   *)
(* step: requests are recorded in between, the process may stop, and the   *)
(* operations named in Faults may fail.                                    *)
(***************************************************************************)
EXTENDS Integers, FiniteSetsExt

CONSTANTS
  Days,        \* dates
  Months,
  Month,       \* the month of each date
  Retention,   \* UsageRetentionDays, when it turns the archive on
  Faults,      \* the operations that may fail
  MaxFaults,   \* bound on failures and crashes
  MaxRecords   \* bound on the requests of a day

ASSUME UsageAssumption ==
  /\ Days \subseteq Nat /\ 1 \in Days
  /\ Month \in [Days -> Months]
  /\ Retention \in Nat \ {0}
  /\ Faults \subseteq {"load", "scan", "write", "remove", "read", "crash"}
  /\ MaxFaults \in Nat /\ MaxRecords \in Nat

NotArchived == 0 - 1

VARIABLES
  today,
  recorded,  \* the lines appended on each day, ever
  file,      \* usage-<day>.jsonl
  monthly,   \* usage-monthly-<month>.json
  pc,        \* where the archiver is
  queue,     \* the days it has still to look at
  month, work, done,  \* the month in hand, its summary in memory, and the days
                      \* that were added to it
  failures

locals == <<pc, queue, month, work, done>>
uvars == <<today, recorded, file, monthly, locals, failures>>

Summary == [byDay: [Days -> Nat \cup {NotArchived}], requests: Nat]

NewSummary == [byDay |-> [d \in Days |-> NotArchived], requests |-> 0]

HasDay(s, d) == s.byDay[d] # NotArchived

AddDay(s, d, n) ==
  [byDay |-> [s.byDay EXCEPT ![d] = n], requests |-> s.requests + n]

TypeOKU ==
  /\ today \in Days
  /\ recorded \in [Days -> Nat]
  /\ file \in [Days -> Nat]
  /\ monthly \in [Months -> Summary]
  /\ pc \in {"idle", "months", "scan", "remove"}
  /\ queue \subseteq Days
  /\ month \in Months
  /\ work \in Summary
  /\ done \subseteq Days
  /\ failures \in Nat

InitU ==
  /\ today = 1
  /\ recorded = [d \in Days |-> 0]
  /\ file = [d \in Days |-> 0]
  /\ monthly = [m \in Months |-> NewSummary]
  /\ pc = "idle" /\ queue = {} /\ done = {}
  /\ month = Month[1] /\ work = NewSummary
  /\ failures = 0

Fails(operation) ==
  /\ operation \in Faults /\ failures < MaxFaults
  /\ failures' = failures + 1

-----------------------------------------------------------------------------
\* recordUsage; a line that could not be written is only logged.
Record ==
  /\ recorded[today] < MaxRecords
  /\ recorded' = [recorded EXCEPT ![today] = @ + 1]
  /\ file' = [file EXCEPT ![today] = @ + 1]
  /\ UNCHANGED <<today, monthly, locals, failures>>

NewDay ==
  /\ today + 1 \in Days
  /\ today' = today + 1
  /\ UNCHANGED <<recorded, file, monthly, locals, failures>>

-----------------------------------------------------------------------------
(* usageArchiveOlderThan *)

\* Mutants of Old: a file goes a day too soon; only the day that just fell due
\* is looked at.
OldTooSoon(d, early) ==
  file[d] > 0 /\ d < today /\ today - early - d >= Retention
OldJustNow(d, early) ==
  file[d] > 0 /\ d < today /\ today - early - d = Retention + 1

\* The age is counted from midnight UTC, the day is Beijing's: before eight in
\* the morning a file is a day younger.
Old(d, early) ==
  file[d] > 0 /\ d < today /\ today - early - d > Retention

Begin ==
  /\ pc = "idle"
  /\ \E early \in {0, 1} : queue' = {d \in Days : Old(d, early)}
  /\ pc' = "months"
  /\ UNCHANGED <<today, recorded, file, monthly, month, work, done, failures>>

OfMonth(m) == {d \in queue : Month[d] = m}

\* Mutant of LoadMonth: a summary that cannot be read is taken for a new one.
LoadMonthBlank(m) ==
  /\ pc = "months" /\ OfMonth(m) # {}
  /\ month' = m /\ done' = {} /\ pc' = "scan"
  /\ \/ work' = monthly[m] /\ UNCHANGED failures
     \/ Fails("load") /\ work' = NewSummary
  /\ UNCHANGED <<today, recorded, file, monthly, queue>>

\* The months come in any order; one that cannot be read is skipped.
LoadMonth(m) ==
  /\ pc = "months" /\ OfMonth(m) # {}
  /\ \/ /\ month' = m /\ work' = monthly[m] /\ done' = {}
        /\ pc' = "scan"
        /\ UNCHANGED <<queue, failures>>
     \/ /\ Fails("load")
        /\ queue' = queue \ OfMonth(m)
        /\ UNCHANGED <<pc, month, work, done>>
  /\ UNCHANGED <<today, recorded, file, monthly>>

\* Mutant of ScanDay: a day that is in the summary is added again.
ScanDayAgain(d) ==
  /\ pc = "scan" /\ d \in OfMonth(month)
  /\ \A e \in OfMonth(month) : d <= e
  /\ queue' = queue \ {d}
  /\ work' = AddDay(work, d, file[d]) /\ done' = done \cup {d}
  /\ UNCHANGED <<today, recorded, file, monthly, pc, month, failures>>

\* A day that was archived before is left alone.  The scan may stop early, at a
\* line of more than 1 MB or at a read error: that is a warning, which the
\* archiver drops.
ScanDay(d) ==
  /\ pc = "scan" /\ d \in OfMonth(month)
  /\ \A e \in OfMonth(month) : d <= e
  /\ queue' = queue \ {d}
  /\ \/ HasDay(work, d) /\ UNCHANGED <<work, done, failures>>
     \/ /\ ~HasDay(work, d) /\ done' = done \cup {d}
        /\ \/ work' = AddDay(work, d, file[d]) /\ UNCHANGED failures
           \/ \E read \in 0..(file[d] - 1) :
                Fails("scan") /\ work' = AddDay(work, d, read)
  /\ UNCHANGED <<today, recorded, file, monthly, pc, month>>

\* Mutant of WriteMonth: its failure goes unnoticed.
WriteMonthUnchecked ==
  /\ pc = "scan" /\ OfMonth(month) = {}
  /\ \/ done = {} /\ pc' = "months" /\ UNCHANGED <<monthly, failures>>
     \/ /\ done # {} /\ pc' = "remove"
        /\ \/ monthly' = [monthly EXCEPT ![month] = work] /\ UNCHANGED failures
           \/ Fails("write") /\ UNCHANGED monthly
  /\ UNCHANGED <<today, recorded, file, queue, month, work, done>>

\* A temporary file and a rename: the summary is there as a whole or not at
\* all.  If not, the files of the month stay.
WriteMonth ==
  /\ pc = "scan" /\ OfMonth(month) = {}
  /\ \/ done = {} /\ pc' = "months" /\ UNCHANGED <<monthly, failures>>
     \/ /\ done # {} /\ pc' = "remove"
        /\ monthly' = [monthly EXCEPT ![month] = work] /\ UNCHANGED failures
     \/ done # {} /\ Fails("write") /\ pc' = "months" /\ UNCHANGED monthly
  /\ UNCHANGED <<today, recorded, file, queue, month, work, done>>

\* A file that cannot be removed is logged and passed over.
RemoveDay(d) ==
  /\ pc = "remove" /\ d \in done
  /\ \A e \in done : d <= e
  /\ done' = done \ {d}
  /\ \/ file' = [file EXCEPT ![d] = 0] /\ UNCHANGED failures
     \/ Fails("remove") /\ UNCHANGED file
  /\ UNCHANGED <<today, recorded, monthly, pc, queue, month, work>>

NextMonth ==
  /\ pc = "remove" /\ done = {} /\ pc' = "months"
  /\ UNCHANGED <<today, recorded, file, monthly, queue, month, work, done, failures>>

Return ==
  /\ pc = "months" /\ queue = {} /\ pc' = "idle"
  /\ UNCHANGED <<today, recorded, file, monthly, queue, month, work, done, failures>>

\* The process stops; the next one has the files.
Crash ==
  /\ Fails("crash")
  /\ pc' = "idle" /\ queue' = {} /\ done' = {}
  /\ UNCHANGED <<today, recorded, file, monthly, month, work>>

-----------------------------------------------------------------------------
Archive ==
  \/ Begin \/ WriteMonth \/ NextMonth \/ Return
  \/ \E m \in Months : LoadMonth(m)
  \/ \E d \in Days : ScanDay(d) \/ RemoveDay(d)

NextU == Record \/ NewDay \/ Archive \/ Crash

\* The scheduler starts the archiver every day, and it returns.
SpecU == InitU /\ [][NextU]_uvars /\ WF_uvars(Archive)

-----------------------------------------------------------------------------
(* Properties *)

Archived(d) == HasDay(monthly[Month[d]], d)

\* What can be known of a day: its count in the summary, else its file.
Counted == [d \in Days |-> IF Archived(d) THEN monthly[Month[d]].byDay[d] ELSE file[d]]

Log == INSTANCE UsageLog WITH counted <- Counted

\* Files, summaries, failures and crashes are not to be seen in the counts: the
\* archive implements UsageLog, as long as no scan stops early.
LogSpec == Log!SpecA

\* The archive never loses a request, whatever fails and wherever the process
\* stops: the lines of a day are in its file, or their number is in the summary
\* ("first write the summary, then remove", usageArchiveOlderThan).
NothingLost ==
  \A d \in Days :
    \/ file[d] = recorded[d]
    \/ file[d] = 0 /\ monthly[Month[d]].byDay[d] = recorded[d]

\* No request is counted twice: a summary is the sum of its days, each as it
\* was recorded, however often the archiver is interrupted and started again.
MonthlyExact ==
  \A m \in Months :
    monthly[m].requests =
      MapThenSumSet(LAMBDA d : recorded[d],
                    {d \in Days : Month[d] = m /\ Archived(d)})

\* Only a file past the retention is removed, also when midnight passes while
\* the archiver is at work.
KeepsRecent ==
  [][\A d \in Days : file[d] > 0 /\ file'[d] = 0 => today - d > Retention]_uvars

\* A failure or a crash is made good by a later day: again and again every day
\* past the retention is in its summary.
OldDaysArchived ==
  []<>(\A d \in Days :
         recorded[d] > 0 /\ today - d > Retention + 1 => Archived(d))
=============================================================================
