------------------------------ MODULE UsagePanel ------------------------------
(***************************************************************************)
(* The console's view of the usage log (adminUsage in                      *)
(* internal/server/admin.go, usageScanRange in usage.go): the files of a   *)
(* range of days are read one after the other, while requests are recorded *)
(* and the archiver removes old files.  The counts are summed up by day,   *)
(* the last lines are kept in a ring.  A line is a pair of its day and its *)
(* number in the file.                                                     *)
(***************************************************************************)
EXTENDS UsageArchive, FiniteSets, Sequences, SequencesExt

CONSTANTS
  Dates,     \* the days that are asked for
  Spans,     \* the ranges of the panel, in days
  Limits     \* the numbers of lines it may ask for

ASSUME PanelAssumption ==
  Dates \subseteq Days /\ Spans \subseteq Nat \ {0} /\ Limits \subseteq Nat \ {0}

VARIABLES
  date, span,      \* the question; span 0: there is none
  next,            \* the day to be read next
  ring,            \* usageRing: buf, limit and n
  daily, warned,   \* usageRangeResult; the panel of a single day has no list by
                   \* day, there this is the sum of the one day
  before           \* history: what was recorded when the question came

panel == <<date, span, next, ring, daily, warned, before>>
pvars == <<uvars, panel>>

-----------------------------------------------------------------------------
(* usageRing *)

\* Mutant of RingSlot: the first place is never written again.
RingSlotShifted(count, size) == (count % (size - 1)) + 2

RingSlot(count, size) == (count % size) + 1

NewRing(size) == [buf |-> <<>>, limit |-> size, n |-> 0]

RingAdd(r, line) ==
  [buf |-> IF Len(r.buf) < r.limit THEN Append(r.buf, line)
           ELSE [r.buf EXCEPT ![RingSlot(r.n, r.limit)] = line],
   limit |-> r.limit,
   n |-> r.n + 1]

\* The lines of a file are added one by one.
RingAll(r, lines) == FoldLeft(RingAdd, r, lines)

\* From the newest to the oldest.
Entries(r) ==
  LET start == IF r.n > r.limit THEN r.n % r.limit ELSE 0 IN
  Reverse(SubSeq(r.buf, start + 1, Len(r.buf)) \o SubSeq(r.buf, 1, start))

-----------------------------------------------------------------------------
InitP ==
  /\ InitU
  /\ date = 1 /\ span = 0 /\ next = 1
  /\ ring = NewRing(1) /\ daily = <<>> /\ warned = FALSE
  /\ before = [d \in Days |-> 0]

\* Mutant of From: a day too many.
FromBefore(day, width) == day - width

From(day, width) == day - (width - 1)

\* adminUsage; any day may be asked for, today is the default.
Ask ==
  /\ span = 0
  /\ \E d \in Dates, s \in Spans, l \in Limits :
       date' = d /\ span' = s /\ next' = From(d, s) /\ ring' = NewRing(l)
  /\ before' = recorded
  /\ UNCHANGED <<uvars, daily, warned>>

LinesOf(d, count) == [i \in 1..count |-> <<d, i>>]

\* usageScanFile: a file that is not there counts as a day without requests; one
\* that cannot be read to its end gives a warning.
ScanFile ==
  /\ span # 0 /\ next <= date
  /\ LET size == IF next \in Days THEN file[next] ELSE 0 IN
     \E count \in 0..size :
       /\ count = size \/ "read" \in Faults
       /\ warned' = (warned \/ count # size)
       /\ ring' = RingAll(ring, LinesOf(next, count))
       /\ daily' = [d \in DOMAIN daily \cup {next} |-> IF d = next THEN count ELSE daily[d]]
  /\ next' = next + 1
  /\ UNCHANGED <<uvars, date, span, before>>

Shown == span # 0 /\ next > date

NoQuestion ==
  /\ date' = 1 /\ span' = 0 /\ next' = 1
  /\ ring' = NewRing(1) /\ daily' = <<>> /\ warned' = FALSE
  /\ before' = [d \in Days |-> 0]

Answered == Shown /\ NoQuestion /\ UNCHANGED uvars

Panel == Ask \/ ScanFile \/ Answered

\* A crash takes the question with it.
NextP ==
  \/ (Record \/ NewDay \/ Archive) /\ UNCHANGED panel
  \/ Crash /\ NoQuestion
  \/ Panel

\* The archiver runs as in UsageArchive: the panel only reads.
SpecP == InitP /\ [][NextP]_pvars /\ WF_uvars(Archive)

-----------------------------------------------------------------------------
(* Properties *)

\* All that was read, from the oldest to the newest.
Join(lines, more) == lines \o more
Joined(parts) == FoldLeft(Join, <<>>, parts)
Read == Joined([i \in 1..(next - From(date, span)) |->
                  LET d == From(date, span) + i - 1 IN LinesOf(d, daily[d])])

Newest(lines, count) ==
  SubSeq(lines, IF Len(lines) > count THEN Len(lines) - count + 1 ELSE 1, Len(lines))

\* The lines shown are the newest of those that were read, newest first, at any
\* fill of the ring (usage.go:350).
RingShowsNewest == Shown => Entries(ring) = Reverse(Newest(Read, ring.limit))

\* The range has as many days as was asked for, the last is the date; without a
\* warning no day within the retention misses a request that was recorded before the
\* question came, though the archiver is at work, and none has one that never was.
PanelShowsRecent ==
  Shown =>
    /\ Cardinality(DOMAIN daily) = span /\ date \in DOMAIN daily
    /\ \A d \in Days \cap DOMAIN daily :
         /\ daily[d] <= recorded[d]
         /\ ~warned /\ today - d <= Retention => daily[d] >= before[d]
=============================================================================
