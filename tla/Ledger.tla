-------------------------------- MODULE Ledger --------------------------------
(***************************************************************************)
(* The ledger of one account: the credit packs upstream, and the copy that *)
(* the pool keeps of them (internal/pool/pool.go: packs, credits,          *)
(* nearestExpire), which decides whom a request is given.  Three feeds     *)
(* write the copy: the bill at the end of every stream, which carries the  *)
(* total after the charge; the hourly probe of all packs; and the daily    *)
(* check-in round, which reads the total first and the packs afterwards.   *)
(*                                                                         *)
(* A pack is the instant it expires at; no two expire at the same one.     *)
(* Upstream counts in fractions of a credit: Unit of them make one.  The   *)
(* answers of the probes and the bills travel for a while, in any order,   *)
(* and a bill may get lost with its stream.                                *)
(***************************************************************************)
EXTENDS Integers, FiniteSetsExt

CONSTANTS
  Packs,      \* the packs the account may be given
  Limit,      \* credits_limit of each
  Unit,
  Charges,    \* what a request may cost, in fractions
  MaxVersion  \* bound on the changes upstream

ASSUME LedgerAssumption ==
  /\ Packs \subseteq Nat \ {0} /\ Limit \in [Packs -> Nat]
  /\ Unit \in Nat \ {0} /\ Charges \subseteq Nat \ {0}
  /\ MaxVersion \in Nat

VARIABLES
  granted,  \* upstream: the packs the account has
  spent,    \* upstream: of each pack, in fractions
  version,  \* how often that changed
  bills,    \* notify_usage events on their way
  rounds,   \* what the hourly probe and the check-in round are at
  packs,    \* entry.packs: the packs known, and what is used of each
  credits,  \* entry.credits
  nearestExpire,
  applied,  \* history: the version the copy has followed upstream to
  off       \* history: it missed or repeated a step since

upstream == <<granted, spent, version>>
copy == <<packs, credits, nearestExpire>>
lvars == <<upstream, bills, rounds, copy, applied, off>>

Rounds == {"hourly", "checkin"}

\* What PackList makes of upstream's answer: fractions of a credit used are cut
\* off, and packs without a limit left out.
PackList == [p \in {q \in granted : Limit[q] > 0} |-> spent[p] \div Unit]

Remain(used, p) == Limit[p] - used[p]
SumOver(amounts, S) == MapThenSumSet(LAMBDA p : amounts[p], S)
Total(used) == SumOver([p \in DOMAIN used |-> Remain(used, p)], DOMAIN used)
Open(used) == {p \in DOMAIN used : Remain(used, p) > 0}
Nearest(used) == IF Open(used) = {} THEN 0 ELSE Min(Open(used))

\* What is left of each pack and of all of them, in fractions.
Rest == [p \in granted |-> Limit[p] * Unit - spent[p]]
Left == SumOver(Rest, granted)

\* math.Round
Rounded(fractions) == (2 * fractions + Unit) \div (2 * Unit)

NoAnswer == [asked |-> "nothing", list |-> [p \in {} |-> 0], version |-> 0]

InitL ==
  /\ granted = {} /\ spent = [p \in Packs |-> 0] /\ version = 0
  /\ bills = {} /\ rounds = [r \in Rounds |-> NoAnswer]
  /\ packs = [p \in {} |-> 0] /\ credits = 0 /\ nearestExpire = 0
  /\ applied = 0 /\ off = TRUE

-----------------------------------------------------------------------------
(* Upstream *)

Changed == version < MaxVersion /\ version' = version + 1

\* What an amount takes from each pack, the first to expire first.
Taken(rest, amount) ==
  [p \in DOMAIN rest |->
     LET before == SumOver(rest, {q \in DOMAIN rest : q < p})
     IN  Max({0, Min({rest[p], amount - before})})]

Charge(amount) ==
  /\ Changed /\ amount <= Left
  /\ LET taken == Taken(Rest, amount)
     IN  spent' = [p \in Packs |-> spent[p] + IF p \in granted THEN taken[p] ELSE 0]
  /\ bills' = bills \cup {[version |-> version + 1, remain |-> Left - amount]}
  /\ UNCHANGED <<granted, rounds, copy, applied, off>>

\* A check-in or a gift adds a pack, and an old one expires, without a bill.
Grant(p) ==
  /\ Changed /\ p \notin granted /\ spent[p] = 0
  /\ granted' = granted \cup {p}
  /\ UNCHANGED <<spent, bills, rounds, copy, applied, off>>

Expire(p) ==
  /\ Changed /\ p \in granted /\ granted' = granted \ {p}
  /\ spent' = [spent EXCEPT ![p] = Limit[p] * Unit]
  /\ UNCHANGED <<bills, rounds, copy, applied, off>>

-----------------------------------------------------------------------------
(* The bill of a stream *)

\* Mutant of Deducted: the deduction starts from the packs as they were issued.
DeductedAnew(used, amount) ==
  LET taken == Taken([p \in DOMAIN used |-> Limit[p]], amount)
  IN  [p \in DOMAIN used |-> taken[p]]

\* The deduction of ApplyUsageRemain.
Deducted(used, amount) ==
  LET taken == Taken([p \in DOMAIN used |-> Max({0, Remain(used, p)})], amount)
  IN  [p \in DOMAIN used |-> used[p] + taken[p]]

\* Mutant of ApplyUsageRemain: the sort key is left to the probe.
ApplyUsageRemainStale(total) ==
  /\ packs' = Deducted(packs, Max({0, credits - total}))
  /\ credits' = total
  /\ UNCHANGED nearestExpire

\* A total that rose is left to the probe.
ApplyUsageRemain(total) ==
  /\ IF DOMAIN packs # {} /\ credits > total
       THEN /\ packs' = Deducted(packs, credits - total)
            /\ nearestExpire' = Nearest(packs')
       ELSE UNCHANGED <<packs, nearestExpire>>
  /\ credits' = total

Bill(b) ==
  /\ b \in bills /\ bills' = bills \ {b}
  /\ ApplyUsageRemain(Rounded(b.remain))
  /\ applied' = b.version
  /\ off' = (off \/ b.version # applied + 1)
  /\ UNCHANGED <<upstream, rounds>>

\* The stream breaks before its bill, or the client leaves.
Lose(b) ==
  /\ b \in bills /\ bills' = bills \ {b}
  /\ UNCHANGED <<upstream, rounds, copy, applied, off>>

-----------------------------------------------------------------------------
(* The hourly probe and the check-in round *)

Ask(r, what) ==
  rounds' = [rounds EXCEPT ![r] = [asked |-> what, list |-> PackList, version |-> version]]

\* Mutant of SetPacks: the sort key is kept until a pack is used up.
SetPacksKeepNearest(list) ==
  /\ packs' = list /\ credits' = Total(list) /\ UNCHANGED nearestExpire

SetPacks(list) ==
  /\ packs' = list /\ credits' = Total(list) /\ nearestExpire' = Nearest(list)

\* A new round; that of the check-in starts with EntUsage.
Begin(r) ==
  /\ rounds[r].asked = "nothing"
  /\ Ask(r, IF r = "checkin" THEN "total" ELSE "packs")
  /\ UNCHANGED <<upstream, bills, copy, applied, off>>

\* ReenableIfCredits sets the total and leaves the packs; if EntUsage failed the
\* round goes on without it.
Reenable(r) ==
  /\ rounds[r].asked = "total"
  /\ Ask(r, "packs")
  /\ \/ credits' = Total(rounds[r].list) /\ off' = (off \/ credits' # credits)
     \/ UNCHANGED <<credits, off>>
  /\ UNCHANGED <<upstream, bills, packs, nearestExpire, applied>>

\* probeNearestExpire
Probe(r) ==
  /\ rounds[r].asked = "packs"
  /\ rounds' = [rounds EXCEPT ![r] = NoAnswer]
  /\ SetPacks(rounds[r].list)
  /\ applied' = rounds[r].version /\ off' = FALSE
  /\ UNCHANGED <<upstream, bills>>

\* PackList fails, now and then: the copy stays as it was.
ProbeFails(r) ==
  /\ rounds[r].asked = "packs"
  /\ rounds' = [rounds EXCEPT ![r] = NoAnswer]
  /\ UNCHANGED <<upstream, bills, copy, applied, off>>

\* The process stops; state.json has the copy.
Restart ==
  /\ rounds' = [r \in Rounds |-> NoAnswer] /\ bills' = {}
  /\ UNCHANGED <<upstream, copy, applied, off>>

-----------------------------------------------------------------------------
Round(r) == Begin(r) \/ Reenable(r) \/ Probe(r)

NextL ==
  \/ \E amount \in Charges : Charge(amount)
  \/ \E p \in Packs : Grant(p) \/ Expire(p)
  \/ \E b \in bills : Bill(b) \/ Lose(b)
  \/ \E r \in Rounds : Round(r) \/ ProbeFails(r)
  \/ Restart

\* The ticker starts the probe every hour, its calls end, and not all of them
\* fail; a stream ends with its bill or without.
SpecL ==
  /\ InitL /\ [][NextL]_lvars
  /\ WF_lvars(Begin("hourly")) /\ SF_lvars(Probe("hourly"))
  /\ WF_lvars(Round("checkin"))
  /\ WF_lvars(\E b \in bills : Bill(b) \/ Lose(b))

-----------------------------------------------------------------------------
(* Properties *)

\* The key of rule 1 is the expiry of the first open pack that is known, after
\* any order of bills, probes and check-in rounds (pool.go:929, 945).
NearestIsFirstOpen == nearestExpire = Nearest(packs)

\* While every bill arrives in its turn, the copy follows upstream: its total is
\* that of its packs, and it is off by less than a credit for each pack, whatever
\* fractions are cut off or rounded ("FIFO, as upstream charges", pool.go:983).
FollowsUpstream ==
  ~off =>
    /\ credits = Total(packs)
    /\ applied = version =>
         credits * Unit - Left \in (1 - Unit)..((Unit - 1) * Cardinality(granted))

\* Bills that get lost, overtake each other or cross a probe make the copy
\* drift; the probes correct it in the end ("drift is left to the hourly probe",
\* pool.go:984).
EventuallyExact ==
  <>[](packs = PackList /\ credits = Total(PackList) /\ nearestExpire = Nearest(PackList))
=============================================================================
