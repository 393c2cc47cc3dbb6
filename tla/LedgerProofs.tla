---------------------------- MODULE LedgerProofs ----------------------------
(***************************************************************************)
(* The copy of the ledger, for any packs, charges and order of the bills,  *)
(* the probes and the check-in rounds: the sort key, and that the copy     *)
(* follows upstream while no bill is missed.                               *)
(***************************************************************************)
EXTENDS Ledger, FiniteSetTheorems, TLAPS

Sums == INSTANCE FoldFacts WITH op <- LAMBDA a, b : b + a,
                                choose <- LAMBDA s : CHOOSE p \in s : TRUE

-----------------------------------------------------------------------------
(* Sums over finite sets *)

LEMMA SumIsFold ==
  ASSUME NEW g, NEW S PROVE SumOver(g, S) = Sums!Fold(0, g, S)
BY DEF SumOver, Sums!Fold, MapThenSumSet, MapThenFoldSet, Sums!MapThenFoldSet

LEMMA SumTerms ==
  ASSUME NEW S
  PROVE  /\ 0 \in Int /\ Sums!Commutes(Int) /\ Sums!Chooses(S)
         /\ Sums!IsFiniteSet(S) <=> IsFiniteSet(S)
BY DEF Sums!Commutes, Sums!Chooses, Sums!IsFiniteSet, IsFiniteSet

LEMMA SumEmpty == ASSUME NEW g PROVE SumOver(g, {}) = 0
BY SumIsFold, Sums!FoldEmpty

LEMMA SumInt ==
  ASSUME NEW S, IsFiniteSet(S), NEW g, \A p \in S : g[p] \in Int
  PROVE  SumOver(g, S) \in Int
BY SumIsFold, SumTerms, Sums!FoldIn

LEMMA SumTake ==
  ASSUME NEW S, IsFiniteSet(S), NEW g, \A p \in S : g[p] \in Int, NEW p \in S
  PROVE  SumOver(g, S) = g[p] + SumOver(g, S \ {p})
<1>1. Sums!Fold(0, g, S) = g[p] + Sums!Fold(0, g, S \ {p})
  BY SumTerms, Sums!FoldAny
<1> QED
  BY <1>1, SumIsFold

LEMMA SumPut ==
  ASSUME NEW S, IsFiniteSet(S), NEW g, NEW p, p \notin S, \A q \in S \cup {p} : g[q] \in Int
  PROVE  SumOver(g, S \cup {p}) = g[p] + SumOver(g, S)
<1>1. IsFiniteSet(S \cup {p}) /\ (S \cup {p}) \ {p} = S
  BY FS_AddElement
<1> QED
  BY <1>1, SumTake

LEMMA SumSame ==
  ASSUME NEW S, IsFiniteSet(S), NEW g, NEW h, \A p \in S : g[p] = h[p]
  PROVE  SumOver(g, S) = SumOver(h, S)
BY SumIsFold, SumTerms, Sums!FoldSame

LEMMA Grow ==
  ASSUME NEW S, IsFiniteSet(S), NEW T, {} \in T,
         \A s \in SUBSET S : \A x \in S \ s : s \in T => s \cup {x} \in T
  PROVE  S \in T
BY SumTerms, Sums!Growing

\* A difference is summed up term by term.
LEMMA SumMinus ==
  ASSUME NEW S, IsFiniteSet(S), NEW f, NEW g, NEW h,
         \A p \in S : f[p] \in Int /\ g[p] \in Int /\ h[p] = f[p] - g[p]
  PROVE  SumOver(h, S) = SumOver(f, S) - SumOver(g, S)
<1> DEFINE T == {s \in SUBSET S : SumOver(h, s) = SumOver(f, s) - SumOver(g, s)}
<1>1. {} \in T
  BY SumEmpty
<1>2. ASSUME NEW s \in SUBSET S, NEW x \in S \ s, s \in T PROVE s \cup {x} \in T
  <2>1. IsFiniteSet(s)
    BY FS_Subset
  <2>2. /\ \A q \in s \cup {x} : f[q] \in Int
        /\ \A q \in s \cup {x} : g[q] \in Int
        /\ \A q \in s \cup {x} : h[q] \in Int
    OBVIOUS
  <2>3. /\ SumOver(f, s \cup {x}) = f[x] + SumOver(f, s)
        /\ SumOver(g, s \cup {x}) = g[x] + SumOver(g, s)
        /\ SumOver(h, s \cup {x}) = h[x] + SumOver(h, s)
    BY <2>1, <2>2, SumPut
  <2>4. SumOver(f, s) \in Int /\ SumOver(g, s) \in Int
    BY <2>1, <2>2, SumInt
  <2>5. SumOver(h, s) = SumOver(f, s) - SumOver(g, s)
    BY <1>2
  <2> QED
    BY <2>3, <2>4, <2>5
<1>3. S \in T
  <2> HIDE DEF T
  <2> QED
    BY <1>1, <1>2, Grow
<1> QED
  BY <1>3

\* A sum of what is not negative.
LEMMA SumNat ==
  ASSUME NEW S, IsFiniteSet(S), NEW g, \A p \in S : g[p] \in Nat
  PROVE  SumOver(g, S) \in Nat
<1> DEFINE T == {s \in SUBSET S : SumOver(g, s) \in Nat}
<1>1. {} \in T
  BY SumEmpty
<1>2. ASSUME NEW s \in SUBSET S, NEW x \in S \ s, s \in T PROVE s \cup {x} \in T
  <2>1. IsFiniteSet(s)
    BY FS_Subset
  <2>2. SumOver(g, s \cup {x}) = g[x] + SumOver(g, s)
    BY <2>1, SumPut
  <2> QED
    BY <1>2, <2>2
<1>3. S \in T
  <2> HIDE DEF T
  <2> QED
    BY <1>1, <1>2, Grow
<1> QED
  BY <1>3

-----------------------------------------------------------------------------
\* Max and Min of two numbers.
LEMMA OfTwo ==
  ASSUME NEW a \in Int, NEW b \in Int
  PROVE  /\ Max({a, b}) = IF a >= b THEN a ELSE b
         /\ Min({a, b}) = IF a <= b THEN a ELSE b
BY DEF Max, Min

\* The last of a finite set of packs.
LEMMA LastPack ==
  ASSUME NEW S, IsFiniteSet(S), S \subseteq Nat, S # {}
  PROVE  \E m \in S : \A q \in S : q <= m
<1> DEFINE T == {s \in SUBSET S : s # {} => \E m \in s : \A q \in s : q <= m}
<1>1. {} \in T
  OBVIOUS
<1>2. ASSUME NEW s \in SUBSET S, NEW x \in S \ s, s \in T PROVE s \cup {x} \in T
  <2>1. CASE s = {}
    <3>1. x \in Nat /\ x <= x
      OBVIOUS
    <3> QED
      BY <2>1, <3>1
  <2>2. CASE s # {}
    <3>1. PICK m \in s : \A q \in s : q <= m
      BY <1>2, <2>2
    <3>2. m \in Nat /\ x \in Nat /\ \A q \in s : q \in Nat
      OBVIOUS
    <3>3. CASE x <= m
      <4>1. m \in s \cup {x} /\ \A q \in s \cup {x} : q <= m
        BY <3>1, <3>3
      <4> QED
        BY <4>1
    <3>4. CASE m <= x
      <4>1. x \in s \cup {x} /\ \A q \in s \cup {x} : q <= x
        BY <3>1, <3>2, <3>4
      <4> QED
        BY <4>1
    <3> QED
      BY <3>2, <3>3, <3>4
  <2> QED
    BY <2>1, <2>2
<1>3. S \in T
  <2> HIDE DEF T
  <2> QED
    BY <1>1, <1>2, Grow
<1> QED
  BY <1>3

AtMost(amount, n) == IF amount <= n THEN amount ELSE n

\* What an amount takes from one pack, if the packs before it have `before`.
LEMMA TakenOfOne ==
  ASSUME NEW have \in Nat, NEW before \in Nat, NEW amount \in Nat,
         NEW part, part = Max({0, Min({have, amount - before})})
  PROVE  /\ part \in Nat /\ part <= have
         /\ part + AtMost(amount, before) = AtMost(amount, before + have)
<1>1. Min({have, amount - before}) = IF have <= amount - before THEN have ELSE amount - before
  <2>1. have \in Int /\ amount - before \in Int
    OBVIOUS
  <2> QED
    BY <2>1, OfTwo
<1>2. Min({have, amount - before}) \in Int
  BY <1>1
<1>3. Max({0, Min({have, amount - before})})
        = IF 0 >= Min({have, amount - before}) THEN 0 ELSE Min({have, amount - before})
  BY <1>2, OfTwo
<1> QED
  BY <1>1, <1>3 DEF AtMost

\* Of the packs up to any one, the first to expire first, an amount takes all that
\* they have or what it is itself: no pack is charged before an earlier one is empty,
\* and the charges sum up to the amount.
LEMMA TakenFacts ==
  ASSUME NEW rest, NEW amount \in Nat,
         DOMAIN rest \in SUBSET Nat, IsFiniteSet(DOMAIN rest),
         \A p \in DOMAIN rest : rest[p] \in Nat
  PROVE  /\ DOMAIN Taken(rest, amount) = DOMAIN rest
         /\ \A p \in DOMAIN rest : /\ Taken(rest, amount)[p] \in Nat
                                   /\ Taken(rest, amount)[p] <= rest[p]
         /\ amount <= SumOver(rest, DOMAIN rest)
              => SumOver(Taken(rest, amount), DOMAIN rest) = amount
<1> DEFINE D == DOMAIN rest
           taken == Taken(rest, amount)
           Before(p) == {q \in D : q < p}
           Bad == {s \in SUBSET D : /\ \A p \in s : \A q \in D : q < p => q \in s
                                    /\ SumOver(taken, s) # AtMost(amount, SumOver(rest, s))}
<1>1. DOMAIN taken = D
  BY DEF Taken
<1>2. ASSUME NEW s \in SUBSET D PROVE IsFiniteSet(s) /\ SumOver(rest, s) \in Nat
  <2>1. IsFiniteSet(s)
    BY FS_Subset
  <2> QED
    BY <2>1, SumNat
<1>3. ASSUME NEW p \in D
      PROVE /\ taken[p] \in Nat /\ taken[p] <= rest[p]
            /\ taken[p] + AtMost(amount, SumOver(rest, Before(p))) = AtMost(amount, SumOver(rest, Before(p)) + rest[p])
  <2>1. SumOver(rest, Before(p)) \in Nat /\ rest[p] \in Nat
    BY <1>2
  <2>2. taken[p] = Max({0, Min({rest[p], amount - SumOver(rest, Before(p))})})
    BY DEF Taken
  <2> HIDE DEF Before, taken
  <2> QED
    BY <2>1, <2>2, TakenOfOne
<1>4. ASSUME Bad # {} PROVE FALSE
  <2>1. PICK s \in Bad : \A t \in Bad : t \subseteq s => t = s
    <3>1. Bad \in SUBSET SUBSET D
      OBVIOUS
    <3> HIDE DEF Bad
    <3> QED
      BY <1>4, <3>1, SumTerms, Sums!Smallest
  <2>2. s \in SUBSET D /\ IsFiniteSet(s) /\ \A p \in s : \A q \in D : q < p => q \in s
    BY <1>2
  <2>3. s # {}
    BY SumEmpty DEF AtMost
  <2>4. PICK m \in s : \A q \in s : q <= m
    <3>1. s \subseteq Nat
      BY <2>2
    <3> QED
      BY <2>2, <2>3, <3>1, LastPack
  <2>5. Before(m) = s \ {m}
    BY <2>2, <2>4
  <2>6. Before(m) \in SUBSET D /\ Before(m) \subseteq s /\ Before(m) # s
        /\ \A p \in Before(m) : \A q \in D : q < p => q \in Before(m)
    BY <2>4
  <2>7. SumOver(taken, Before(m)) = AtMost(amount, SumOver(rest, Before(m)))
    BY <2>1, <2>6
  <2>8. /\ SumOver(rest, s) = rest[m] + SumOver(rest, s \ {m})
        /\ SumOver(taken, s) = taken[m] + SumOver(taken, s \ {m})
    <3> HIDE DEF taken, Bad, Before
    <3>1. ASSUME NEW p \in s PROVE rest[p] \in Int /\ taken[p] \in Int
      <4>1. p \in D
        BY <2>2
      <4> QED
        BY <1>3, <4>1
    <3> QED
      BY <2>2, <2>4, <3>1, SumTake
  <2>9. rest[m] \in Nat /\ SumOver(rest, Before(m)) \in Nat /\ taken[m] \in Nat
    BY <1>2, <1>3, <2>2, <2>6
  <2>10. taken[m] + AtMost(amount, SumOver(rest, Before(m))) = AtMost(amount, SumOver(rest, Before(m)) + rest[m])
    BY <1>3, <2>2
  <2>11. SumOver(taken, s) = AtMost(amount, SumOver(rest, s))
    <3>1. AtMost(amount, SumOver(rest, Before(m))) \in Int
      BY <2>9 DEF AtMost
    <3> HIDE DEF taken, Before
    <3> QED
      BY <2>5, <2>7, <2>8, <2>9, <2>10, <3>1
  <2> QED
    BY <2>1, <2>11
<1>5. SumOver(taken, D) = AtMost(amount, SumOver(rest, D))
  BY <1>4
<1> QED
  BY <1>1, <1>3, <1>5 DEF AtMost

-----------------------------------------------------------------------------
\* A copy of packs, as PackList makes it and the deduction keeps it.
IsCopy(used) ==
  /\ DOMAIN used \in SUBSET Packs /\ IsFiniteSet(DOMAIN used)
  /\ used = [p \in DOMAIN used |-> used[p]]
  /\ \A p \in DOMAIN used : used[p] \in Nat /\ used[p] <= Limit[p]

\* A deduction keeps a copy one, and takes the amount from its total, if it is there.
LEMMA CopyFacts ==
  ASSUME NEW used, IsCopy(used)
  PROVE  /\ \A p \in DOMAIN used : Remain(used, p) \in Nat
         /\ Total(used) \in Nat
<1>1. ASSUME NEW p \in DOMAIN used PROVE Remain(used, p) \in Nat
  BY LedgerAssumption DEF IsCopy, Remain
<1>2. Total(used) \in Nat
  BY <1>1, SumNat DEF Total, IsCopy
<1> QED
  BY <1>1, <1>2

LEMMA DeductedFacts ==
  ASSUME NEW used, IsCopy(used), NEW amount \in Nat
  PROVE  /\ IsCopy(Deducted(used, amount))
         /\ amount <= Total(used) => Total(Deducted(used, amount)) = Total(used) - amount
<1> DEFINE D == DOMAIN used
           rest == [p \in D |-> Max({0, Remain(used, p)})]
           taken == Taken(rest, amount)
           left == [p \in D |-> Remain(used, p)]
           new == Deducted(used, amount)
<1>1. D \in SUBSET Packs /\ D \in SUBSET Nat /\ IsFiniteSet(D)
  BY LedgerAssumption DEF IsCopy
<1>2. ASSUME NEW p \in D
      PROVE /\ rest[p] = left[p] /\ left[p] = Limit[p] - used[p] /\ left[p] \in Nat
            /\ used[p] \in Nat /\ Limit[p] \in Nat
  <2>1. Remain(used, p) \in Nat
    BY CopyFacts
  <2>2. Max({0, Remain(used, p)}) = Remain(used, p)
    BY <2>1, OfTwo
  <2>3. used[p] \in Nat /\ Limit[p] \in Nat
    BY <1>1, LedgerAssumption DEF IsCopy
  <2> QED
    BY <2>1, <2>2, <2>3 DEF Remain
<1>3. /\ DOMAIN taken = D
      /\ \A p \in D : taken[p] \in Nat /\ taken[p] <= rest[p]
      /\ amount <= SumOver(rest, D) => SumOver(taken, D) = amount
  <2>1. DOMAIN rest = D /\ \A p \in D : rest[p] \in Nat
    BY <1>2
  <2> HIDE DEF rest
  <2> QED
    BY <1>1, <2>1, TakenFacts
<1>4. new = [p \in D |-> used[p] + taken[p]]
  BY DEF Deducted
<1>5. ASSUME NEW p \in D PROVE new[p] \in Nat /\ new[p] <= Limit[p]
  <2>1. new[p] = used[p] + taken[p]
    BY <1>4
  <2> HIDE DEF new, taken, rest, left
  <2> QED
    BY <1>2, <1>3, <2>1
<1>6. IsCopy(new)
  <2>1. DOMAIN new = D /\ new = [p \in D |-> new[p]]
    BY <1>4
  <2> HIDE DEF new
  <2> QED
    BY <1>1, <1>5, <2>1 DEF IsCopy
<1>7. SumOver(rest, D) = Total(used) /\ Total(used) = SumOver(left, D)
  <2>1. SumOver(rest, D) = SumOver(left, D)
    <3> HIDE DEF rest, left
    <3> QED
      BY <1>1, <1>2, SumSame
  <2> QED
    BY <2>1 DEF Total
<1>8. Total(new) = SumOver(left, D) - SumOver(taken, D)
  <2> DEFINE left2 == [p \in D |-> Remain(new, p)]
  <2>1. ASSUME NEW p \in D
        PROVE left[p] \in Int /\ taken[p] \in Int /\ left2[p] = left[p] - taken[p]
    <3>1. left2[p] = Limit[p] - (used[p] + taken[p])
      BY <1>4 DEF Remain
    <3> HIDE DEF left, left2, taken, rest
    <3> QED
      BY <1>2, <1>3, <3>1
  <2>2. Total(new) = SumOver(left2, D)
    BY <1>4 DEF Total
  <2> HIDE DEF left, left2, taken, new
  <2> QED
    BY <1>1, <2>1, <2>2, SumMinus
<1> HIDE DEF rest, left, taken, new
<1>9. amount <= Total(used) => Total(new) = Total(used) - amount
  BY <1>3, <1>7, <1>8
<1> QED
  BY <1>6, <1>9 DEF new

-----------------------------------------------------------------------------
(* Fractions *)

LEMMA Divided ==
  ASSUME NEW n \in Nat, NEW d \in Nat \ {0}
  PROVE  /\ n \div d \in Nat
         /\ d * (n \div d) <= n /\ n - d * (n \div d) <= d - 1
OBVIOUS

LEMMA RoundedFacts ==
  ASSUME NEW x \in Nat
  PROVE  /\ Rounded(x) \in Nat
         /\ 2 * (Rounded(x) * Unit - x) <= Unit
         /\ 2 * (x - Rounded(x) * Unit) <= Unit - 1
<1> DEFINE d == 2 * Unit
           n == 2 * x + Unit
           r == Rounded(x)
<1>1. Unit \in Nat \ {0} /\ d \in Nat \ {0} /\ n \in Nat
  BY LedgerAssumption
<1>2. r = n \div d
  BY DEF Rounded
<1>3. r \in Nat /\ d * r <= n /\ n - d * r <= d - 1
  <2> HIDE DEF d, n
  <2> QED
    BY <1>1, <1>2, Divided
<1>4. d * r = 2 * (r * Unit)
  <2> HIDE DEF r
  <2> QED
    BY <1>1, <1>3
<1>5. r * Unit \in Nat
  BY <1>1, <1>3
<1> HIDE DEF r
<1> QED
  BY <1>1, <1>3, <1>4, <1>5 DEF r

LEMMA RoundedBelow ==
  ASSUME NEW x \in Nat, NEW c \in Int, x <= c * Unit
  PROVE  Rounded(x) <= c
<1> DEFINE r == Rounded(x)
<1>1. Unit \in Nat \ {0} /\ r \in Nat /\ 2 * (r * Unit - x) <= Unit
  BY RoundedFacts, LedgerAssumption
<1> HIDE DEF r
<1>2. ASSUME r >= c + 1 PROVE FALSE
  <2>1. r * Unit >= (c + 1) * Unit
    BY <1>1, <1>2
  <2>2. (c + 1) * Unit = c * Unit + Unit /\ c * Unit \in Int /\ r * Unit \in Int
    BY <1>1
  <2> QED
    BY <1>1, <2>1, <2>2
<1> QED
  BY <1>1, <1>2 DEF r

LEMMA RoundedMonotone ==
  ASSUME NEW x \in Nat, NEW y \in Nat, x <= y
  PROVE  Rounded(x) <= Rounded(y)
<1> DEFINE r == Rounded(x)
           s == Rounded(y)
<1>1. /\ Unit \in Nat \ {0} /\ r \in Nat /\ s \in Nat
      /\ 2 * (r * Unit - x) <= Unit /\ 2 * (y - s * Unit) <= Unit - 1
  BY RoundedFacts, LedgerAssumption
<1> HIDE DEF r, s
<1>2. ASSUME r >= s + 1 PROVE FALSE
  <2>1. r * Unit >= (s + 1) * Unit
    BY <1>1, <1>2
  <2>2. (s + 1) * Unit = s * Unit + Unit /\ s * Unit \in Int /\ r * Unit \in Int
    BY <1>1
  <2> QED
    BY <1>1, <2>1, <2>2
<1> QED
  BY <1>1, <1>2 DEF r, s

-----------------------------------------------------------------------------
UpstreamOK ==
  /\ granted \in SUBSET Packs /\ IsFiniteSet(granted)
  /\ spent \in [Packs -> Nat] /\ \A p \in Packs : spent[p] <= Limit[p] * Unit

\* The fractions that PackList cuts off: less than a credit of each pack.
LEMMA ListFacts ==
  ASSUME UpstreamOK
  PROVE  /\ IsCopy(PackList) /\ Left \in Nat
         /\ \A p \in granted : Rest[p] \in Nat
         /\ Left <= Total(PackList) * Unit
         /\ Total(PackList) * Unit - Left <= (Unit - 1) * Cardinality(granted)
<1> DEFINE K(s) == {q \in s : Limit[q] > 0}
           list == PackList
           rem == [p \in K(granted) |-> Remain(list, p)]
           tot(s) == SumOver(rem, K(s))
           lft(s) == SumOver(Rest, s)
           Near(s) == /\ lft(s) <= tot(s) * Unit
                      /\ tot(s) * Unit - lft(s) <= (Unit - 1) * Cardinality(s)
           T == {s \in SUBSET granted : Near(s)}
<1>1. Unit \in Nat \ {0} /\ granted \in SUBSET Packs /\ IsFiniteSet(granted)
  BY LedgerAssumption DEF UpstreamOK
<1>2. ASSUME NEW p \in granted
      PROVE /\ Limit[p] \in Nat /\ spent[p] \in Nat /\ spent[p] <= Limit[p] * Unit
            /\ Limit[p] * Unit \in Nat
            /\ Rest[p] = Limit[p] * Unit - spent[p] /\ Rest[p] \in Nat
  <2>1. Limit[p] \in Nat /\ spent[p] \in Nat /\ spent[p] <= Limit[p] * Unit
    BY <1>1, LedgerAssumption DEF UpstreamOK
  <2>2. Limit[p] * Unit \in Nat
    BY <1>1, <2>1
  <2> QED
    BY <2>1, <2>2 DEF Rest
<1>3. DOMAIN list = K(granted) /\ list = [p \in K(granted) |-> spent[p] \div Unit]
  BY DEF PackList
<1>4. ASSUME NEW p \in K(granted)
      PROVE /\ list[p] \in Nat /\ list[p] <= Limit[p] /\ rem[p] = Limit[p] - list[p]
            /\ rem[p] \in Nat
            /\ Rest[p] <= rem[p] * Unit /\ rem[p] * Unit - Rest[p] <= Unit - 1
  <2> DEFINE u == list[p]
  <2>1. u = spent[p] \div Unit /\ p \in granted
    BY <1>3
  <2>2. u \in Nat /\ Unit * u <= spent[p] /\ spent[p] - Unit * u <= Unit - 1
    BY <1>1, <1>2, <2>1, Divided
  <2>3. rem[p] = Limit[p] - u
    BY DEF Remain
  <2>4. u <= Limit[p]
    <3> HIDE DEF u
    <3>1. ASSUME u >= Limit[p] + 1 PROVE FALSE
      <4>1. Unit * u >= Unit * (Limit[p] + 1)
        BY <1>1, <1>2, <2>1, <2>2, <3>1
      <4>2. Unit * (Limit[p] + 1) = Limit[p] * Unit + Unit /\ Unit * u \in Int
        BY <1>1, <1>2, <2>1, <2>2
      <4> QED
        BY <1>1, <1>2, <2>1, <2>2, <4>1, <4>2
    <3> QED
      BY <1>2, <2>1, <2>2, <3>1
  <2>5. (Limit[p] - u) * Unit = Limit[p] * Unit - Unit * u /\ Unit * u \in Int
    <3> HIDE DEF u
    <3> QED
      BY <1>1, <1>2, <2>1, <2>2
  <2>6. Rest[p] = Limit[p] * Unit - spent[p] /\ Limit[p] * Unit \in Nat /\ spent[p] \in Nat
        /\ Limit[p] \in Nat
    BY <1>2, <2>1
  <2> HIDE DEF u, rem
  <2> QED
    BY <1>1, <2>2, <2>3, <2>4, <2>5, <2>6 DEF u
<1>5. ASSUME NEW s \in SUBSET granted
      PROVE /\ IsFiniteSet(s) /\ IsFiniteSet(K(s)) /\ K(s) \subseteq K(granted)
            /\ lft(s) \in Nat /\ tot(s) \in Nat /\ Cardinality(s) \in Nat
  <2>1. IsFiniteSet(s) /\ IsFiniteSet(K(s)) /\ K(s) \subseteq K(granted)
    BY <1>1, FS_Subset
  <2>2. \A p \in s : Rest[p] \in Nat
    BY <1>2
  <2>3. \A p \in K(s) : rem[p] \in Nat
    <3> HIDE DEF rem, K
    <3> QED
      BY <1>4, <2>1
  <2> HIDE DEF rem, K
  <2> QED
    BY <2>1, <2>2, <2>3, SumNat, FS_CardinalityType
<1>6. IsCopy(list)
  <2>1. DOMAIN list = K(granted) /\ list = [p \in K(granted) |-> list[p]]
    BY <1>3
  <2>2. K(granted) \in SUBSET Packs /\ IsFiniteSet(K(granted))
    BY <1>1, <1>5
  <2> HIDE DEF list, K, rem
  <2> QED
    BY <1>4, <2>1, <2>2 DEF IsCopy
<1>7. Left = lft(granted) /\ Total(list) = tot(granted)
  BY <1>3 DEF Left, Total
<1>8. {} \in T
  <2>1. K({}) = {} /\ Cardinality({}) = 0
    BY FS_EmptySet
  <2>2. lft({}) = 0 /\ tot({}) = 0
    BY <2>1, SumEmpty
  <2>3. 0 <= 0 * Unit /\ 0 * Unit - 0 <= (Unit - 1) * 0
    BY <1>1
  <2> HIDE DEF lft, tot
  <2> QED
    BY <2>1, <2>2, <2>3
<1>9. ASSUME NEW s \in SUBSET granted, NEW x \in granted \ s, s \in T PROVE s \cup {x} \in T
  <2> DEFINE u == s \cup {x}
  <2>1. Near(s)
    BY <1>9
  <2>2. Cardinality(u) = Cardinality(s) + 1
    BY <1>5, FS_AddElement
  <2>3. lft(u) = Rest[x] + lft(s)
    <3>1. \A q \in s \cup {x} : Rest[q] \in Int
      BY <1>2
    <3> QED
      BY <1>5, <3>1, SumPut
  <2>4. Rest[x] \in Nat
    BY <1>2
  <2> HIDE DEF lft
  <2>5. CASE x \in K(granted)
    <3>1. K(u) = K(s) \cup {x} /\ x \notin K(s)
      BY <2>5
    <3>2. tot(u) = rem[x] + tot(s)
      <4>1. \A q \in K(s) \cup {x} : rem[q] \in Int
        <5>1. K(s) \subseteq K(granted)
          BY <1>5
        <5> HIDE DEF rem, K
        <5> QED
          BY <1>4, <2>5, <5>1
      <4> HIDE DEF K, rem
      <4> QED
        BY <1>5, <3>1, <4>1, SumPut
    <3>3. rem[x] \in Nat /\ Rest[x] <= rem[x] * Unit /\ rem[x] * Unit - Rest[x] <= Unit - 1
      BY <1>4, <2>5
    <3> HIDE DEF tot, rem, K
    <3>4. (rem[x] + tot(s)) * Unit = rem[x] * Unit + tot(s) * Unit
          /\ rem[x] * Unit \in Int /\ tot(s) * Unit \in Int
      BY <1>1, <1>5, <3>3
    <3>5. (Unit - 1) * (Cardinality(s) + 1) = (Unit - 1) * Cardinality(s) + (Unit - 1)
          /\ (Unit - 1) * Cardinality(s) \in Int
      BY <1>1, <1>5
    <3>6. Near(u)
      <4>1. lft(s) \in Nat
        BY <1>5
      <4> QED
        BY <1>1, <2>1, <2>2, <2>3, <2>4, <3>2, <3>3, <3>4, <3>5, <4>1
    <3> QED
      BY <3>6
  <2>6. CASE x \notin K(granted)
    <3>1. K(u) = K(s)
      BY <2>6
    <3>2. Rest[x] = 0
      <4>1. Limit[x] = 0 /\ Limit[x] * Unit = 0
        BY <1>1, <1>2, <2>6
      <4> QED
        BY <1>2, <4>1
    <3>3. tot(u) = tot(s)
      BY <3>1
    <3> HIDE DEF tot, K, rem
    <3>4. (Unit - 1) * (Cardinality(s) + 1) = (Unit - 1) * Cardinality(s) + (Unit - 1)
          /\ (Unit - 1) * Cardinality(s) \in Int /\ tot(s) * Unit \in Int
      BY <1>1, <1>5
    <3>5. Near(u)
      <4>1. lft(s) \in Nat
        BY <1>5
      <4> QED
        BY <1>1, <2>1, <2>2, <2>3, <3>2, <3>3, <3>4, <4>1
    <3> QED
      BY <3>5
  <2> QED
    BY <2>5, <2>6
<1>10. granted \in T
  <2> HIDE DEF T
  <2> QED
    BY <1>1, <1>8, <1>9, Grow
<1>11. Near(granted)
  BY <1>10
<1>12. Left \in Nat
  BY <1>5, <1>7
<1> HIDE DEF lft, tot, list
<1> QED
  BY <1>2, <1>6, <1>7, <1>11, <1>12 DEF list

\* A charge takes its amount from what is left.
LEMMA ChargeFacts ==
  ASSUME UpstreamOK, NEW amount \in Charges, Charge(amount)
  PROVE  UpstreamOK' /\ Left' = Left - amount /\ amount \in Nat /\ amount <= Left
<1> DEFINE taken == Taken(Rest, amount)
<1>1. /\ granted' = granted /\ amount \in Nat /\ amount <= Left
      /\ spent' = [p \in Packs |-> spent[p] + IF p \in granted THEN taken[p] ELSE 0]
  BY LedgerAssumption DEF Charge
<1>2. granted \in SUBSET Packs /\ granted \in SUBSET Nat /\ IsFiniteSet(granted)
  BY LedgerAssumption DEF UpstreamOK
<1>3. DOMAIN Rest = granted /\ \A p \in granted : Rest[p] \in Nat
  BY ListFacts DEF Rest
<1>4. /\ DOMAIN taken = granted
      /\ \A p \in granted : taken[p] \in Nat /\ taken[p] <= Rest[p]
      /\ SumOver(taken, granted) = amount
  BY <1>1, <1>2, <1>3, TakenFacts DEF Left
<1> HIDE DEF taken
<1>5. ASSUME NEW p \in Packs
      PROVE /\ spent'[p] \in Nat /\ spent'[p] <= Limit[p] * Unit
            /\ p \in granted => spent'[p] = spent[p] + taken[p]
  <2>1. spent[p] \in Nat /\ spent[p] <= Limit[p] * Unit /\ Limit[p] * Unit \in Nat
    BY LedgerAssumption DEF UpstreamOK
  <2>2. p \in granted => Rest[p] = Limit[p] * Unit - spent[p]
    BY DEF Rest
  <2>3. spent'[p] = spent[p] + IF p \in granted THEN taken[p] ELSE 0
    BY <1>1
  <2> QED
    BY <1>4, <2>1, <2>2, <2>3
<1>6. UpstreamOK'
  <2>1. spent' \in [Packs -> Nat]
    BY <1>1, <1>5
  <2> QED
    BY <1>1, <1>5, <2>1 DEF UpstreamOK
<1>7. Left' = SumOver(Rest, granted) - SumOver(taken, granted)
  <2> DEFINE now == Rest'
  <2>1. ASSUME NEW p \in granted
        PROVE Rest[p] \in Int /\ taken[p] \in Int /\ now[p] = Rest[p] - taken[p]
    <3>1. now[p] = Limit[p] * Unit - spent'[p] /\ Rest[p] = Limit[p] * Unit - spent[p]
      BY <1>1 DEF Rest
    <3>2. spent'[p] = spent[p] + taken[p] /\ spent[p] \in Nat /\ Limit[p] * Unit \in Nat
      BY <1>2, <1>5, LedgerAssumption DEF UpstreamOK
    <3>3. Rest[p] \in Nat /\ taken[p] \in Nat
      BY <1>3, <1>4
    <3> HIDE DEF now
    <3> QED
      BY <3>1, <3>2, <3>3
  <2>2. Left' = SumOver(now, granted)
    BY <1>1 DEF Left
  <2> HIDE DEF now
  <2> QED
    BY <1>2, <2>1, <2>2, SumMinus
<1> QED
  BY <1>1, <1>4, <1>6, <1>7 DEF Left

TypeOKL ==
  /\ UpstreamOK
  /\ version \in Nat
  /\ \A b \in bills : b.version \in Nat /\ b.version <= version /\ b.remain \in Nat
  /\ DOMAIN rounds = Rounds
  /\ \A r \in Rounds : rounds[r].asked \in {"nothing", "total", "packs"}
       /\ rounds[r].version \in Nat /\ rounds[r].version <= version /\ IsCopy(rounds[r].list)
  /\ IsCopy(packs) /\ credits \in Int
  /\ applied \in Nat /\ applied <= version /\ off \in BOOLEAN

\* A total that is as new as the version, or newer than the bill after it says.
NotBelow(total, of) ==
  /\ \A b \in bills : b.version = of + 1 => Rounded(b.remain) <= total
  /\ of = version => Rounded(Left) <= total

\* The bills on their way tell of the versions they are of, and each of less
\* than the one before it.
BillsOK ==
  /\ \A b \in bills : b.version = version => b.remain = Left
  /\ \A a, b \in bills : b.version = a.version + 1 => b.remain <= a.remain

RoundsOK ==
  \A r \in Rounds : rounds[r].asked = "packs" =>
    /\ rounds[r].version = version => rounds[r].list = PackList
    /\ NotBelow(Total(rounds[r].list), rounds[r].version)

LedgerInv ==
  /\ TypeOKL /\ BillsOK /\ RoundsOK
  /\ FollowsUpstream
  /\ ~off => NotBelow(credits, applied)

-----------------------------------------------------------------------------
(* The steps *)

\* A version that the copy or an answer is of stays not below what comes after it.
LEMMA NotBelowKept ==
  ASSUME LedgerInv, NEW total \in Int, NEW of \in Nat, of <= version, NotBelow(total, of),
         \/ bills' \subseteq bills /\ UNCHANGED upstream
         \/ bills' \subseteq bills /\ version' = version + 1
         \/ \E amount \in Charges : Charge(amount)
  PROVE  NotBelow(total, of)'
<1>1. CASE bills' \subseteq bills /\ UNCHANGED upstream
  <2>1. Left' = Left /\ version' = version
    BY <1>1 DEF upstream, Left, Rest
  <2> QED
    BY <1>1, <2>1 DEF NotBelow, Rounded
<1>2. CASE bills' \subseteq bills /\ version' = version + 1
  <2>1. of # version'
    BY <1>2 DEF LedgerInv, TypeOKL
  <2> QED
    BY <1>2, <2>1 DEF NotBelow, Rounded
<1>3. ASSUME NEW amount \in Charges, Charge(amount) PROVE NotBelow(total, of)'
  <2>1. /\ version' = version + 1 /\ version \in Nat
        /\ bills' = bills \cup {[version |-> version + 1, remain |-> Left - amount]}
    BY <1>3 DEF Charge, Changed, LedgerInv, TypeOKL
  <2>2. Left \in Nat /\ Left - amount \in Nat /\ amount \in Nat
    BY <1>3, ListFacts, ChargeFacts DEF LedgerInv, TypeOKL
  <2>3. of = version => Rounded(Left - amount) <= total
    <3>1. Rounded(Left - amount) <= Rounded(Left)
      BY <2>2, RoundedMonotone
    <3>2. Rounded(Left - amount) \in Nat /\ Rounded(Left) \in Nat
      BY <2>2, RoundedFacts
    <3> QED
      BY <3>1, <3>2 DEF NotBelow
  <2>4. ASSUME NEW b \in bills', b.version = of + 1 PROVE Rounded(b.remain) <= total
    <3>1. CASE b \in bills
      BY <2>4, <3>1 DEF NotBelow
    <3>2. CASE b = [version |-> version + 1, remain |-> Left - amount]
      <4>1. b.version = version + 1 /\ b.remain = Left - amount
        BY <3>2
      <4>2. of = version
        BY <2>1, <2>4, <4>1
      <4> QED
        BY <2>3, <4>1, <4>2
    <3> QED
      BY <2>1, <3>1, <3>2
  <2>5. of # version'
    BY <2>1
  <2> QED
    BY <2>4, <2>5 DEF NotBelow, Rounded
<1> QED
  BY <1>1, <1>2, <1>3

\* What a step upstream keeps.
LEMMA UpstreamStep ==
  ASSUME LedgerInv, version' = version + 1, UNCHANGED <<rounds, copy, applied, off>>, UpstreamOK',
         \A b \in bills' : b.version \in Nat /\ b.version <= version' /\ b.remain \in Nat,
         BillsOK',
         \/ bills' \subseteq bills
         \/ \E amount \in Charges : Charge(amount)
  PROVE  LedgerInv'
<1>1. TypeOKL'
  BY DEF LedgerInv, TypeOKL, copy, IsCopy
<1>2. RoundsOK'
  <2> SUFFICES ASSUME NEW r \in Rounds, rounds[r].asked = "packs"
               PROVE /\ rounds[r].version # version'
                     /\ NotBelow(Total(rounds[r].list), rounds[r].version)'
    BY DEF RoundsOK, Total, Remain, SumOver
  <2>1. /\ rounds[r].version \in Nat /\ rounds[r].version <= version /\ version \in Nat
        /\ IsCopy(rounds[r].list) /\ NotBelow(Total(rounds[r].list), rounds[r].version)
    BY DEF LedgerInv, TypeOKL, RoundsOK
  <2>2. Total(rounds[r].list) \in Int
    BY <2>1, CopyFacts
  <2> QED
    BY <2>1, <2>2, NotBelowKept
<1>3. FollowsUpstream'
  <2>1. packs' = packs /\ credits' = credits /\ applied' # version' /\ off' = off
    BY DEF LedgerInv, TypeOKL, copy
  <2>2. Total(packs)' = Total(packs)
    BY <2>1
  <2> QED
    BY <2>1, <2>2 DEF LedgerInv, FollowsUpstream
<1>4. ~off' => NotBelow(credits, applied)'
  BY NotBelowKept DEF LedgerInv, TypeOKL, copy
<1> QED
  BY <1>1, <1>2, <1>3, <1>4 DEF LedgerInv

\* A charge, a grant and an expiry.
LEMMA ChargeStep ==
  ASSUME LedgerInv, NEW amount \in Charges, Charge(amount) PROVE LedgerInv'
<1>1. /\ version' = version + 1 /\ version \in Nat /\ UNCHANGED <<rounds, copy, applied, off>>
      /\ bills' = bills \cup {[version |-> version + 1, remain |-> Left - amount]}
  BY DEF Charge, Changed, LedgerInv, TypeOKL
<1>2. UpstreamOK' /\ Left' = Left - amount /\ Left \in Nat /\ Left - amount \in Nat /\ amount \in Nat
  BY ListFacts, ChargeFacts DEF LedgerInv, TypeOKL
<1>3. \A b \in bills : b.version \in Nat /\ b.version <= version /\ b.remain \in Nat
  BY DEF LedgerInv, TypeOKL
<1>4. ASSUME NEW b \in bills'
      PROVE \/ b \in bills
            \/ b.version = version + 1 /\ b.remain = Left - amount
  BY <1>1
<1>5. \A b \in bills' : b.version \in Nat /\ b.version <= version' /\ b.remain \in Nat
  BY <1>1, <1>2, <1>3, <1>4
<1>6. BillsOK'
  <2>1. ASSUME NEW b \in bills', b.version = version' PROVE b.remain = Left'
    BY <1>1, <1>2, <1>3, <1>4, <2>1
  <2>2. ASSUME NEW a \in bills', NEW b \in bills', b.version = a.version + 1
        PROVE b.remain <= a.remain
    <3>1. a.version \in Nat /\ a.version <= version + 1 /\ b.version \in Nat /\ b.version <= version + 1
      BY <1>1, <1>5
    <3>2. a \in bills
      BY <1>1, <1>4, <2>2, <3>1
    <3>3. CASE b \in bills
      BY <2>2, <3>2, <3>3 DEF LedgerInv, BillsOK
    <3>4. CASE b \notin bills
      <4>1. b.version = version + 1 /\ b.remain = Left - amount
        BY <1>4, <3>4
      <4>2. a.version = version
        BY <1>1, <2>2, <3>1, <4>1
      <4>3. a.remain = Left
        BY <3>2, <4>2 DEF LedgerInv, BillsOK
      <4> QED
        BY <1>2, <4>1, <4>3
    <3> QED
      BY <3>3, <3>4
  <2> QED
    BY <2>1, <2>2 DEF BillsOK
<1> QED
  BY <1>1, <1>2, <1>5, <1>6, UpstreamStep

LEMMA PackStep ==
  ASSUME LedgerInv, NEW p \in Packs, Grant(p) \/ Expire(p) PROVE LedgerInv'
<1>1. /\ version' = version + 1 /\ version \in Nat /\ bills' = bills
      /\ UNCHANGED <<rounds, copy, applied, off>>
  BY DEF Grant, Expire, Changed, LedgerInv, TypeOKL
<1>2. UpstreamOK'
  <2>1. UpstreamOK /\ Limit[p] * Unit \in Nat
    BY LedgerAssumption DEF LedgerInv, TypeOKL
  <2>2. CASE Grant(p)
    BY <2>1, <2>2, FS_AddElement DEF Grant, UpstreamOK
  <2>3. CASE Expire(p)
    <3>1. IsFiniteSet(granted') /\ granted' \in SUBSET Packs
      BY <2>1, <2>3, FS_RemoveElement DEF Expire, UpstreamOK
    <3>2. spent' = [spent EXCEPT ![p] = Limit[p] * Unit]
      BY <2>3 DEF Expire
    <3> QED
      BY <2>1, <3>1, <3>2 DEF UpstreamOK
  <2> QED
    BY <2>2, <2>3
<1>3. BillsOK' /\ \A b \in bills' : b.version \in Nat /\ b.version <= version' /\ b.remain \in Nat
  BY <1>1 DEF BillsOK, LedgerInv, TypeOKL
<1> QED
  BY <1>1, <1>2, <1>3, UpstreamStep

\* What all the other steps keep: they leave upstream alone and add no bill.
LEMMA BelowStep ==
  ASSUME LedgerInv, UNCHANGED upstream, bills' \subseteq bills
  PROVE  /\ UpstreamOK' /\ BillsOK' /\ Left' = Left /\ PackList' = PackList
         /\ version' = version /\ granted' = granted
         /\ \A b \in bills' : b.version \in Nat /\ b.version <= version' /\ b.remain \in Nat
<1>1. granted' = granted /\ spent' = spent /\ version' = version
  BY DEF upstream
<1>2. Left' = Left /\ PackList' = PackList
  BY <1>1 DEF Left, Rest, PackList
<1>3. UpstreamOK'
  BY <1>1 DEF UpstreamOK, LedgerInv, TypeOKL
<1> QED
  BY <1>1, <1>2, <1>3 DEF BillsOK, LedgerInv, TypeOKL

\* The answers on their way stay what they are, or go.
LEMMA RoundsKept ==
  ASSUME LedgerInv, UNCHANGED upstream, bills' \subseteq bills, DOMAIN rounds' = Rounds,
         \A r \in Rounds :
           \/ rounds'[r] = rounds[r]
           \/ rounds'[r] = NoAnswer
           \/ /\ rounds'[r].asked \in {"total", "packs"}
              /\ rounds'[r].version = version /\ rounds'[r].list = PackList
  PROVE  /\ RoundsOK'
         /\ \A r \in Rounds : /\ rounds'[r].asked \in {"nothing", "total", "packs"}
                              /\ rounds'[r].version \in Nat /\ rounds'[r].version <= version'
                              /\ IsCopy(rounds'[r].list)
<1>1. /\ version' = version /\ PackList' = PackList /\ version \in Nat
      /\ IsCopy(PackList) /\ Left \in Nat /\ Left <= Total(PackList) * Unit
  BY BelowStep, ListFacts DEF LedgerInv, TypeOKL
<1>2. ASSUME NEW r \in Rounds
      PROVE /\ rounds'[r].asked \in {"nothing", "total", "packs"}
            /\ rounds'[r].version \in Nat /\ rounds'[r].version <= version'
            /\ IsCopy(rounds'[r].list)
  <2>1. CASE rounds'[r] = rounds[r]
    BY <1>1, <2>1 DEF LedgerInv, TypeOKL
  <2>2. CASE rounds'[r] = NoAnswer
    <3>1. NoAnswer.asked = "nothing" /\ NoAnswer.version = 0 /\ IsCopy(NoAnswer.list)
      BY FS_EmptySet DEF NoAnswer, IsCopy
    <3> QED
      BY <1>1, <2>2, <3>1
  <2>3. CASE rounds'[r].version = version /\ rounds'[r].list = PackList
             /\ rounds'[r].asked \in {"total", "packs"}
    BY <1>1, <2>3
  <2> QED
    BY <2>1, <2>2, <2>3
<1>3. ASSUME NEW r \in Rounds, rounds'[r].asked = "packs"
      PROVE /\ rounds'[r].version = version => rounds'[r].list = PackList
            /\ NotBelow(Total(rounds'[r].list), rounds'[r].version)
            /\ rounds'[r].version \in Nat /\ rounds'[r].version <= version
            /\ Total(rounds'[r].list) \in Int
  <2>1. rounds'[r].version \in Nat /\ rounds'[r].version <= version /\ Total(rounds'[r].list) \in Int
    BY <1>1, <1>2, CopyFacts
  <2>2. CASE rounds'[r] = rounds[r]
    BY <1>3, <2>1, <2>2 DEF LedgerInv, RoundsOK
  <2>3. CASE rounds'[r] = NoAnswer
    BY <1>3, <2>3 DEF NoAnswer
  <2>4. CASE rounds'[r].version = version /\ rounds'[r].list = PackList
    <3>1. Rounded(Left) <= Total(PackList)
      BY <1>1, <2>1, <2>4, RoundedBelow
    <3>2. \A b \in bills : b.version # version + 1
      BY <1>1 DEF LedgerInv, TypeOKL
    <3> QED
      BY <2>1, <2>4, <3>1, <3>2 DEF NotBelow
  <2> QED
    BY <2>1, <2>2, <2>3, <2>4
<1>4. RoundsOK'
  <2> SUFFICES ASSUME NEW r \in Rounds, rounds'[r].asked = "packs"
               PROVE /\ rounds'[r].version = version' => rounds'[r].list = PackList'
                     /\ NotBelow(Total(rounds[r].list), rounds[r].version)'
    BY DEF RoundsOK, Total, Remain, SumOver
  <2> DEFINE total == Total(rounds'[r].list)
             of == rounds'[r].version
  <2>1. NotBelow(total, of) /\ of \in Nat /\ of <= version /\ total \in Int
    BY <1>3
  <2>2. /\ \A b \in bills' : b.version = of + 1 => Rounded(b.remain) <= total
        /\ of = version' => Rounded(Left') <= total
    BY <1>1, <2>1, BelowStep DEF NotBelow
  <2> QED
    BY <1>1, <1>3, <2>2 DEF NotBelow, Rounded
<1> QED
  BY <1>2, <1>4

\* A bill: if it is the one after the copy's version, the copy is not below its
\* total, and is it afterwards.
LEMMA BillStep ==
  ASSUME LedgerInv, NEW b \in bills, Bill(b) PROVE LedgerInv'
<1> DEFINE total == Rounded(b.remain)
<1>1. /\ bills' = bills \ {b} /\ UNCHANGED <<upstream, rounds>>
      /\ applied' = b.version /\ off' = (off \/ b.version # applied + 1)
      /\ ApplyUsageRemain(total)
  BY DEF Bill
<1>2. UpstreamOK /\ IsCopy(packs) /\ credits \in Int /\ applied \in Nat /\ version \in Nat
      /\ b.version \in Nat /\ b.version <= version /\ b.remain \in Nat
  BY DEF LedgerInv, TypeOKL
<1>3. total \in Nat
  BY <1>2, RoundedFacts
<1>4. /\ UpstreamOK' /\ BillsOK' /\ Left' = Left /\ version' = version /\ granted' = granted
      /\ \A a \in bills' : a.version \in Nat /\ a.version <= version' /\ a.remain \in Nat
  BY <1>1, BelowStep
<1>5. RoundsOK' /\ \A r \in Rounds : /\ rounds'[r].asked \in {"nothing", "total", "packs"}
                                     /\ rounds'[r].version \in Nat /\ rounds'[r].version <= version'
                                     /\ IsCopy(rounds'[r].list)
  BY <1>1, RoundsKept DEF LedgerInv, TypeOKL
<1> HIDE DEF total
<1>6. IsCopy(packs') /\ credits' = total
  <2>1. CASE DOMAIN packs # {} /\ credits > total
    <3>1. credits - total \in Nat /\ packs' = Deducted(packs, credits - total)
      BY <1>1, <1>2, <1>3, <2>1 DEF ApplyUsageRemain
    <3> QED
      BY <1>1, <1>2, <3>1, DeductedFacts DEF ApplyUsageRemain
  <2>2. CASE ~(DOMAIN packs # {} /\ credits > total)
    BY <1>1, <1>2, <2>2 DEF ApplyUsageRemain
  <2> QED
    BY <2>1, <2>2
<1>7. TypeOKL'
  <2>1. off' \in BOOLEAN
    BY <1>1
  <2>2. IsCopy(packs)'
    BY <1>6 DEF IsCopy
  <2>3. DOMAIN rounds' = Rounds
    BY <1>1 DEF LedgerInv, TypeOKL
  <2>4. \A r \in Rounds : IsCopy(rounds[r].list)'
    BY <1>5 DEF IsCopy
  <2> QED
    BY <1>1, <1>2, <1>3, <1>4, <1>5, <1>6, <2>1, <2>2, <2>3, <2>4 DEF TypeOKL
<1>8. ASSUME ~off', applied' = version'
      PROVE total * Unit - Left \in (1 - Unit)..((Unit - 1) * Cardinality(granted))
  <2>1. b.remain = Left
    BY <1>1, <1>4, <1>8 DEF LedgerInv, BillsOK
  <2>2. /\ 2 * (total * Unit - Left) <= Unit /\ 2 * (Left - total * Unit) <= Unit - 1
        /\ Left \in Nat /\ Unit \in Nat \ {0} /\ total * Unit \in Nat
    <3>1. Unit \in Nat \ {0} /\ Left \in Nat
      BY <1>2, <2>1, LedgerAssumption
    <3>2. total * Unit \in Nat
      BY <1>3, <3>1
    <3>3. 2 * (total * Unit - Left) <= Unit /\ 2 * (Left - total * Unit) <= Unit - 1
      BY <2>1, <3>1, RoundedFacts DEF total
    <3> QED
      BY <3>1, <3>2, <3>3
  <2>3. Cardinality(granted) \in Nat
    BY <1>2, FS_CardinalityType DEF UpstreamOK
  <2>4. CASE granted = {}
    <3>1. Left = 0 /\ Cardinality(granted) = 0
      BY <2>4, SumEmpty, FS_EmptySet DEF Left
    <3>2. total * Unit <= 0
      <4>1. CASE total = 0
        BY <2>2, <4>1
      <4>2. CASE total >= 1
        <5>1. total * Unit >= Unit
          BY <1>3, <2>2, <4>2
        <5> QED
          BY <2>2, <3>1, <5>1
      <4> QED
        BY <1>3, <4>1, <4>2
    <3>3. (Unit - 1) * Cardinality(granted) = 0
      BY <2>2, <3>1
    <3> QED
      BY <2>2, <3>1, <3>2, <3>3
  <2>5. CASE granted # {}
    <3>1. Cardinality(granted) >= 1
      BY <1>2, <2>3, <2>5, FS_EmptySet DEF UpstreamOK
    <3>2. (Unit - 1) * Cardinality(granted) >= Unit - 1 /\ (Unit - 1) * Cardinality(granted) \in Int
      BY <2>2, <2>3, <3>1
    <3>3. total * Unit - Left <= Unit - 1 /\ total * Unit - Left >= 1 - Unit
      BY <2>2
    <3> QED
      BY <2>2, <3>2, <3>3
  <2> QED
    BY <2>4, <2>5
<1>9. ASSUME ~off' PROVE total = Total(packs')
  <2>1. ~off /\ b.version = applied + 1
    BY <1>1, <1>9
  <2>2. credits = Total(packs) /\ total <= credits
    BY <2>1 DEF LedgerInv, FollowsUpstream, NotBelow, total
  <2>3. CASE DOMAIN packs # {} /\ credits > total
    <3>1. credits - total \in Nat /\ packs' = Deducted(packs, credits - total)
          /\ credits - total <= Total(packs)
      BY <1>1, <1>2, <1>3, <2>2, <2>3 DEF ApplyUsageRemain
    <3>2. Total(packs') = Total(packs) - (credits - total)
      BY <1>2, <3>1, DeductedFacts
    <3> QED
      BY <1>2, <1>3, <2>2, <3>2
  <2>4. CASE DOMAIN packs = {}
    <3>1. Total(packs) = 0
      BY <2>4, SumEmpty DEF Total
    <3>2. packs' = packs
      BY <1>1, <2>4 DEF ApplyUsageRemain
    <3> QED
      BY <1>3, <2>2, <3>1, <3>2
  <2>5. CASE credits = total
    <3>1. packs' = packs
      BY <1>1, <1>3, <2>5 DEF ApplyUsageRemain
    <3> QED
      BY <2>2, <2>5, <3>1
  <2>6. credits > total \/ credits = total
    BY <1>2, <1>3, <2>2
  <2> QED
    BY <2>3, <2>4, <2>5, <2>6
<1>10. FollowsUpstream'
  <2> SUFFICES ASSUME ~off'
               PROVE /\ credits' = Total(packs)'
                     /\ applied' = version' =>
                          credits' * Unit - Left' \in (1 - Unit)..((Unit - 1) * Cardinality(granted'))
    BY DEF FollowsUpstream
  <2>1. Total(packs)' = Total(packs')
    OBVIOUS
  <2> QED
    BY <1>4, <1>6, <1>8, <1>9, <2>1
<1>11. ASSUME ~off' PROVE NotBelow(credits, applied)'
  <2>1. ASSUME NEW a \in bills', a.version = b.version + 1 PROVE Rounded(a.remain) <= total
    <3>1. a \in bills /\ a.remain \in Nat /\ a.remain <= b.remain
      BY <1>1, <1>4, <2>1 DEF LedgerInv, BillsOK
    <3> QED
      BY <1>2, <3>1, RoundedMonotone DEF total
  <2>2. b.version = version => Rounded(Left) <= total
    <3>1. ASSUME b.version = version PROVE b.remain = Left
      BY <3>1 DEF LedgerInv, BillsOK
    <3> QED
      BY <1>3, <3>1 DEF total
  <2> QED
    BY <1>1, <1>4, <1>6, <2>1, <2>2 DEF NotBelow, Rounded
<1> QED
  BY <1>4, <1>5, <1>7, <1>10, <1>11 DEF LedgerInv

\* The rounds, a bill that is lost, and a restart.
LEMMA OtherStep ==
  ASSUME LedgerInv,
         \/ \E b \in bills : Lose(b)
         \/ \E r \in Rounds : Round(r) \/ ProbeFails(r)
         \/ Restart
         \/ UNCHANGED lvars
  PROVE  LedgerInv'
<1>1. /\ UNCHANGED upstream /\ bills' \subseteq bills
      /\ DOMAIN rounds' = Rounds
      /\ \A r \in Rounds :
           \/ rounds'[r] = rounds[r]
           \/ rounds'[r] = NoAnswer
           \/ /\ rounds'[r].asked \in {"total", "packs"}
              /\ rounds'[r].version = version /\ rounds'[r].list = PackList
  <2>1. DOMAIN rounds = Rounds
    BY DEF LedgerInv, TypeOKL
  <2>2. ASSUME NEW b \in bills, Lose(b) \/ UNCHANGED lvars
        PROVE UNCHANGED upstream /\ bills' \subseteq bills /\ rounds' = rounds
    BY <2>2 DEF Lose, lvars
  <2>3. ASSUME UNCHANGED lvars
        PROVE UNCHANGED upstream /\ bills' \subseteq bills /\ rounds' = rounds
    BY <2>3 DEF lvars
  <2>4. ASSUME NEW r \in Rounds, Round(r) \/ ProbeFails(r)
        PROVE /\ UNCHANGED upstream /\ bills' \subseteq bills
              /\ DOMAIN rounds' = Rounds
              /\ \A s \in Rounds : s # r => rounds'[s] = rounds[s]
              /\ \/ rounds'[r] = NoAnswer
                 \/ /\ rounds'[r].asked \in {"total", "packs"}
                    /\ rounds'[r].version = version /\ rounds'[r].list = PackList
    BY <2>1, <2>4 DEF Round, Begin, Reenable, Probe, ProbeFails, Ask
  <2>5. CASE Restart
    BY <2>5 DEF Restart
  <2> QED
    BY <2>1, <2>2, <2>3, <2>4, <2>5
<1>2. /\ UpstreamOK' /\ BillsOK' /\ Left' = Left /\ version' = version /\ granted' = granted
      /\ PackList' = PackList
      /\ \A b \in bills' : b.version \in Nat /\ b.version <= version' /\ b.remain \in Nat
  BY <1>1, BelowStep
<1>3. RoundsOK' /\ \A r \in Rounds : /\ rounds'[r].asked \in {"nothing", "total", "packs"}
                                     /\ rounds'[r].version \in Nat /\ rounds'[r].version <= version'
                                     /\ IsCopy(rounds'[r].list)
  BY <1>1, RoundsKept
<1>4. /\ UpstreamOK /\ IsCopy(packs) /\ credits \in Int /\ applied \in Nat /\ applied <= version
      /\ version \in Nat /\ off \in BOOLEAN
  BY DEF LedgerInv, TypeOKL
<1>5. \/ UNCHANGED <<copy, applied, off>>
      \/ /\ UNCHANGED <<packs, applied>> /\ credits' \in Int
         /\ off' \in BOOLEAN /\ off' = (off \/ credits' # credits)
      \/ \E r \in Rounds : /\ rounds[r].asked = "packs"
                           /\ packs' = rounds[r].list /\ credits' = Total(rounds[r].list)
                           /\ applied' = rounds[r].version /\ off' = FALSE
  <2>1. ASSUME NEW r \in Rounds, Reenable(r) PROVE <1>5!2
    <3>1. IsCopy(rounds[r].list)
      BY DEF LedgerInv, TypeOKL
    <3>2. Total(rounds[r].list) \in Int
      BY <3>1, CopyFacts
    <3> QED
      BY <1>4, <2>1, <3>2 DEF Reenable
  <2>2. ASSUME NEW r \in Rounds, Probe(r) PROVE <1>5!3
    BY <2>2 DEF Probe, SetPacks
  <2>3. ASSUME \/ \E b \in bills : Lose(b)
               \/ \E r \in Rounds : Begin(r) \/ ProbeFails(r)
               \/ Restart \/ UNCHANGED lvars
        PROVE <1>5!1
    BY <2>3 DEF Lose, Begin, ProbeFails, Restart, lvars
  <2> QED
    BY <2>1, <2>2, <2>3 DEF Round
<1>6. /\ IsCopy(packs') /\ credits' \in Int /\ applied' \in Nat /\ applied' <= version
      /\ off' \in BOOLEAN
      /\ ~off' => credits' = Total(packs') /\ NotBelow(credits', applied')
      /\ ~off' /\ applied' = version =>
           credits' * Unit - Left \in (1 - Unit)..((Unit - 1) * Cardinality(granted))
  <2>1. CASE UNCHANGED <<copy, applied, off>> \/ <1>5!2
    <3>1. packs' = packs /\ applied' = applied /\ credits' \in Int /\ off' \in BOOLEAN
          /\ (~off' => ~off /\ credits' = credits)
      BY <1>4, <2>1 DEF copy
    <3> QED
      BY <1>4, <3>1 DEF LedgerInv, FollowsUpstream
  <2>2. ASSUME NEW r \in Rounds, rounds[r].asked = "packs",
               packs' = rounds[r].list, credits' = Total(rounds[r].list),
               applied' = rounds[r].version, off' = FALSE
        PROVE <1>6!:
    <3>1. IsCopy(rounds[r].list) /\ rounds[r].version \in Nat /\ rounds[r].version <= version
      BY DEF LedgerInv, TypeOKL
    <3>2. Total(rounds[r].list) \in Nat
      BY <3>1, CopyFacts
    <3>3. NotBelow(Total(rounds[r].list), rounds[r].version)
      BY <2>2 DEF LedgerInv, RoundsOK
    <3>4. ASSUME rounds[r].version = version
          PROVE Total(rounds[r].list) * Unit - Left \in (1 - Unit)..((Unit - 1) * Cardinality(granted))
      <4>1. rounds[r].list = PackList
        BY <2>2, <3>4 DEF LedgerInv, RoundsOK
      <4>2. /\ Left \in Nat /\ Left <= Total(PackList) * Unit
            /\ Total(PackList) * Unit - Left <= (Unit - 1) * Cardinality(granted)
        BY <1>4, ListFacts
      <4>3. Total(PackList) * Unit \in Int /\ (Unit - 1) * Cardinality(granted) \in Int
            /\ Unit \in Nat \ {0}
        BY <1>4, <3>2, <4>1, LedgerAssumption, FS_CardinalityType DEF UpstreamOK
      <4> QED
        BY <4>1, <4>2, <4>3
    <3>5. /\ IsCopy(packs') /\ credits' \in Int /\ applied' \in Nat /\ applied' <= version
          /\ off' \in BOOLEAN
      <4>1. IsCopy(packs')
        BY <2>2, <3>1
      <4>2. credits' \in Int /\ applied' \in Nat /\ applied' <= version
        BY <2>2, <3>1, <3>2
      <4>3. off' \in BOOLEAN
        BY <2>2
      <4> QED
        BY <4>1, <4>2, <4>3
    <3>6. credits' = Total(packs') /\ NotBelow(credits', applied')
      BY <2>2, <3>3
    <3>7. applied' = version =>
            credits' * Unit - Left \in (1 - Unit)..((Unit - 1) * Cardinality(granted))
      BY <2>2, <3>4
    <3> QED
      BY <3>5, <3>6, <3>7
  <2> QED
    BY <1>5, <2>1, <2>2
<1>7. TypeOKL'
  <2>1. IsCopy(packs)'
    BY <1>6 DEF IsCopy
  <2>2. \A r \in Rounds : IsCopy(rounds[r].list)'
    BY <1>3 DEF IsCopy
  <2> QED
    BY <1>1, <1>2, <1>3, <1>4, <1>6, <2>1, <2>2 DEF TypeOKL
<1>8. FollowsUpstream'
  <2> SUFFICES ASSUME ~off'
               PROVE /\ credits' = Total(packs)'
                     /\ applied' = version' =>
                          credits' * Unit - Left' \in (1 - Unit)..((Unit - 1) * Cardinality(granted'))
    BY DEF FollowsUpstream
  <2>1. Total(packs)' = Total(packs')
    OBVIOUS
  <2> QED
    BY <1>2, <1>6, <2>1
<1>9. ASSUME ~off' PROVE NotBelow(credits, applied)'
  BY <1>1, <1>2, <1>6, <1>9 DEF NotBelow, Rounded
<1> QED
  BY <1>2, <1>3, <1>7, <1>8, <1>9 DEF LedgerInv

LEMMA LedgerStep == LedgerInv /\ [NextL]_lvars => LedgerInv'
BY ChargeStep, PackStep, BillStep, OtherStep DEF NextL

LEMMA LedgerStart == InitL => LedgerInv
<1> SUFFICES ASSUME InitL PROVE LedgerInv
  OBVIOUS
<1> DEFINE none == [p \in {} |-> 0]
<1>1. IsCopy(none)
  BY FS_EmptySet DEF IsCopy
<1>2. TypeOKL
  <2>1. UpstreamOK
    BY LedgerAssumption, FS_EmptySet DEF InitL, UpstreamOK
  <2>2. /\ DOMAIN rounds = Rounds
        /\ \A r \in Rounds : rounds[r] = NoAnswer
    BY DEF InitL
  <2>3. NoAnswer.asked = "nothing" /\ NoAnswer.version = 0 /\ NoAnswer.list = none
    BY DEF NoAnswer
  <2> HIDE DEF none
  <2>4. packs = none
    BY DEF InitL, none
  <2> QED
    BY <1>1, <2>1, <2>2, <2>3, <2>4 DEF InitL, TypeOKL
<1>3. BillsOK /\ FollowsUpstream /\ off
  BY DEF InitL, BillsOK, FollowsUpstream
<1>4. RoundsOK
  BY DEF InitL, NoAnswer, RoundsOK
<1> QED
  BY <1>2, <1>3, <1>4 DEF LedgerInv

\* For any packs, limits and charges, and whatever order the bills, the probes and
\* the check-in rounds come in: while each bill follows the one before, the copy's
\* total is that of its packs, and off by less than a credit for each pack upstream.
THEOREM CopyFollowsUpstream == SpecL => []FollowsUpstream
<1>1. LedgerInv => FollowsUpstream
  BY DEF LedgerInv
<1> QED
  BY <1>1, LedgerStart, LedgerStep, PTL DEF SpecL

-----------------------------------------------------------------------------
\* Only the bills and the probes touch the packs, and they set the key with them.
LEMMA StepNearest ==
  ASSUME NearestIsFirstOpen, [NextL]_lvars PROVE NearestIsFirstOpen'
<1> USE DEF NearestIsFirstOpen
<1>1. ASSUME NEW b \in bills, Bill(b) PROVE NearestIsFirstOpen'
  BY <1>1 DEF Bill, ApplyUsageRemain, Nearest, Open, Remain
<1>2. ASSUME NEW r \in Rounds, Probe(r) PROVE NearestIsFirstOpen'
  BY <1>2 DEF Probe, SetPacks, Nearest, Open, Remain
<1>3. CASE UNCHANGED <<packs, nearestExpire>>
  BY <1>3 DEF Nearest, Open, Remain
<1> QED
  BY <1>1, <1>2, <1>3
  DEF NextL, Round, Charge, Grant, Expire, Lose, Begin, Reenable, ProbeFails, Restart,
      copy, lvars

\* Whatever order the feeds come in, the key that decides whom a request is given is
\* the expiry of the first open pack that is known.
THEOREM KeyIsFirstOpen == SpecL => []NearestIsFirstOpen
<1>1. InitL => NearestIsFirstOpen
  BY DEF InitL, NearestIsFirstOpen, Nearest, Open
<1> QED
  BY <1>1, StepNearest, PTL DEF SpecL
=============================================================================
