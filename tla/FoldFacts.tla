------------------------------ MODULE FoldFacts ------------------------------
(***************************************************************************)
(* Facts about the folds of the community modules, for any operation       *)
(* and choice: the models sum over sets with MapThenSumSet and go     *)
(* through sequences with FoldLeft, which both are MapThenFoldSet.  A      *)
(* proof module instantiates this one for each fold that it reasons about. *)
(***************************************************************************)
EXTENDS Integers, Sequences, FiniteSets, FiniteSetsExt, FiniteSetTheorems, SequenceTheorems,
        WellFoundedInduction, NaturalsInduction, TLAPS

CONSTANTS
  op(_, _),   \* the operation: what is there so far, and the next value
  choose(_)   \* the element of a set that is taken last

Fold(base, g, S) == MapThenFoldSet(LAMBDA x, y : op(y, x), base, LAMBDA i : g[i], choose, S)

\* What the function that MapThenFoldSet chooses has to be.
Folds(base, g, D, it) ==
  it = [s \in D |-> IF s = {} THEN base
                    ELSE op(it[s \ {choose(s)}], g[choose(s)])]

Chooses(S) == \A s \in SUBSET S : s # {} => choose(s) \in s

-----------------------------------------------------------------------------
\* Induction over the subsets of a finite set.
LEMMA Smallest ==
  ASSUME NEW S, IsFiniteSet(S), NEW T \in SUBSET SUBSET S, T # {}
  PROVE  \E s \in T : \A t \in T : t \subseteq s => t = s
<1>1. IsWellFoundedOn(StrictSubsetOrdering(S), SUBSET S)
  BY FS_StrictSubsetOrderingWellFounded, FS_FiniteSubsetsOfFinite
<1>2. PICK s \in T : \A t \in T : ~(<<t, s>> \in StrictSubsetOrdering(S))
  <2> HIDE DEF StrictSubsetOrdering
  <2> QED
    BY <1>1, WFMin
<1>3. ASSUME NEW t \in T, t \subseteq s, t # s PROVE FALSE
  <2>1. <<t, s>> \in (SUBSET S) \X (SUBSET S)
    OBVIOUS
  <2>2. <<t, s>>[1] = t /\ <<t, s>>[2] = s
    OBVIOUS
  <2>3. <<t, s>> \in StrictSubsetOrdering(S)
    BY <2>1, <2>2, <1>3 DEF StrictSubsetOrdering
  <2> QED
    BY <1>2, <2>3
<1> QED
  BY <1>3

\* A set of subsets that has {} and, with a set, each that has one element more
\* has the whole.
LEMMA Growing ==
  ASSUME NEW S, IsFiniteSet(S), NEW T, {} \in T,
         \A s \in SUBSET S : \A x \in S \ s : s \in T => s \cup {x} \in T
  PROVE  S \in T
<1> SUFFICES ASSUME S \notin T PROVE FALSE
  OBVIOUS
<1> DEFINE Left == {s \in SUBSET S : s \notin T}
<1>1. PICK s \in Left : \A t \in Left : t \subseteq s => t = s
  <2>1. S \in Left /\ Left \in SUBSET SUBSET S
    OBVIOUS
  <2> HIDE DEF Left
  <2> QED
    BY <2>1, Smallest
<1>2. PICK x \in s : TRUE
  BY <1>1
<1>3. s \ {x} \notin Left
  BY <1>1, <1>2
<1>4. s \ {x} \in T /\ s \ {x} \in SUBSET S /\ x \in S \ (s \ {x})
  BY <1>2, <1>3
<1>5. (s \ {x}) \cup {x} \in T
  BY <1>4
<1>6. (s \ {x}) \cup {x} = s
  BY <1>2
<1> QED
  BY <1>5, <1>6

\* A set of sequences that has <<>> and, with a sequence, each that is longer by
\* one element has all of them.
LEMMA GrowingSeq ==
  ASSUME NEW S, NEW T, <<>> \in T,
         \A s \in Seq(S) : \A e \in S : s \in T => Append(s, e) \in T
  PROVE  Seq(S) \subseteq T
<1> SUFFICES ASSUME NEW z \in Seq(S), z \notin T PROVE FALSE
  OBVIOUS
<1> DEFINE Bad == {s \in Seq(S) : s \notin T}
           Lens == {Len(s) : s \in Bad}
<1>1. Lens \subseteq Nat /\ Len(z) \in Lens
  <2>1. \A s \in Seq(S) : Len(s) \in Nat
    BY LenProperties
  <2> QED
    BY <2>1
<1>2. PICK n \in Lens : \A k \in Lens : ~(<<k, n>> \in OpToRel(<, Nat))
  <2> HIDE DEF Lens
  <2> QED
    BY <1>1, NatLessThanWellFounded, WFMin
<1>3. PICK s \in Bad : Len(s) = n
  OBVIOUS
<1>4. PICK r \in Seq(S), e \in S : s = Append(r, e)
  BY <1>3, SequenceEmptyOrAppend
<1>5. Len(r) \in Nat /\ n = Len(r) + 1
  BY <1>3, <1>4, LenProperties, AppendProperties
<1>6. r \in Bad
  BY <1>3, <1>4
<1>7. Len(r) \in Lens /\ <<Len(r), n>> \in OpToRel(<, Nat)
  BY <1>5, <1>6 DEF OpToRel
<1> QED
  BY <1>2, <1>7

-----------------------------------------------------------------------------
LEMMA FoldDef ==
  ASSUME NEW base, NEW g, NEW S
  PROVE  Fold(base, g, S) = (CHOOSE it : Folds(base, g, SUBSET S, it))[S]
BY DEF Fold, MapThenFoldSet, Folds

LEMMA OneFold ==
  ASSUME NEW base, NEW S, IsFiniteSet(S), Chooses(S), NEW g, NEW h, NEW a, NEW b,
         \A x \in S : g[x] = h[x],
         NEW D, NEW E, SUBSET S \subseteq D, SUBSET S \subseteq E,
         Folds(base, g, D, a), Folds(base, h, E, b)
  PROVE  a[S] = b[S]
<1> DEFINE T == {s \in SUBSET S : a[s] # b[s]}
<1> SUFFICES ASSUME T # {} PROVE FALSE
  OBVIOUS
<1>1. PICK s \in T : \A t \in T : t \subseteq s => t = s
  <2>1. T \in SUBSET SUBSET S
    OBVIOUS
  <2> HIDE DEF T
  <2> QED
    BY <2>1, Smallest
<1>2. /\ a[s] = IF s = {} THEN base ELSE op(a[s \ {choose(s)}], g[choose(s)])
      /\ b[s] = IF s = {} THEN base ELSE op(b[s \ {choose(s)}], h[choose(s)])
  BY <1>1 DEF Folds
<1>3. s # {} => choose(s) \in s /\ choose(s) \in S /\ s \ {choose(s)} \in SUBSET S
  BY <1>1 DEF Chooses
<1>4. s # {} => a[s \ {choose(s)}] = b[s \ {choose(s)}]
  BY <1>1, <1>3
<1> QED
  BY <1>1, <1>2, <1>3, <1>4

\* There is a function as MapThenFoldSet chooses it, for each finite set.
LEMMA FoldExists ==
  ASSUME NEW base, NEW S, IsFiniteSet(S), Chooses(S), NEW g
  PROVE  \E it : Folds(base, g, SUBSET S, it)
<1> DEFINE Good(u) == \E f : Folds(base, g, SUBSET u, f)
           Bad == {s \in SUBSET S : ~Good(s)}
<1> SUFFICES ASSUME Bad # {} PROVE FALSE
  BY DEF Bad
<1>1. PICK s \in Bad : \A t \in Bad : t \subseteq s => t = s
  <2>1. Bad \in SUBSET SUBSET S
    OBVIOUS
  <2> HIDE DEF Bad
  <2> QED
    BY <2>1, Smallest
<1>2. s \in SUBSET S /\ IsFiniteSet(s) /\ Chooses(s)
  BY <1>1, FS_Subset DEF Chooses
<1>3. ASSUME NEW t \in SUBSET s, t # s
      PROVE Good(t) /\ Folds(base, g, SUBSET t, CHOOSE it : Folds(base, g, SUBSET t, it))
  <2>1. Good(t)
    BY <1>1, <1>2, <1>3
  <2> QED
    BY <2>1
<1>4. ASSUME NEW t \in SUBSET s, t # s, t # {}
      PROVE Fold(base, g, t) = op(Fold(base, g, t \ {choose(t)}), g[choose(t)])
  <2> DEFINE u == t \ {choose(t)}
             f == CHOOSE it : Folds(base, g, SUBSET t, it)
             h == CHOOSE it : Folds(base, g, SUBSET u, it)
  <2>1. choose(t) \in t /\ t \in SUBSET S /\ u \in SUBSET s /\ u # s /\ u \in SUBSET S
        /\ IsFiniteSet(u) /\ Chooses(u)
    BY <1>2, <1>4, FS_Subset DEF Chooses
  <2>2. Folds(base, g, SUBSET t, f) /\ Folds(base, g, SUBSET u, h)
    BY <1>3, <1>4, <2>1
  <2>3. f[t] = op(f[u], g[choose(t)])
    BY <1>4, <2>2 DEF Folds
  <2>4. f[u] = h[u]
    <3>1. SUBSET u \subseteq SUBSET t
      BY <2>1
    <3> HIDE DEF u, f, h
    <3> QED
      BY <2>1, <2>2, <3>1, OneFold
  <2>5. Fold(base, g, t) = f[t] /\ Fold(base, g, u) = h[u]
    BY FoldDef
  <2> QED
    BY <2>3, <2>4, <2>5
<1>5. CASE s = {}
  <2>1. Folds(base, g, SUBSET {}, [t \in SUBSET {} |-> base])
    BY DEF Folds
  <2> QED
    BY <1>1, <1>5, <2>1
<1>6. CASE s # {}
  <2> DEFINE v == op(Fold(base, g, s \ {choose(s)}), g[choose(s)])
             f == [t \in SUBSET s |-> IF t = s THEN v ELSE Fold(base, g, t)]
  <2>1. choose(s) \in s
    BY <1>2, <1>6 DEF Chooses
  <2>2. Fold(base, g, {}) = base
    <3>1. {} \in SUBSET s /\ {} # s
      BY <1>6
    <3>2. Folds(base, g, SUBSET {}, CHOOSE it : Folds(base, g, SUBSET {}, it))
      BY <1>3, <3>1
    <3> QED
      BY <3>2, FoldDef DEF Folds
  <2>3. ASSUME NEW t \in SUBSET s
        PROVE f[t] = IF t = {} THEN base ELSE op(f[t \ {choose(t)}], g[choose(t)])
    <3>1. CASE t = {}
      BY <1>6, <2>2, <3>1
    <3>2. CASE t = s
      BY <1>6, <2>1, <3>2
    <3>3. CASE t # {} /\ t # s
      <4>1. choose(t) \in t
        BY <1>2, <3>3 DEF Chooses
      <4>2. t \ {choose(t)} \in SUBSET s /\ t \ {choose(t)} # s
        BY <4>1
      <4>3. f[t] = Fold(base, g, t) /\ f[t \ {choose(t)}] = Fold(base, g, t \ {choose(t)})
        BY <3>3, <4>2
      <4> QED
        BY <1>4, <3>3, <4>3
    <3> QED
      BY <3>1, <3>2, <3>3
  <2>4. Folds(base, g, SUBSET s, f)
    <3>1. f = [t \in SUBSET s |-> f[t]]
      OBVIOUS
    <3> HIDE DEF f
    <3> QED
      BY <2>3, <3>1 DEF Folds
  <2> QED
    BY <1>1, <2>4
<1> QED
  BY <1>5, <1>6

\* Of nothing, a fold is its base.
THEOREM FoldEmpty == ASSUME NEW base, NEW g PROVE Fold(base, g, {}) = base
<1>1. Folds(base, g, SUBSET {}, CHOOSE it : Folds(base, g, SUBSET {}, it))
  BY FoldExists, FS_EmptySet DEF Chooses
<1> QED
  BY <1>1, FoldDef DEF Folds

\* The value of the element that is chosen comes last.
THEOREM FoldLast ==
  ASSUME NEW base, NEW S, IsFiniteSet(S), Chooses(S), S # {}, NEW g
  PROVE  Fold(base, g, S) = op(Fold(base, g, S \ {choose(S)}), g[choose(S)])
<1> DEFINE T == S \ {choose(S)}
           f == CHOOSE it : Folds(base, g, SUBSET S, it)
           h == CHOOSE it : Folds(base, g, SUBSET T, it)
<1>1. IsFiniteSet(T) /\ Chooses(T) /\ T \in SUBSET S
  BY FS_Subset DEF Chooses
<1>2. Folds(base, g, SUBSET S, f) /\ Folds(base, g, SUBSET T, h)
  <2> HIDE DEF T
  <2> QED
    BY <1>1, FoldExists
<1>3. f[S] = op(f[T], g[choose(S)])
  BY <1>2 DEF Folds
<1>4. f[T] = h[T]
  <2>1. SUBSET T \subseteq SUBSET S
    BY <1>1
  <2> HIDE DEF T, f, h
  <2> QED
    BY <1>1, <1>2, <2>1, OneFold
<1> QED
  BY <1>3, <1>4, FoldDef

\* A fold depends on the values of the elements of its set only.
THEOREM FoldSame ==
  ASSUME NEW base, NEW S, IsFiniteSet(S), Chooses(S), NEW g, NEW h, \A x \in S : g[x] = h[x]
  PROVE  Fold(base, g, S) = Fold(base, h, S)
<1>1. /\ Folds(base, g, SUBSET S, CHOOSE it : Folds(base, g, SUBSET S, it))
      /\ Folds(base, h, SUBSET S, CHOOSE it : Folds(base, h, SUBSET S, it))
  BY FoldExists
<1>2. /\ Fold(base, g, S) = (CHOOSE it : Folds(base, g, SUBSET S, it))[S]
      /\ Fold(base, h, S) = (CHOOSE it : Folds(base, h, SUBSET S, it))[S]
  BY FoldDef
<1> QED
  BY <1>1, <1>2, OneFold

-----------------------------------------------------------------------------
\* A fold over the places of a sequence takes the last one last, as FoldLeft does.
ChoosesLast(n) ==
  \A S \in SUBSET (1..n) : S # {} => choose(S) \in S /\ \A x \in S : x <= choose(S)

THEOREM FoldAppend ==
  ASSUME NEW n \in Nat, ChoosesLast(n + 1), NEW base, NEW g, NEW h, \A i \in 1..n : g[i] = h[i]
  PROVE  Fold(base, h, 1..(n + 1)) = op(Fold(base, g, 1..n), h[n + 1])
<1> DEFINE S == 1..(n + 1)
           T == 1..n
<1>1. IsFiniteSet(S) /\ IsFiniteSet(T)
  <2>1. 1 \in Int /\ n \in Int /\ n + 1 \in Int
    OBVIOUS
  <2> HIDE DEF S, T
  <2> QED
    BY <2>1, FS_Interval, Zenon DEF S, T
<1>2. Chooses(S) /\ T \in SUBSET S
  <2>1. T \in SUBSET S
    OBVIOUS
  <2> QED
    BY <2>1, Zenon DEF ChoosesLast, Chooses
<1>3. Chooses(T)
  BY <1>2 DEF Chooses
<1>4. S # {} /\ choose(S) = n + 1
  <2>1. n + 1 \in S
    OBVIOUS
  <2>2. choose(S) \in S /\ n + 1 <= choose(S)
    BY <2>1 DEF ChoosesLast
  <2> QED
    BY <2>1, <2>2
<1>5. S \ {n + 1} = T
  OBVIOUS
<1>6. Fold(base, h, S) = op(Fold(base, h, T), h[n + 1])
  <2> HIDE DEF S, T
  <2> QED
    BY <1>1, <1>2, <1>4, <1>5, FoldLast
<1>7. Fold(base, g, T) = Fold(base, h, T)
  BY <1>1, <1>3, FoldSame
<1> QED
  BY <1>6, <1>7

\* The highest place is such a choice.
THEOREM MaxIsLast ==
  ASSUME NEW n \in Nat, NEW P \in SUBSET (1..n), P # {}
  PROVE  Max(P) \in P /\ \A x \in P : x <= Max(P)
<1> DEFINE T == {s \in SUBSET P : s # {} => \E a \in s : \A b \in s : b <= a}
<1>1. {} \in T
  OBVIOUS
<1>2. ASSUME NEW s \in SUBSET P, NEW x \in P \ s, s \in T PROVE s \cup {x} \in T
  <2>1. x \in Nat /\ \A b \in s : b \in Nat
    OBVIOUS
  <2>2. CASE s = {}
    BY <2>1, <2>2
  <2>3. CASE s # {}
    <3>1. PICK hi \in s : \A b \in s : b <= hi
      BY <1>2, <2>3
    <3>2. \E a \in s \cup {x} : \A b \in s \cup {x} : b <= a
      <4>1. CASE x <= hi
        BY <3>1, <4>1
      <4>2. CASE hi <= x
        BY <2>1, <3>1, <4>2
      <4> QED
        BY <2>1, <4>1, <4>2
    <3> QED
      BY <3>2
  <2> QED
    BY <2>2, <2>3
<1>3. P \in T
  <2>1. IsFiniteSet(P)
    <3>1. 1 \in Int /\ n \in Int /\ IsFiniteSet(1..n)
      BY FS_Interval
    <3> QED
      BY <3>1, FS_Subset
  <2> HIDE DEF T
  <2> QED
    BY <1>1, <1>2, <2>1, Growing
<1>4. PICK hi \in P : \A b \in P : b <= hi
  BY <1>3
<1>5. \A b \in P : hi >= b
  BY <1>4
<1> QED
  BY <1>5 DEF Max

\* So the fold of a sequence takes the value at its end last.
THEOREM FoldOne ==
  ASSUME NEW S, NEW s \in Seq(S), NEW e \in S, NEW base, ChoosesLast(Len(s) + 1)
  PROVE  Fold(base, Append(s, e), DOMAIN Append(s, e)) = op(Fold(base, s, DOMAIN s), e)
<1>1. /\ Len(s) \in Nat /\ DOMAIN s = 1..Len(s) /\ DOMAIN Append(s, e) = 1..(Len(s) + 1)
      /\ Append(s, e)[Len(s) + 1] = e /\ \A i \in 1..Len(s) : s[i] = Append(s, e)[i]
  <2>1. Append(s, e) \in Seq(S) /\ Len(Append(s, e)) = Len(s) + 1
    BY AppendProperties
  <2> QED
    BY <2>1, LenProperties, AppendProperties
<1> DEFINE l == Append(s, e)
           k == Len(s)
<1> HIDE DEF l, k
<1>2. k \in Nat /\ ChoosesLast(k + 1) /\ \A i \in 1..k : s[i] = l[i]
  BY <1>1 DEF l, k
<1>3. Fold(base, l, 1..(k + 1)) = op(Fold(base, s, 1..k), l[k + 1])
  BY <1>2, FoldAppend
<1> QED
  BY <1>1, <1>3 DEF l, k

-----------------------------------------------------------------------------
\* Values among which the order of the operations does not matter.
Commutes(V) ==
  /\ \A a, v \in V : op(a, v) \in V
  /\ \A a, v, w \in V : op(op(a, v), w) = op(op(a, w), v)

\* The fold of such values is one of them.
THEOREM FoldIn ==
  ASSUME NEW S, IsFiniteSet(S), Chooses(S), NEW V, Commutes(V), NEW base \in V,
         NEW g, \A x \in S : g[x] \in V
  PROVE  Fold(base, g, S) \in V
<1> DEFINE T == {s \in SUBSET S : Fold(base, g, s) \notin V}
<1> SUFFICES ASSUME T # {} PROVE FALSE
  OBVIOUS
<1>1. PICK s \in T : \A t \in T : t \subseteq s => t = s
  <2>1. T \in SUBSET SUBSET S
    OBVIOUS
  <2> HIDE DEF T
  <2> QED
    BY <2>1, Smallest
<1>2. s \in SUBSET S /\ IsFiniteSet(s) /\ Chooses(s)
  BY <1>1, FS_Subset DEF Chooses
<1>3. s # {}
  BY <1>1, FoldEmpty DEF Commutes
<1>4. Fold(base, g, s) = op(Fold(base, g, s \ {choose(s)}), g[choose(s)])
  BY <1>2, <1>3, FoldLast
<1>5. choose(s) \in s /\ g[choose(s)] \in V
  BY <1>2, <1>3 DEF Chooses
<1>6. Fold(base, g, s \ {choose(s)}) \in V
  <2> DEFINE t == s \ {choose(s)}
  <2>1. t \in SUBSET S /\ t \subseteq s /\ t # s
    BY <1>2, <1>5
  <2> HIDE DEF t
  <2>2. t \notin T
    BY <1>1, <2>1
  <2> QED
    BY <2>1, <2>2 DEF t
<1> QED
  BY <1>1, <1>4, <1>5, <1>6, ZenonT(30) DEF Commutes

\* Any element may be taken last, whatever is chosen.
THEOREM FoldAny ==
  ASSUME NEW S, IsFiniteSet(S), Chooses(S), NEW V, Commutes(V), NEW base \in V,
         NEW g, \A x \in S : g[x] \in V, NEW x \in S
  PROVE  Fold(base, g, S) = op(Fold(base, g, S \ {x}), g[x])
<1> DEFINE Same(s) == \A y \in s : Fold(base, g, s) = op(Fold(base, g, s \ {y}), g[y])
           T == {s \in SUBSET S : ~Same(s)}
<1> SUFFICES ASSUME T # {} PROVE FALSE
  OBVIOUS
<1>1. PICK s \in T : \A t \in T : t \subseteq s => t = s
  <2>1. T \in SUBSET SUBSET S
    OBVIOUS
  <2> HIDE DEF T
  <2> QED
    BY <2>1, Smallest
<1>2. PICK y \in s : Fold(base, g, s) # op(Fold(base, g, s \ {y}), g[y])
  BY <1>1
<1> DEFINE z == choose(s)
           r == s \ {y, z}
<1>3. /\ s \in SUBSET S /\ IsFiniteSet(s) /\ Chooses(s) /\ s # {}
      /\ r \in SUBSET S /\ IsFiniteSet(r) /\ Chooses(r)
  BY <1>1, <1>2, FS_Subset DEF Chooses
<1>4. z \in s /\ Fold(base, g, s) = op(Fold(base, g, s \ {z}), g[z])
  BY <1>3, FoldLast DEF Chooses
<1>5. y # z
  BY <1>2, <1>4
<1>6. Same(s \ {z}) /\ Same(s \ {y})
  <2>1. s \ {z} \in SUBSET S /\ s \ {y} \in SUBSET S /\ s \ {z} # s /\ s \ {y} # s
    BY <1>2, <1>3, <1>4
  <2> HIDE DEF z, Same
  <2> QED
    BY <1>1, <2>1
<1>7. (s \ {z}) \ {y} = r /\ (s \ {y}) \ {z} = r /\ y \in s \ {z} /\ z \in s \ {y}
  BY <1>2, <1>4, <1>5
<1>8. Fold(base, g, s \ {z}) = op(Fold(base, g, r), g[y]) /\ Fold(base, g, s \ {y}) = op(Fold(base, g, r), g[z])
  <2> HIDE DEF z, r
  <2> QED
    BY <1>6, <1>7
<1>9. Fold(base, g, r) \in V /\ g[y] \in V /\ g[z] \in V
  <2>1. \A i \in r : g[i] \in V
    BY <1>3
  <2>2. g[y] \in V /\ g[z] \in V
    BY <1>2, <1>3, <1>4
  <2> HIDE DEF z, r
  <2> QED
    BY <1>3, <2>1, <2>2, FoldIn
<1>10. op(op(Fold(base, g, r), g[y]), g[z]) = op(op(Fold(base, g, r), g[z]), g[y])
  <2>1. \A a, v, w \in V : op(op(a, v), w) = op(op(a, w), v)
    BY DEF Commutes
  <2> HIDE DEF z, r
  <2> QED
    BY <1>9, <2>1
<1> HIDE DEF z, r
<1> QED
  BY <1>2, <1>4, <1>8, <1>10
=============================================================================
