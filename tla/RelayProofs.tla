----------------------------- MODULE RelayProofs -----------------------------
(***************************************************************************)
(* The lock of a dev stream and the bodies of a work call, whatever        *)
(* upstream sends and whenever the client leaves.                          *)
(***************************************************************************)
EXTENDS WorkRelay, SequenceTheorems, TLAPS

\* Who is inside a write, and who has the lock.
LockOK ==
  /\ "relay" \in inWrite <=> pc = "writing"
  /\ "ping" \in inWrite <=> ping = "writing"
  /\ ping = "writing" => mu = "ping"
  /\ pc = "writing" /\ UnderLock(Head(todo)) => mu = "relay"

LEMMA StepLock == LockOK /\ [NextS]_svars => LockOK'
<1> SUFFICES ASSUME LockOK, [NextS]_svars PROVE LockOK'
  OBVIOUS
<1> USE DEF LockOK
<1>1. ASSUME NEW ev \in Events, Receive(ev) PROVE LockOK'
  <2>1. pc' # "writing" /\ pc # "writing" /\ UNCHANGED <<mu, inWrite, ping>>
    BY <1>1 DEF Receive, Output, TokenUsage, NotifyUsage, Done, Error, Other, Write
  <2> QED
    BY <2>1
<1>2. CASE EndOfStream
  BY <1>2 DEF EndOfStream, Return, Write
<1>3. CASE ReadFails
  BY <1>3 DEF ReadFails, Return
<1>4. CASE BeginWrite
  BY <1>4 DEF BeginWrite
<1>5. CASE EndWrite
  <2>1. pc = "writing" /\ pc' # "writing" /\ inWrite' = inWrite \ {"relay"} /\ ping' = ping
    BY <1>5 DEF EndWrite, Write, Return
  <2>2. UnderLock(Head(todo)) \/ mu' = mu
    BY <1>5 DEF EndWrite, Unlock
  <2> QED
    BY <2>1, <2>2
<1>6. CASE Leave
  BY <1>6 DEF Leave
<1>7. CASE Tick
  BY <1>7 DEF Tick
<1>8. CASE PingStops
  BY <1>8 DEF PingStops
<1>9. CASE BeginPing
  BY <1>9 DEF BeginPing
<1>10. CASE EndPing
  BY <1>10 DEF EndPing
<1>11. CASE UNCHANGED svars
  BY <1>11 DEF svars
<1> QED
  BY <1>1, <1>2, <1>3, <1>4, <1>5, <1>6, <1>7, <1>8, <1>9, <1>10, <1>11
     DEF NextS, Relay, Ping

\* A ping and a chunk or a DONE are never written at the same time.
THEOREM PingsAreApart == SpecS => []OnlyErrorsMeetPings
<1>1. InitS => LockOK
  BY DEF InitS, LockOK
<1>2. LockOK => OnlyErrorsMeetPings
  BY DEF LockOK, OnlyErrorsMeetPings, UnderLock
<1> QED
  BY <1>1, <1>2, StepLock, PTL DEF SpecS

-----------------------------------------------------------------------------
(* Folds through sequences. *)

Gathers == INSTANCE FoldFacts WITH op <- Gathered, choose <- Max
Merges == INSTANCE FoldFacts WITH op <- MergeCall, choose <- Max
Joins == INSTANCE FoldFacts WITH op <- Join, choose <- Max

LEMMA LastIsChosen ==
  ASSUME NEW k \in Nat
  PROVE  Gathers!ChoosesLast(k) /\ Merges!ChoosesLast(k) /\ Joins!ChoosesLast(k)
<1>1. ASSUME NEW P \in SUBSET (1..k), P # {} PROVE Max(P) \in P /\ \A x \in P : x <= Max(P)
  <2>1. Max(P) = Joins!Max(P)
    BY DEF Max, Joins!Max
  <2> QED
    BY <1>1, <2>1, Joins!MaxIsLast
<1> QED
  BY <1>1 DEF Gathers!ChoosesLast, Merges!ChoosesLast, Joins!ChoosesLast

\* The last element of a sequence is the last argument.
LEMMA GatherOne ==
  ASSUME NEW S, NEW s \in Seq(S), NEW e \in S
  PROVE  Gather(Append(s, e)) = Gathered(Gather(s), e)
<1>1. \A l : Gather(l) = Gathers!Fold(Blank, l, DOMAIN l)
  BY DEF Gather, FoldLeft, Gathers!Fold, MapThenFoldSet, Gathers!MapThenFoldSet
<1>2. Gathers!ChoosesLast(Len(s) + 1)
  BY LastIsChosen, LenProperties
<1> QED
  BY <1>1, <1>2, Gathers!FoldOne

LEMMA MergeOne ==
  ASSUME NEW S, NEW s \in Seq(S), NEW e \in S, NEW calls
  PROVE  MergeCalls(calls, Append(s, e)) = MergeCall(MergeCalls(calls, s), e)
<1>1. \A l : MergeCalls(calls, l) = Merges!Fold(calls, l, DOMAIN l)
  BY DEF MergeCalls, FoldLeft, Merges!Fold, MapThenFoldSet, Merges!MapThenFoldSet
<1>2. Merges!ChoosesLast(Len(s) + 1)
  BY LastIsChosen, LenProperties
<1>3. Merges!Fold(calls, Append(s, e), DOMAIN Append(s, e)) = MergeCall(Merges!Fold(calls, s, DOMAIN s), e)
  BY <1>2, Merges!FoldOne
<1> QED
  BY <1>1, <1>3

LEMMA JoinOne ==
  ASSUME NEW S, NEW s \in Seq(S), NEW e \in S
  PROVE  Joined(Append(s, e)) = Joined(s) \o e
<1>1. \A l : Joined(l) = Joins!Fold(<<>>, l, DOMAIN l)
  BY DEF Joined, FoldLeft, Joins!Fold, MapThenFoldSet, Joins!MapThenFoldSet
<1>2. Joins!ChoosesLast(Len(s) + 1)
  BY LastIsChosen, LenProperties
<1> QED
  BY <1>1, <1>2, Joins!FoldOne DEF Join

\* Nothing is folded of an empty sequence.
LEMMA FoldNone ==
  Gather(<<>>) = Blank /\ Joined(<<>>) = <<>> /\ \A calls : MergeCalls(calls, <<>>) = calls
<1>1. DOMAIN <<>> = {}
  OBVIOUS
<1>2. Gather(<<>>) = Gathers!Fold(Blank, <<>>, {})
  BY <1>1 DEF Gather, FoldLeft, Gathers!Fold, MapThenFoldSet, Gathers!MapThenFoldSet
<1>3. \A calls : MergeCalls(calls, <<>>) = Merges!Fold(calls, <<>>, {})
  BY <1>1 DEF MergeCalls, FoldLeft, Merges!Fold, MapThenFoldSet, Merges!MapThenFoldSet
<1>4. Joined(<<>>) = Joins!Fold(<<>>, <<>>, {})
  BY <1>1 DEF Joined, FoldLeft, Joins!Fold, MapThenFoldSet, Joins!MapThenFoldSet
<1> QED
  BY <1>2, <1>3, <1>4, Gathers!FoldEmpty, Merges!FoldEmpty, Joins!FoldEmpty

LEMMA LastOfOne ==
  ASSUME NEW S, NEW s \in Seq(S), NEW e \in S, NEW absent
  PROVE  LastOf(Append(s, e), absent) = IF e = absent THEN LastOf(s, absent) ELSE e
<1> DEFINE l == Append(s, e)
           k == Len(s)
           there == {i \in DOMAIN s : s[i] # absent}
           after == {i \in DOMAIN l : l[i] # absent}
<1>1. /\ k \in Nat /\ DOMAIN s = 1..k /\ DOMAIN l = 1..(k + 1) /\ l[k + 1] = e
      /\ \A i \in 1..k : l[i] = s[i]
  <2>1. l \in Seq(S) /\ Len(l) = Len(s) + 1
    BY AppendProperties
  <2> QED
    BY <2>1, LenProperties, AppendProperties
<1> HIDE DEF l, k
<1>2. \A i \in DOMAIN l : i \in DOMAIN s \/ i = k + 1
  BY <1>1
<1>3. LastOf(s, absent) = IF there = {} THEN absent ELSE s[Max(there)]
  BY DEF LastOf
<1>4. LastOf(l, absent) = IF after = {} THEN absent ELSE l[Max(after)]
  BY DEF LastOf
<1>5. CASE e = absent
  <2>1. after = there
    BY <1>1, <1>2, <1>5
  <2>2. there # {} => Max(there) \in 1..k
    <3>1. there \in SUBSET (1..k) /\ Max(there) = Joins!Max(there)
      BY <1>1 DEF Max, Joins!Max
    <3> HIDE DEF there
    <3> QED
      BY <1>1, <3>1, Joins!MaxIsLast
  <2> QED
    BY <1>1, <1>3, <1>4, <1>5, <2>1, <2>2 DEF l
<1>6. CASE e # absent
  <2>1. k + 1 \in after /\ after \in SUBSET (1..(k + 1)) /\ k + 1 \in Nat
    BY <1>1, <1>6
  <2>2. Max(after) \in after /\ k + 1 <= Max(after)
    <3>1. Max(after) = Joins!Max(after)
      BY DEF Max, Joins!Max
    <3> HIDE DEF after
    <3> QED
      BY <2>1, <3>1, Joins!MaxIsLast
  <2>3. Max(after) = k + 1
    <3>1. Max(after) \in 1..(k + 1)
      BY <2>1, <2>2
    <3> HIDE DEF after
    <3> QED
      BY <1>1, <2>2, <3>1
  <2> HIDE DEF after
  <2> QED
    BY <1>1, <1>4, <1>6, <2>1, <2>3 DEF l
<1> QED
  BY <1>5, <1>6

LEMMA LastOfNone == ASSUME NEW absent PROVE LastOf(<<>>, absent) = absent
BY DEF LastOf

-----------------------------------------------------------------------------
(* What a client makes of the frames, frame by frame. *)

LEMMA JoinedType ==
  ASSUME NEW S
  PROVE  \A s \in Seq(Seq(S)) : Joined(s) \in Seq(S)
<1> DEFINE T == {s \in Seq(Seq(S)) : Joined(s) \in Seq(S)}
<1>1. <<>> \in T
  BY FoldNone, EmptySeq
<1>2. ASSUME NEW s \in Seq(Seq(S)), NEW e \in Seq(S), s \in T PROVE Append(s, e) \in T
  <2>1. Append(s, e) \in Seq(Seq(S))
    BY AppendProperties
  <2>2. Joined(Append(s, e)) = Joined(s) \o e
    BY JoinOne
  <2>3. Joined(s) \o e \in Seq(S)
    BY <1>2, ConcatProperties
  <2> QED
    BY <2>1, <2>2, <2>3
<1>3. Seq(Seq(S)) \subseteq T
  <2> HIDE DEF T
  <2> QED
    BY <1>1, <1>2, Joins!GrowingSeq
<1> QED
  BY <1>3

\* What a piece has for a call.
ItOf(p, index, field, absent) == IF p.index = index THEN p[field] ELSE absent

LEMMA ItsOne ==
  ASSUME NEW T, NEW ps \in Seq(Piece), NEW p \in Piece, NEW index, NEW field, NEW absent \in T,
         \A q \in Piece : q[field] \in T
  PROVE  /\ Its(ps, index, field, absent) \in Seq(T)
         /\ ItOf(p, index, field, absent) \in T
         /\ Its(Append(ps, p), index, field, absent) =
              Append(Its(ps, index, field, absent), ItOf(p, index, field, absent))
<1> DEFINE l == Append(ps, p)
           k == Len(ps)
           x == ItOf(p, index, field, absent)
           f == Its(ps, index, field, absent)
           g == Its(l, index, field, absent)
<1>1. /\ k \in Nat /\ DOMAIN ps = 1..k /\ DOMAIN l = 1..(k + 1) /\ l[k + 1] = p
      /\ \A i \in 1..k : l[i] = ps[i] /\ ps[i] \in Piece
  <2>1. l \in Seq(Piece) /\ Len(l) = Len(ps) + 1
    BY AppendProperties
  <2> QED
    BY <2>1, LenProperties, AppendProperties, ElementOfSeq
<1>2. x \in T
  BY DEF ItOf
<1> HIDE DEF l, k
<1>3. f = [i \in 1..k |-> IF ps[i].index = index THEN ps[i][field] ELSE absent]
  BY <1>1 DEF Its
<1>4. f \in Seq(T) /\ Len(f) = k
  BY <1>1, <1>3
<1>5. g = [i \in 1..(k + 1) |-> IF l[i].index = index THEN l[i][field] ELSE absent]
  BY <1>1 DEF Its
<1> HIDE DEF f, g, x
<1>6. g = Append(f, x)
  <2>1. Append(f, x) \in Seq(T) /\ Len(Append(f, x)) = k + 1
    BY <1>2, <1>4, AppendProperties
  <2>2. g \in Seq(T) /\ Len(g) = k + 1
    BY <1>1, <1>5
  <2>3. \A i \in 1..(k + 1) : g[i] = Append(f, x)[i]
    <3> TAKE i \in 1..(k + 1)
    <3>1. CASE i \in 1..k
      <4>1. Append(f, x)[i] = f[i]
        BY <1>2, <1>4, <3>1, AppendProperties
      <4> QED
        BY <1>1, <1>3, <1>5, <3>1, <4>1
    <3>2. CASE i = k + 1
      <4>1. Append(f, x)[k + 1] = x
        BY <1>2, <1>4, AppendProperties
      <4> QED
        BY <1>1, <1>5, <3>2, <4>1 DEF x, ItOf
    <3>3. i \in 1..k \/ i = k + 1
      <4>1. k \in Nat
        BY <1>1
      <4> QED
        BY <4>1
    <3> QED
      BY <3>1, <3>2, <3>3
  <2> QED
    BY <2>1, <2>2, <2>3, SeqEqual
<1> QED
  BY <1>2, <1>4, <1>6 DEF f, g, l, x

\* What a field of a name can be; the provers do not know that "" is a string.
Words == STRING \cup {"", "stop"}

\* The fields of the frames.
WireFrame ==
  [kind : {"chunk", "done", "error"}, text : Seq(Nat), reasoning : Seq(Nat), calls : Seq(Piece),
   finish : Words, usage : Nat \cup {None}]

LEMMA OfOne ==
  ASSUME NEW T, NEW fs \in Seq(WireFrame), NEW frame \in WireFrame, NEW field,
         \A q \in WireFrame : q[field] \in T
  PROVE  /\ Of(fs, field) \in Seq(T) /\ frame[field] \in T
         /\ Of(Append(fs, frame), field) = Append(Of(fs, field), frame[field])
<1> DEFINE l == Append(fs, frame)
           k == Len(fs)
           f == Of(fs, field)
           g == Of(l, field)
<1>1. /\ k \in Nat /\ DOMAIN fs = 1..k /\ DOMAIN l = 1..(k + 1) /\ l[k + 1] = frame
      /\ \A i \in 1..k : l[i] = fs[i] /\ fs[i] \in WireFrame
  <2>1. l \in Seq(WireFrame) /\ Len(l) = Len(fs) + 1
    BY AppendProperties
  <2> QED
    BY <2>1, LenProperties, AppendProperties, ElementOfSeq
<1> HIDE DEF l, k
<1>2. frame[field] \in T
  OBVIOUS
<1>3. f = [i \in 1..k |-> fs[i][field]]
  BY <1>1 DEF Of
<1>4. f \in Seq(T) /\ Len(f) = k
  BY <1>1, <1>3
<1>5. g = [i \in 1..(k + 1) |-> l[i][field]]
  BY <1>1 DEF Of
<1> HIDE DEF f, g
<1>6. g = Append(f, frame[field])
  <2>1. Append(f, frame[field]) \in Seq(T) /\ Len(Append(f, frame[field])) = k + 1
    BY <1>2, <1>4, AppendProperties
  <2>2. g \in Seq(T) /\ Len(g) = k + 1
    BY <1>1, <1>2, <1>5
  <2>3. \A i \in 1..(k + 1) : g[i] = Append(f, frame[field])[i]
    <3> TAKE i \in 1..(k + 1)
    <3>1. CASE i \in 1..k
      <4>1. Append(f, frame[field])[i] = f[i]
        BY <1>2, <1>4, <3>1, AppendProperties
      <4> QED
        BY <1>1, <1>3, <1>5, <3>1, <4>1
    <3>2. CASE i = k + 1
      <4>1. Append(f, frame[field])[k + 1] = frame[field]
        BY <1>2, <1>4, AppendProperties
      <4> QED
        BY <1>1, <1>5, <3>2, <4>1
    <3>3. i \in 1..k \/ i = k + 1
      <4>1. k \in Nat
        BY <1>1
      <4> QED
        BY <4>1
    <3> QED
      BY <3>1, <3>2, <3>3
  <2> QED
    BY <2>1, <2>2, <2>3, SeqEqual
<1> QED
  BY <1>2, <1>4, <1>6 DEF f, g, l

CallIndexes(ps) == {ps[k].index : k \in DOMAIN ps}

LEMMA IndexOne ==
  ASSUME NEW ps \in Seq(Piece), NEW p \in Piece
  PROVE  CallIndexes(Append(ps, p)) = CallIndexes(ps) \cup {p.index}
<1> DEFINE l == Append(ps, p)
           k == Len(ps)
<1>1. /\ k \in Nat /\ DOMAIN ps = 1..k /\ DOMAIN l = 1..(k + 1) /\ l[k + 1] = p
      /\ \A i \in 1..k : l[i] = ps[i]
  <2>1. l \in Seq(Piece)
    BY AppendProperties
  <2> QED
    BY <2>1, LenProperties, AppendProperties
<1> HIDE DEF k, l
<1>2. \A i : i \in 1..(k + 1) <=> i \in 1..k \/ i = k + 1
  <2>1. k \in Nat
    BY <1>1
  <2> QED
    BY <2>1
<1>3. CallIndexes(l) = CallIndexes(ps) \cup {p.index}
  BY <1>1, <1>2 DEF CallIndexes
<1> QED
  BY <1>3 DEF l

\* A tool call that no piece is of has nothing.
LEMMA NoPieces ==
  ASSUME NEW index
  PROVE  \A ps \in Seq(Piece) : index \notin CallIndexes(ps) => ClientCall(ps, index) = NoCall
<1> DEFINE Args(ps) == Joined(Its(ps, index, "args", <<>>))
           T == {ps \in Seq(Piece) : index \notin CallIndexes(ps) => Args(ps) = <<>>}
<1>1. <<>> \in T
  <2>1. Its(<<>>, index, "args", <<>>) = <<>>
    BY DEF Its
  <2> QED
    BY <2>1, FoldNone, EmptySeq
<1>2. ASSUME NEW ps \in Seq(Piece), NEW p \in Piece, ps \in T PROVE Append(ps, p) \in T
  <2>1. Append(ps, p) \in Seq(Piece)
    BY AppendProperties
  <2>2. CallIndexes(Append(ps, p)) = CallIndexes(ps) \cup {p.index}
    BY IndexOne
  <2>3. ASSUME index \notin CallIndexes(Append(ps, p)) PROVE Args(Append(ps, p)) = <<>>
    <3>1. \A q \in Piece : q["args"] \in Seq(Nat)
      BY DEF Piece
    <3>2. <<>> \in Seq(Nat)
      BY EmptySeq
    <3>3. p.index # index
      BY <2>2, <2>3
    <3>4. /\ Its(ps, index, "args", <<>>) \in Seq(Seq(Nat))
          /\ Its(Append(ps, p), index, "args", <<>>) =
               Append(Its(ps, index, "args", <<>>), ItOf(p, index, "args", <<>>))
      <4>1. ASSUME NEW U, NEW field, NEW absent \in U, \A q \in Piece : q[field] \in U
            PROVE  /\ Its(ps, index, field, absent) \in Seq(U)
                   /\ Its(Append(ps, p), index, field, absent) =
                        Append(Its(ps, index, field, absent), ItOf(p, index, field, absent))
        BY <4>1, ItsOne, SMTT(20)
      <4> QED
        BY <3>1, <3>2, <4>1
    <3>5. Args(Append(ps, p)) = Args(ps) \o <<>>
      BY <3>2, <3>3, <3>4, JoinOne DEF ItOf
    <3>6. Args(ps) = <<>>
      BY <1>2, <2>2, <2>3
    <3> QED
      BY <3>2, <3>5, <3>6, ConcatEmptySeq
  <2> QED
    BY <2>1, <2>3
<1>3. Seq(Piece) \subseteq T
  <2> HIDE DEF T
  <2> QED
    BY <1>1, <1>2, Joins!GrowingSeq
<1>4. ASSUME NEW ps \in Seq(Piece), index \notin CallIndexes(ps)
      PROVE ClientCall(ps, index) = NoCall
  <2>1. \A field, absent : \A k \in DOMAIN ps : Its(ps, index, field, absent)[k] = absent
    BY <1>4 DEF Its, CallIndexes
  <2>2. \A field, absent : DOMAIN Its(ps, index, field, absent) = DOMAIN ps
    BY DEF Its
  <2>3. \A field, absent : LastOf(Its(ps, index, field, absent), absent) = absent
    BY <2>1, <2>2 DEF LastOf
  <2>4. Args(ps) = <<>>
    BY <1>3, <1>4
  <2> QED
    BY <2>3, <2>4 DEF ClientCall, NoCall
<1> QED
  BY <1>4

\* A client that merges the next piece has what mergeToolCallDelta makes of it.
LEMMA PieceOne ==
  ASSUME NEW ps \in Seq(Piece), NEW p \in Piece
  PROVE  /\ CallIndexes(Append(ps, p)) = CallIndexes(ps) \cup {p.index}
         /\ \A i : ClientCall(Append(ps, p), i) =
                     IF i = p.index THEN MergeDelta(ClientCall(ps, i), p) ELSE ClientCall(ps, i)
<1>1. CallIndexes(Append(ps, p)) = CallIndexes(ps) \cup {p.index}
  BY IndexOne
<1>2. ASSUME NEW i
      PROVE ClientCall(Append(ps, p), i) =
              IF i = p.index THEN MergeDelta(ClientCall(ps, i), p) ELSE ClientCall(ps, i)
  <2> DEFINE l == Append(ps, p)
             its(field, absent) == ItOf(p, i, field, absent)
  <2>1. /\ \A q \in Piece : q["id"] \in Words /\ q["name"] \in Words /\ q["args"] \in Seq(Nat)
        /\ <<>> \in Seq(Nat) /\ "" \in Words
    BY EmptySeq DEF Piece, Words
  <2>0. ASSUME NEW U, NEW field, NEW absent \in U, \A q \in Piece : q[field] \in U
      PROVE  /\ Its(ps, i, field, absent) \in Seq(U) /\ its(field, absent) \in U
             /\ Its(l, i, field, absent) = Append(Its(ps, i, field, absent), its(field, absent))
    BY <2>0, ItsOne
  <2> HIDE DEF l, its
  <2>2. /\ Its(ps, i, "id", "") \in Seq(Words) /\ its("id", "") \in Words
        /\ Its(l, i, "id", "") = Append(Its(ps, i, "id", ""), its("id", ""))
    BY <2>1, <2>0
  <2>3. /\ Its(ps, i, "name", "") \in Seq(Words) /\ its("name", "") \in Words
        /\ Its(l, i, "name", "") = Append(Its(ps, i, "name", ""), its("name", ""))
    BY <2>1, <2>0
  <2>4. /\ Its(ps, i, "args", <<>>) \in Seq(Seq(Nat)) /\ its("args", <<>>) \in Seq(Nat)
        /\ Its(l, i, "args", <<>>) = Append(Its(ps, i, "args", <<>>), its("args", <<>>))
    BY <2>1, <2>0, ZenonT(30)
  <2>5. ASSUME NEW s \in Seq(Words), NEW e \in Words
        PROVE  LastOf(Append(s, e), "") = IF e = "" THEN LastOf(s, "") ELSE e
    <3> DEFINE absent == ""
    <3> HIDE DEF absent
    <3>1. LastOf(Append(s, e), absent) = IF e = absent THEN LastOf(s, absent) ELSE e
      BY LastOfOne
    <3> QED
      BY <3>1 DEF absent
  <2>6. /\ LastOf(Its(l, i, "id", ""), "") =
             IF its("id", "") = "" THEN LastOf(Its(ps, i, "id", ""), "") ELSE its("id", "")
        /\ LastOf(Its(l, i, "name", ""), "") =
             IF its("name", "") = "" THEN LastOf(Its(ps, i, "name", ""), "") ELSE its("name", "")
    BY <2>2, <2>3, <2>5
  <2>7. Joined(Its(l, i, "args", <<>>)) = Joined(Its(ps, i, "args", <<>>)) \o its("args", <<>>)
    BY <2>4, JoinOne
  <2>8. Joined(Its(ps, i, "args", <<>>)) \in Seq(Nat)
    BY <2>4, JoinedType
  <2>9. ClientCall(l, i) = [id |-> LastOf(Its(l, i, "id", ""), ""),
                            name |-> LastOf(Its(l, i, "name", ""), ""),
                            args |-> Joined(Its(l, i, "args", <<>>))]
    BY DEF ClientCall
  <2> DEFINE c == ClientCall(ps, i)
             id == LastOf(Its(ps, i, "id", ""), "")
             name == LastOf(Its(ps, i, "name", ""), "")
             args == Joined(Its(ps, i, "args", <<>>))
  <2>10. c = [id |-> id, name |-> name, args |-> args]
    BY DEF ClientCall
  <2>11. CASE i = p.index
    <3>1. its("id", "") = p.id /\ its("name", "") = p.name /\ its("args", <<>>) = p.args
      BY <2>11 DEF its, ItOf
    <3>2. c.id = id /\ c.name = name /\ c.args = args
      <4> HIDE DEF c, id, name, args
      <4> QED
        BY <2>10
    <3> HIDE DEF c
    <3>3. MergeDelta(c, p) = [id |-> IF p.id = "" THEN c.id ELSE p.id,
                              name |-> IF p.name = "" THEN c.name ELSE p.name,
                              args |-> c.args \o p.args]
      BY DEF MergeDelta
    <3>4. ClientCall(l, i) = MergeDelta(c, p)
      BY <2>6, <2>7, <2>9, <3>1, <3>2, <3>3
    <3> QED
      BY <2>11, <3>4 DEF c, l
  <2>12. CASE i # p.index
    <3>1. its("id", "") = "" /\ its("name", "") = "" /\ its("args", <<>>) = <<>>
      BY <2>12 DEF its, ItOf
    <3>2. Joined(Its(l, i, "args", <<>>)) = Joined(Its(ps, i, "args", <<>>))
      BY <2>7, <2>8, <3>1, ConcatEmptySeq
    <3> QED
      BY <2>6, <2>9, <2>10, <2>12, <3>1, <3>2 DEF l
  <2> QED
    BY <2>11, <2>12
<1> QED
  BY <1>1, <1>2

LEMMA CallsOne ==
  ASSUME NEW ps \in Seq(Piece), NEW p \in Piece
  PROVE  ClientCalls(Append(ps, p)) = MergeCall(ClientCalls(ps), p)
<1> DEFINE c == ClientCalls(ps)
           l == Append(ps, p)
           old == IF p.index \in DOMAIN c THEN c[p.index] ELSE NoCall
<1>1. DOMAIN c = CallIndexes(ps) /\ \A i \in CallIndexes(ps) : c[i] = ClientCall(ps, i)
  BY DEF ClientCalls, CallIndexes
<1>2. ClientCalls(l) = [i \in CallIndexes(l) |-> ClientCall(l, i)]
  BY DEF ClientCalls, CallIndexes
<1>3. old = ClientCall(ps, p.index)
  BY <1>1, NoPieces
<1>4. MergeCall(c, p) = [i \in DOMAIN c \cup {p.index} |-> IF i = p.index THEN MergeDelta(old, p) ELSE c[i]]
  BY DEF MergeCall
<1>5. CallIndexes(l) = DOMAIN c \cup {p.index}
  BY <1>1, PieceOne
<1>6. \A i \in CallIndexes(l) : ClientCall(l, i) = IF i = p.index THEN MergeDelta(old, p) ELSE c[i]
  <2>1. \A i : ClientCall(l, i) = IF i = p.index THEN MergeDelta(ClientCall(ps, i), p) ELSE ClientCall(ps, i)
    BY PieceOne
  <2> HIDE DEF c, l, old
  <2> QED
    BY <1>1, <1>3, <1>5, <2>1
<1> HIDE DEF c, l, old
<1>7. ClientCalls(l) = MergeCall(c, p)
  BY <1>2, <1>4, <1>5, <1>6
<1> QED
  BY <1>7 DEF c, l

LEMMA CallsAll ==
  ASSUME NEW ps \in Seq(Piece)
  PROVE  \A cs \in Seq(Piece) : ClientCalls(ps \o cs) = MergeCalls(ClientCalls(ps), cs)
<1> DEFINE T == {cs \in Seq(Piece) : ClientCalls(ps \o cs) = MergeCalls(ClientCalls(ps), cs)}
<1>1. <<>> \in T
  BY FoldNone, EmptySeq, ConcatEmptySeq
<1>2. ASSUME NEW cs \in Seq(Piece), NEW c \in Piece, cs \in T PROVE Append(cs, c) \in T
  <2>1. Append(cs, c) \in Seq(Piece) /\ ps \o cs \in Seq(Piece)
    BY AppendProperties, ConcatProperties
  <2>2. ps \o Append(cs, c) = Append(ps \o cs, c)
    <3>1. <<c>> \in Seq(Piece)
      OBVIOUS
    <3>2. Append(cs, c) = cs \o <<c>> /\ Append(ps \o cs, c) = (ps \o cs) \o <<c>>
      BY <2>1, AppendIsConcat
    <3> QED
      BY <3>1, <3>2, ConcatAssociative
  <2>3. ClientCalls(Append(ps \o cs, c)) = MergeCall(ClientCalls(ps \o cs), c)
    BY <2>1, CallsOne
  <2>4. MergeCalls(ClientCalls(ps), Append(cs, c)) = MergeCall(MergeCalls(ClientCalls(ps), cs), c)
    BY MergeOne
  <2> QED
    BY <1>2, <2>1, <2>2, <2>3, <2>4
<1>3. Seq(Piece) \subseteq T
  <2> HIDE DEF T
  <2> QED
    BY <1>1, <1>2, Joins!GrowingSeq
<1> QED
  BY <1>3

-----------------------------------------------------------------------------
(* What a client and Aggregate make of the next frame and the next event. *)

Text(fs) == Joined(Of(fs, "text"))
Reasoning(fs) == Joined(Of(fs, "reasoning"))
ToolCalls(fs) == ClientCalls(Joined(Of(fs, "calls")))
Finish(fs) == LastOf(Of(fs, "finish"), "")
UsageOf(fs) == LastOf(Of(fs, "usage"), None)

LEMMA FrameOne ==
  ASSUME NEW fs \in Seq(WireFrame), NEW frame \in WireFrame
  PROVE  /\ Append(fs, frame) \in Seq(WireFrame)
         /\ Text(fs) \in Seq(Nat) /\ Text(Append(fs, frame)) = Text(fs) \o frame.text
         /\ Reasoning(fs) \in Seq(Nat)
         /\ Reasoning(Append(fs, frame)) = Reasoning(fs) \o frame.reasoning
         /\ ToolCalls(Append(fs, frame)) = MergeCalls(ToolCalls(fs), frame.calls)
         /\ Finish(Append(fs, frame)) = IF frame.finish = "" THEN Finish(fs) ELSE frame.finish
         /\ UsageOf(Append(fs, frame)) = IF frame.usage = None THEN UsageOf(fs) ELSE frame.usage
<1> DEFINE l == Append(fs, frame)
<1>1. /\ \A q \in WireFrame : q["text"] \in Seq(Nat) /\ q["reasoning"] \in Seq(Nat)
      /\ \A q \in WireFrame : q["calls"] \in Seq(Piece) /\ q["finish"] \in Words
      /\ \A q \in WireFrame : q["usage"] \in Nat \cup {None}
  BY DEF WireFrame
<1>2. ASSUME NEW U, NEW field, \A q \in WireFrame : q[field] \in U
      PROVE  Of(fs, field) \in Seq(U) /\ frame[field] \in U
             /\ Of(l, field) = Append(Of(fs, field), frame[field])
  BY <1>2, OfOne
<1> HIDE DEF l
<1>3. ASSUME NEW U, NEW field, \A q \in WireFrame : q[field] \in Seq(U)
      PROVE  Joined(Of(fs, field)) \in Seq(U) /\ Joined(Of(l, field)) = Joined(Of(fs, field)) \o frame[field]
  <2>1. Of(fs, field) \in Seq(Seq(U)) /\ frame[field] \in Seq(U) /\ Of(l, field) = Append(Of(fs, field), frame[field])
    BY <1>2, <1>3
  <2> QED
    BY <2>1, JoinOne, JoinedType
<1>4. ASSUME NEW U, NEW field, NEW absent, \A q \in WireFrame : q[field] \in U
      PROVE  LastOf(Of(l, field), absent) = IF frame[field] = absent THEN LastOf(Of(fs, field), absent) ELSE frame[field]
  <2>1. Of(fs, field) \in Seq(U) /\ frame[field] \in U /\ Of(l, field) = Append(Of(fs, field), frame[field])
    BY <1>2, <1>4
  <2> QED
    BY <2>1, LastOfOne
<1>5. l \in Seq(WireFrame)
  BY AppendProperties DEF l
<1>6. Text(fs) \in Seq(Nat) /\ Text(l) = Text(fs) \o frame.text
  BY <1>1, <1>3 DEF Text
<1>7. Reasoning(fs) \in Seq(Nat) /\ Reasoning(l) = Reasoning(fs) \o frame.reasoning
  BY <1>1, <1>3 DEF Reasoning
<1>8. ToolCalls(l) = MergeCalls(ToolCalls(fs), frame.calls)
  <2>1. /\ Joined(Of(fs, "calls")) \in Seq(Piece) /\ frame.calls \in Seq(Piece)
        /\ Joined(Of(l, "calls")) = Joined(Of(fs, "calls")) \o frame.calls
    BY <1>1, <1>3
  <2> QED
    BY <2>1, CallsAll DEF ToolCalls
<1>9. Finish(l) = IF frame.finish = "" THEN Finish(fs) ELSE frame.finish
  <2> DEFINE absent == ""
             field == "finish"
  <2>1. \A q \in WireFrame : q[field] \in Words
    BY <1>1
  <2> HIDE DEF absent, field
  <2>2. LastOf(Of(l, field), absent) = IF frame[field] = absent THEN LastOf(Of(fs, field), absent) ELSE frame[field]
    BY <1>4, <2>1
  <2> QED
    BY <2>2 DEF Finish, absent, field
<1>10. UsageOf(l) = IF frame.usage = None THEN UsageOf(fs) ELSE frame.usage
  <2> DEFINE field == "usage"
  <2>1. \A q \in WireFrame : q[field] \in Nat \cup {None}
    BY <1>1
  <2> HIDE DEF field
  <2>2. LastOf(Of(l, field), None) = IF frame[field] = None THEN LastOf(Of(fs, field), None) ELSE frame[field]
    BY <1>4, <2>1
  <2> QED
    BY <2>2 DEF UsageOf, field
<1> QED
  BY <1>5, <1>6, <1>7, <1>8, <1>9, <1>10 DEF l

\* The fields that Aggregate keeps.
Summary(sum) ==
  /\ sum = [text |-> sum.text, reasoning |-> sum.reasoning, calls |-> sum.calls,
            finish |-> sum.finish, usage |-> sum.usage, remain |-> sum.remain, error |-> sum.error]
  /\ sum.text \in Seq(Nat) /\ sum.reasoning \in Seq(Nat)

Advances(sum, ev, next) ==
  /\ Summary(next)
  /\ next.text = sum.text \o ev.text /\ next.reasoning = sum.reasoning \o ev.reasoning
  /\ next.calls = MergeCalls(sum.calls, ev.calls)
  /\ next.finish = IF ev.finish = "" THEN sum.finish ELSE ev.finish
  /\ next.usage = IF ev.event = "token_usage" THEN ev.figure ELSE sum.usage
  /\ next.remain = IF ev.event = "notify_usage" /\ ev.figure # None THEN ev.figure ELSE sum.remain
  /\ next.error = IF ev.event = "error" THEN ev.figure ELSE sum.error

\* As other events have neither text nor tool calls nor a reason, one rule does for all.
LEMMA EventOne ==
  ASSUME NEW sum, Summary(sum), NEW ev, Parsed(ev)
  PROVE  Advances(sum, ev, Gathered(sum, ev))
<1> DEFINE next == Gathered(sum, ev)
           text == sum.text \o ev.text
           reasoning == sum.reasoning \o ev.reasoning
           calls == MergeCalls(sum.calls, ev.calls)
           finish == IF ev.finish = "" THEN sum.finish ELSE ev.finish
           usage == IF ev.event = "token_usage" THEN ev.figure ELSE sum.usage
           remain == IF ev.event = "notify_usage" /\ ev.figure # None THEN ev.figure ELSE sum.remain
           error == IF ev.event = "error" THEN ev.figure ELSE sum.error
<1>1. /\ ev.text \in Seq(Nat) /\ ev.reasoning \in Seq(Nat)
      /\ ev.event \in {"output", "token_usage", "notify_usage", "done", "error", "other"}
      /\ ev.event # "output" => ev.text = <<>> /\ ev.reasoning = <<>> /\ ev.calls = <<>>
      /\ ev.event # "done" => ev.finish = ""
  BY DEF Parsed, Event
<1>2. ev.event # "output" => sum.text = text /\ sum.reasoning = reasoning /\ sum.calls = calls
  BY <1>1, ConcatEmptySeq, FoldNone DEF Summary
<1>3. text \in Seq(Nat) /\ reasoning \in Seq(Nat)
  BY <1>1, ConcatProperties DEF Summary
<1>4. ev.event # "done" => sum.finish = finish
  BY <1>1
<1>5. ev.event # "token_usage" => sum.usage = usage
  OBVIOUS
<1>6. ev.event # "notify_usage" => sum.remain = remain
  OBVIOUS
<1>7. ev.event # "error" => sum.error = error
  OBVIOUS
<1> DEFINE whole == [text |-> text, reasoning |-> reasoning, calls |-> calls, finish |-> finish,
                     usage |-> usage, remain |-> remain, error |-> error]
<1>8. sum = [text |-> sum.text, reasoning |-> sum.reasoning, calls |-> sum.calls,
             finish |-> sum.finish, usage |-> sum.usage, remain |-> sum.remain, error |-> sum.error]
  BY DEF Summary
<1>9. next = whole
  <2>1. CASE ev.event = "output"
    <3>1. next = [sum EXCEPT !.text = text, !.reasoning = reasoning, !.calls = calls]
      BY <2>1 DEF Gathered
    <3> HIDE DEF next, text, reasoning, calls, finish, usage, remain, error
    <3> QED
      BY <1>4, <1>5, <1>6, <1>7, <1>8, <2>1, <3>1
  <2>2. CASE ev.event = "token_usage"
    <3>1. next = [sum EXCEPT !.usage = ev.figure] /\ usage = ev.figure
      BY <2>2 DEF Gathered
    <3> HIDE DEF next, text, reasoning, calls, finish, usage, remain, error
    <3> QED
      BY <1>2, <1>4, <1>6, <1>7, <1>8, <2>2, <3>1
  <2>3. CASE ev.event = "notify_usage" /\ ev.figure # None
    <3>1. next = [sum EXCEPT !.remain = ev.figure] /\ remain = ev.figure
      BY <2>3 DEF Gathered
    <3> HIDE DEF next, text, reasoning, calls, finish, usage, remain, error
    <3> QED
      BY <1>2, <1>4, <1>5, <1>7, <1>8, <2>3, <3>1
  <2>4. CASE ev.event = "done" /\ ev.finish # ""
    <3>1. next = [sum EXCEPT !.finish = ev.finish] /\ finish = ev.finish
      BY <2>4 DEF Gathered
    <3> HIDE DEF next, text, reasoning, calls, finish, usage, remain, error
    <3> QED
      BY <1>2, <1>5, <1>6, <1>7, <1>8, <2>4, <3>1
  <2>5. CASE ev.event = "error"
    <3>1. next = [sum EXCEPT !.error = ev.figure] /\ error = ev.figure
      BY <2>5 DEF Gathered
    <3> HIDE DEF next, text, reasoning, calls, finish, usage, remain, error
    <3> QED
      BY <1>2, <1>4, <1>5, <1>6, <1>8, <2>5, <3>1
  <2>6. CASE \/ ev.event = "other"
             \/ ev.event = "notify_usage" /\ ev.figure = None
             \/ ev.event = "done" /\ ev.finish = ""
    <3>1. next = sum /\ remain = sum.remain /\ finish = sum.finish
      BY <1>1, <2>6 DEF Gathered
    <3>2. ev.event # "output" /\ ev.event # "token_usage" /\ ev.event # "error"
      BY <2>6
    <3> HIDE DEF next, text, reasoning, calls, finish, usage, remain, error
    <3> QED
      BY <1>2, <1>5, <1>7, <1>8, <3>1, <3>2
  <2> HIDE DEF next, whole
  <2> QED
    BY <1>1, <2>1, <2>2, <2>3, <2>4, <2>5, <2>6
<1>10. /\ next.text = text /\ next.reasoning = reasoning /\ next.calls = calls /\ next.finish = finish
       /\ next.usage = usage /\ next.remain = remain /\ next.error = error
  <2> HIDE DEF next, text, reasoning, calls, finish, usage, remain, error
  <2> QED
    BY <1>9
<1>11. Summary(next)
  <2> HIDE DEF next, text, reasoning, calls, finish, usage, remain, error
  <2> QED
    BY <1>3, <1>9, <1>10 DEF Summary
<1> HIDE DEF next
<1> QED
  BY <1>10, <1>11 DEF Advances, next

LEMMA SummaryOf == \A es \in Seq(Events) : Summary(Gather(es))
<1> DEFINE T == {es \in Seq(Events) : Summary(Gather(es))}
<1>1. <<>> \in T
  <2>1. Summary(Blank)
    BY EmptySeq DEF Summary, Blank
  <2> QED
    BY <2>1, FoldNone, EmptySeq
<1>2. ASSUME NEW es \in Seq(Events), NEW ev \in Events, es \in T PROVE Append(es, ev) \in T
  <2>1. Gather(Append(es, ev)) = Gathered(Gather(es), ev)
    BY GatherOne
  <2>2. Summary(Gathered(Gather(es), ev))
    BY <1>2, EventOne, RelayAssumption DEF Advances
  <2> QED
    BY <2>1, <2>2, AppendProperties
<1>3. Seq(Events) \subseteq T
  <2> HIDE DEF T
  <2> QED
    BY <1>1, <1>2, Joins!GrowingSeq
<1> QED
  BY <1>3

AllLists(es) == \A i \in DOMAIN es : es[i].tools # "one"
AllFigures(es) == \A i \in DOMAIN es : es[i].event = "token_usage" => es[i].figure # None

\* The frames say what the events say, up to a usage that still waits for a chunk.
Told(fs, es, waiting) ==
  /\ Text(fs) = Gather(es).text /\ Reasoning(fs) = Gather(es).reasoning
  /\ AllLists(es) => ToolCalls(fs) = Gather(es).calls
  /\ Gather(es).finish = IF Finish(fs) = "" THEN "stop" ELSE Finish(fs)
  /\ AllFigures(es) => Gather(es).usage = IF waiting = None THEN UsageOf(fs) ELSE waiting

LEMMA AllOne ==
  ASSUME NEW es \in Seq(Events), NEW ev \in Events
  PROVE  /\ AllLists(Append(es, ev)) => AllLists(es) /\ ev.tools # "one"
         /\ AllFigures(Append(es, ev)) =>
              AllFigures(es) /\ (ev.event = "token_usage" => ev.figure # None)
<1> DEFINE l == Append(es, ev)
           k == Len(es)
<1>1. /\ k \in Nat /\ DOMAIN es = 1..k /\ DOMAIN l = 1..(k + 1) /\ l[k + 1] = ev
      /\ \A i \in 1..k : l[i] = es[i]
  <2>1. l \in Seq(Events)
    BY AppendProperties
  <2> QED
    BY <2>1, LenProperties, AppendProperties
<1> HIDE DEF k, l
<1>2. k + 1 \in 1..(k + 1) /\ \A i \in 1..k : i \in 1..(k + 1)
  <2>1. k \in Nat
    BY <1>1
  <2> QED
    BY <2>1
<1>3. AllLists(l) => AllLists(es) /\ ev.tools # "one"
  BY <1>1, <1>2 DEF AllLists
<1>4. AllFigures(l) => AllFigures(es) /\ (ev.event = "token_usage" => ev.figure # None)
  BY <1>1, <1>2 DEF AllFigures
<1> QED
  BY <1>3, <1>4 DEF l

\* An error and a DONE say nothing.
LEMMA BlankTold ==
  ASSUME NEW fs \in Seq(WireFrame), NEW kind \in {"done", "error"}, NEW es, NEW waiting,
         Told(fs, es, waiting)
  PROVE  /\ Frame(kind) \in WireFrame /\ Append(fs, Frame(kind)) \in Seq(WireFrame)
         /\ Told(Append(fs, Frame(kind)), es, waiting)
<1> DEFINE frame == Frame(kind)
<1>1. /\ frame.text = <<>> /\ frame.reasoning = <<>> /\ frame.calls = <<>> /\ frame.finish = ""
      /\ frame.usage = None
  BY DEF Frame
<1>2. frame \in WireFrame
  <2>1. <<>> \in Seq(Nat) /\ <<>> \in Seq(Piece) /\ "" \in Words /\ None \in Nat \cup {None}
    BY EmptySeq DEF Words
  <2> QED
    BY <2>1 DEF Frame, WireFrame
<1> HIDE DEF frame
<1>3. /\ Text(Append(fs, frame)) = Text(fs) /\ Reasoning(Append(fs, frame)) = Reasoning(fs)
      /\ ToolCalls(Append(fs, frame)) = ToolCalls(fs) /\ Append(fs, frame) \in Seq(WireFrame)
  <2>1. /\ Append(fs, frame) \in Seq(WireFrame)
        /\ Text(fs) \in Seq(Nat) /\ Text(Append(fs, frame)) = Text(fs) \o <<>>
        /\ Reasoning(fs) \in Seq(Nat) /\ Reasoning(Append(fs, frame)) = Reasoning(fs) \o <<>>
        /\ ToolCalls(Append(fs, frame)) = MergeCalls(ToolCalls(fs), <<>>)
    BY <1>1, <1>2, FrameOne
  <2> QED
    BY <2>1, ConcatEmptySeq, FoldNone
<1>4. Finish(Append(fs, frame)) = Finish(fs) /\ UsageOf(Append(fs, frame)) = UsageOf(fs)
  BY <1>1, <1>2, FrameOne
<1> QED
  BY <1>2, <1>3, <1>4 DEF Told, frame

\* A chunk says what its event says, and the usage that waited.
LEMMA ChunkTold ==
  ASSUME NEW fs \in Seq(WireFrame), NEW es \in Seq(Events), NEW ev \in Events, MakesChunk(ev),
         pending \in Nat \cup {None}, Told(fs, es, pending)
  PROVE  /\ Chunk(ev) \in WireFrame /\ Append(fs, Chunk(ev)) \in Seq(WireFrame)
         /\ Told(Append(fs, Chunk(ev)), Append(es, ev), None)
<1> DEFINE frame == Chunk(ev)
           l == Append(fs, frame)
           next == Gather(Append(es, ev))
<1>1. Parsed(ev) /\ ev \in Event
  BY RelayAssumption DEF Parsed
<1>2. /\ frame.text = ev.text /\ frame.reasoning = ev.reasoning
      /\ frame.calls = IF ev.tools = "list" THEN ev.calls ELSE <<>>
      /\ frame.finish = ev.finish /\ frame.usage = pending
  BY DEF Chunk, Frame
<1>3. frame \in WireFrame
  <2>1. /\ ev.text \in Seq(Nat) /\ ev.reasoning \in Seq(Nat) /\ ev.calls \in Seq(Piece)
        /\ ev.finish \in Words /\ <<>> \in Seq(Piece)
    BY <1>1, EmptySeq DEF Event, Words
  <2>2. frame = [kind |-> "chunk", text |-> ev.text, reasoning |-> ev.reasoning,
                 calls |-> IF ev.tools = "list" THEN ev.calls ELSE <<>>, finish |-> ev.finish,
                 usage |-> pending]
    <3> DEFINE calls == IF ev.tools = "list" THEN ev.calls ELSE <<>>
               base == Frame("chunk")
    <3>1. frame = [base EXCEPT !.text = ev.text, !.reasoning = ev.reasoning, !.calls = calls,
                               !.finish = ev.finish, !.usage = pending]
      BY DEF Chunk
    <3>2. base = [kind |-> "chunk", text |-> <<>>, reasoning |-> <<>>, calls |-> <<>>,
                  finish |-> "", usage |-> None]
      BY DEF Frame
    <3> HIDE DEF calls, base, frame
    <3>3. frame = [kind |-> "chunk", text |-> ev.text, reasoning |-> ev.reasoning,
                   calls |-> calls, finish |-> ev.finish, usage |-> pending]
      BY <3>1, <3>2
    <3> QED
      BY <3>3 DEF calls
  <2> HIDE DEF frame
  <2> QED
    BY <2>1, <2>2 DEF WireFrame
<1>4. Summary(Gather(es)) /\ next = Gathered(Gather(es), ev)
  BY SummaryOf, GatherOne
<1>5. Advances(Gather(es), ev, next)
  BY <1>1, <1>4, EventOne
<1> HIDE DEF frame, next
<1>6. /\ l \in Seq(WireFrame) /\ Text(l) = Text(fs) \o ev.text
      /\ Reasoning(l) = Reasoning(fs) \o ev.reasoning
      /\ ToolCalls(l) = MergeCalls(ToolCalls(fs), frame.calls)
      /\ Finish(l) = IF ev.finish = "" THEN Finish(fs) ELSE ev.finish
      /\ UsageOf(l) = IF pending = None THEN UsageOf(fs) ELSE pending
  BY <1>2, <1>3, FrameOne
<1> HIDE DEF l
<1>7. Text(l) = next.text /\ Reasoning(l) = next.reasoning
  BY <1>5, <1>6 DEF Told, Advances
<1>8. AllLists(Append(es, ev)) => ToolCalls(l) = next.calls
  <2> SUFFICES ASSUME AllLists(Append(es, ev)) PROVE ToolCalls(l) = next.calls
    OBVIOUS
  <2>1. AllLists(es) /\ ev.tools # "one"
    BY AllOne
  <2>2. frame.calls = ev.calls
    BY <1>1, <1>2, <2>1 DEF Parsed, Event
  <2> QED
    BY <1>5, <1>6, <2>1, <2>2 DEF Told, Advances
<1>9. next.finish = IF Finish(l) = "" THEN "stop" ELSE Finish(l)
  BY <1>5, <1>6 DEF Told, Advances
<1>10. AllFigures(Append(es, ev)) => next.usage = UsageOf(l)
  <2>1. ev.event # "token_usage"
    BY DEF MakesChunk
  <2> QED
    BY <1>5, <1>6, <2>1, AllOne DEF Told, Advances
<1> QED
  BY <1>3, <1>6, <1>7, <1>8, <1>9, <1>10 DEF Told, frame, l, next

\* An event without a chunk says nothing but a usage.
LEMMA QuietTold ==
  ASSUME NEW fs, NEW es \in Seq(Events), NEW ev \in Events, ~MakesChunk(ev),
         NEW waiting, Told(fs, es, waiting)
  PROVE  Told(fs, Append(es, ev), IF ev.event = "token_usage" THEN ev.figure ELSE waiting)
<1> DEFINE next == Gather(Append(es, ev))
<1>1. Parsed(ev) /\ ev \in Event
  BY RelayAssumption DEF Parsed
<1>2. Summary(Gather(es)) /\ next = Gathered(Gather(es), ev)
  BY SummaryOf, GatherOne
<1>3. Advances(Gather(es), ev, next)
  BY <1>1, <1>2, EventOne
<1>4. /\ ev.text = <<>> /\ ev.reasoning = <<>> /\ ev.finish = ""
      /\ ev.tools # "one" => ev.calls = <<>>
  BY <1>1 DEF MakesChunk, Parsed, Event
<1> HIDE DEF next
<1>5. next.text = Gather(es).text /\ next.reasoning = Gather(es).reasoning /\ next.finish = Gather(es).finish
  BY <1>2, <1>3, <1>4, ConcatEmptySeq DEF Advances, Summary
<1>6. ev.tools # "one" => next.calls = Gather(es).calls
  BY <1>3, <1>4, FoldNone DEF Advances
<1>7. AllLists(Append(es, ev)) => ToolCalls(fs) = next.calls
  BY <1>6, AllOne DEF Told
<1>8. AllFigures(Append(es, ev)) =>
        next.usage = LET w == IF ev.event = "token_usage" THEN ev.figure ELSE waiting IN
                     IF w = None THEN UsageOf(fs) ELSE w
  BY <1>3, AllOne DEF Told, Advances
<1> QED
  BY <1>5, <1>7, <1>8 DEF Told, next

-----------------------------------------------------------------------------
(* The relay of a stream *)

\* What the pool was told is what Aggregate makes of the events.
AccountInv ==
  /\ got \in Seq(Events)
  /\ noted \in Seq(Nat \cup {None}) /\ booked \in Seq(Nat \cup {None})
  /\ LastOf(noted, None) = Gather(got).error
  /\ LastOf(booked, None) = Gather(got).remain

\* A usage that waits came after the last chunk.
Waits(es, waiting) ==
  waiting # None =>
    \E i \in DOMAIN es :
       es[i].event = "token_usage" /\ \A j \in (i + 1)..Len(es) : ~MakesChunk(es[j])

SaidDone(fs) == \E i \in DOMAIN fs : fs[i].kind = "done"

\* While no write failed, what is written and what is still to be written say
\* together what the events say, and with a DONE from the moment on when one is due.
StreamInv ==
  /\ got \in Seq(Events)
  /\ out \in Seq(WireFrame) /\ todo \in Seq(WireFrame)
  /\ pending \in Nat \cup {None} /\ Waits(got, pending)
  /\ pc \in {"read", "write", "writing", "returned"} /\ result \in {"none", "nil", "error"}
  /\ todo # <<>> <=> pc \in {"write", "writing"}
  /\ result # "none" <=> pc = "returned"
  /\ result # "error" => Told(out \o todo, got, pending)
  /\ result # "error" /\ (sawDone \/ eof) => SaidDone(out \o todo)
  /\ result = "nil" => sawDone \/ eof

LEMMA StepAccount == AccountInv /\ [NextS]_svars => AccountInv'
<1> SUFFICES ASSUME AccountInv, [NextS]_svars PROVE AccountInv'
  OBVIOUS
<1> USE DEF AccountInv
<1>1. CASE UNCHANGED <<got, noted, booked>>
  BY <1>1
<1>2. ASSUME NEW ev \in Events, Receive(ev) PROVE AccountInv'
  <2>1. Parsed(ev) /\ ev \in Event /\ got' = Append(got, ev)
    BY <1>2, RelayAssumption DEF Parsed, Receive
  <2>2. ev.figure \in Nat \cup {None}
    BY <2>1 DEF Event
  <2>3. /\ got' \in Seq(Events) /\ Gather(got') = Gathered(Gather(got), ev)
        /\ Advances(Gather(got), ev, Gather(got'))
    BY <2>1, AppendProperties, GatherOne, SummaryOf, EventOne
  <2>4. /\ Append(noted, ev.figure) \in Seq(Nat \cup {None})
        /\ Append(booked, ev.figure) \in Seq(Nat \cup {None})
        /\ LastOf(Append(noted, ev.figure), None) = IF ev.figure = None THEN LastOf(noted, None) ELSE ev.figure
        /\ LastOf(Append(booked, ev.figure), None) = IF ev.figure = None THEN LastOf(booked, None) ELSE ev.figure
    <3> DEFINE figure == ev.figure
               S == Nat \cup {None}
    <3>1. figure \in S /\ noted \in Seq(S) /\ booked \in Seq(S)
      BY <2>2
    <3>2. ASSUME NEW U, NEW s \in Seq(U), NEW e \in U, NEW absent
          PROVE  /\ Append(s, e) \in Seq(U)
                 /\ LastOf(Append(s, e), absent) = IF e = absent THEN LastOf(s, absent) ELSE e
      BY AppendProperties, LastOfOne
    <3> HIDE DEF figure, S
    <3>3. /\ Append(noted, figure) \in Seq(S) /\ Append(booked, figure) \in Seq(S)
          /\ LastOf(Append(noted, figure), None) = IF figure = None THEN LastOf(noted, None) ELSE figure
          /\ LastOf(Append(booked, figure), None) = IF figure = None THEN LastOf(booked, None) ELSE figure
      BY <3>1, <3>2
    <3> QED
      BY <3>3 DEF figure, S
  <2>5. /\ Gather(got').error = IF ev.event = "error" THEN ev.figure ELSE Gather(got).error
        /\ Gather(got').remain =
             IF ev.event = "notify_usage" /\ ev.figure # None THEN ev.figure ELSE Gather(got).remain
    BY <2>3 DEF Advances
  <2>6. CASE ev.event = "error"
    <3>1. noted' = Append(noted, ev.figure) /\ booked' = booked /\ ev.figure # None
      BY <1>2, <2>1, <2>6 DEF Receive, Output, TokenUsage, NotifyUsage, Done, Error, Other, Parsed
    <3> QED
      BY <2>3, <2>4, <2>5, <2>6, <3>1
  <2>7. CASE ev.event = "notify_usage" /\ ev.figure # None
    <3>1. noted' = noted /\ booked' = Append(booked, ev.figure)
      BY <1>2, <2>7 DEF Receive, Output, TokenUsage, NotifyUsage, Done, Error, Other
    <3> QED
      BY <2>3, <2>4, <2>5, <2>7, <3>1
  <2>8. CASE ev.event # "error" /\ ~(ev.event = "notify_usage" /\ ev.figure # None)
    <3>1. noted' = noted /\ booked' = booked
      BY <1>2, <2>8 DEF Receive, Output, TokenUsage, NotifyUsage, Done, Error, Other
    <3> QED
      BY <2>3, <2>5, <2>8, <3>1
  <2> QED
    BY <2>6, <2>7, <2>8
<1>3. CASE EndOfStream \/ ReadFails \/ BeginWrite \/ EndWrite
  BY <1>1, <1>3 DEF EndOfStream, ReadFails, BeginWrite, EndWrite
<1>4. CASE Leave \/ Ping \/ UNCHANGED svars
  BY <1>1, <1>4 DEF Leave, Ping, Tick, PingStops, BeginPing, EndPing, svars
<1> QED
  BY <1>2, <1>3, <1>4 DEF NextS, Relay

\* The pool hears the last error and the last balance of a stream, and those of a
\* whole answer unless it fails, which drops the balance.
THEOREM PoolHearsAll == SpecS => []AccountingAgrees
<1>1. InitS => AccountInv
  <2>1. Gather(<<>>).error = None /\ Gather(<<>>).remain = None
    BY FoldNone DEF Blank
  <2> QED
    BY <2>1, LastOfNone, EmptySeq DEF InitS, AccountInv
<1>2. AccountInv => AccountingAgrees
  <2>1. ASSUME NEW broken \in BOOLEAN
        PROVE  /\ ToldOfWhole(got, broken).error = IF broken THEN Broken ELSE Gather(got).error
               /\ ToldOfWhole(got, broken).remain =
                    IF broken \/ Gather(got).error # None THEN None ELSE Gather(got).remain
    <3> DEFINE sum == Gather(got)
               whole == Aggregate(got, broken)
    <3>1. whole = IF broken THEN [Blank EXCEPT !.error = Broken]
                  ELSE IF sum.error = None THEN sum
                  ELSE [Blank EXCEPT !.remain = sum.remain, !.error = sum.error]
      BY DEF Aggregate
    <3>2. ToldOfWhole(got, broken) =
            [error |-> whole.error, remain |-> IF whole.error = None THEN whole.remain ELSE None]
      BY DEF ToldOfWhole
    <3> HIDE DEF sum, whole
    <3>3. whole.error = IF broken THEN Broken ELSE sum.error
      BY <3>1 DEF Blank
    <3>4. ~broken /\ sum.error = None => whole.remain = sum.remain
      BY <3>1
    <3>5. Broken # None
      BY DEF Broken, None
    <3> QED
      BY <3>2, <3>3, <3>4, <3>5 DEF sum
  <2> QED
    BY <2>1 DEF AccountInv, AccountingAgrees
<1> QED
  BY <1>1, <1>2, StepAccount, PTL DEF SpecS

\* The frames of one event behind those before.
LEMMA FramesAfter ==
  ASSUME NEW fs \in Seq(WireFrame), NEW a \in WireFrame, NEW b \in WireFrame
  PROVE  /\ fs \o <<>> = fs /\ fs \o <<a>> = Append(fs, a)
         /\ fs \o <<a, b>> = Append(Append(fs, a), b)
         /\ <<a>> \in Seq(WireFrame) /\ <<a, b>> \in Seq(WireFrame)
         /\ <<a>> # <<>> /\ <<a, b>> # <<>>
<1>1. fs \o <<>> = fs /\ Append(fs, a) = fs \o <<a>> /\ Append(fs, a) \in Seq(WireFrame)
  BY ConcatEmptySeq, AppendIsConcat, AppendProperties
<1>2. Append(Append(fs, a), b) = Append(fs, a) \o <<b>>
  BY <1>1, AppendIsConcat
<1>3. <<a>> \in Seq(WireFrame) /\ <<b>> \in Seq(WireFrame) /\ <<a, b>> = <<a>> \o <<b>>
  <2>1. <<a>> \in Seq(WireFrame) /\ <<b>> \in Seq(WireFrame)
    OBVIOUS
  <2>2. <<a, b>> = Append(<<a>>, b)
    OBVIOUS
  <2> QED
    BY <2>1, <2>2, AppendIsConcat
<1>4. (fs \o <<a>>) \o <<b>> = fs \o (<<a>> \o <<b>>)
  BY <1>3, ConcatAssociative
<1>5. <<a>> # <<>> /\ <<a, b>> # <<>> /\ <<a, b>> \in Seq(WireFrame)
  OBVIOUS
<1> QED
  BY <1>1, <1>2, <1>3, <1>4, <1>5

LEMMA SaidOne ==
  ASSUME NEW fs \in Seq(WireFrame), NEW frame \in WireFrame, SaidDone(fs) \/ frame.kind = "done"
  PROVE  SaidDone(Append(fs, frame))
<1> DEFINE l == Append(fs, frame)
           k == Len(fs)
<1>1. /\ k \in Nat /\ DOMAIN fs = 1..k /\ DOMAIN l = 1..(k + 1) /\ l[k + 1] = frame
      /\ \A i \in 1..k : l[i] = fs[i]
  <2>1. l \in Seq(WireFrame)
    BY AppendProperties
  <2> QED
    BY <2>1, LenProperties, AppendProperties
<1> HIDE DEF k, l
<1>2. k + 1 \in 1..(k + 1) /\ \A i \in 1..k : i \in 1..(k + 1)
  <2>1. k \in Nat
    BY <1>1
  <2> QED
    BY <2>1
<1>3. SaidDone(l)
  BY <1>1, <1>2 DEF SaidDone
<1> QED
  BY <1>3 DEF l

LEMMA WaitsOne ==
  ASSUME NEW es \in Seq(Events), NEW ev \in Events, NEW waiting, Waits(es, waiting)
  PROVE  /\ Waits(Append(es, ev), None)
         /\ ~MakesChunk(ev) =>
              Waits(Append(es, ev), IF ev.event = "token_usage" THEN ev.figure ELSE waiting)
<1> DEFINE l == Append(es, ev)
           k == Len(es)
<1>1. /\ k \in Nat /\ DOMAIN es = 1..k /\ DOMAIN l = 1..(k + 1) /\ l[k + 1] = ev /\ Len(l) = k + 1
      /\ \A i \in 1..k : l[i] = es[i]
  <2>1. l \in Seq(Events)
    BY AppendProperties
  <2> QED
    BY <2>1, LenProperties, AppendProperties
<1>2. Waits(l, None)
  BY DEF Waits
<1> HIDE DEF k, l
<1>3. k \in Nat
  BY <1>1
<1>4. k + 1 \in 1..(k + 1) /\ \A i \in 1..k : i \in 1..(k + 1)
  BY <1>3
<1>5. ASSUME ~MakesChunk(ev), ev.event = "token_usage" PROVE \A w : Waits(l, w)
  <2>1. \A j \in ((k + 1) + 1)..(k + 1) : FALSE
    BY <1>3
  <2>2. l[k + 1].event = "token_usage" /\ \A j \in ((k + 1) + 1)..Len(l) : ~MakesChunk(l[j])
    BY <1>1, <1>5, <2>1
  <2>3. k + 1 \in DOMAIN l
    BY <1>1, <1>4
  <2> QED
    BY <2>2, <2>3 DEF Waits
<1>6. ASSUME ~MakesChunk(ev), waiting # None PROVE Waits(l, waiting)
  <2>1. PICK i \in 1..k : es[i].event = "token_usage" /\ \A j \in (i + 1)..k : ~MakesChunk(es[j])
    BY <1>1, <1>6 DEF Waits, k
  <2>2. \A j \in (i + 1)..(k + 1) : (j \in (i + 1)..k /\ j \in 1..k) \/ j = k + 1
    BY <1>3
  <2>3. \A j \in (i + 1)..Len(l) : ~MakesChunk(l[j])
    BY <1>1, <1>6, <2>1, <2>2
  <2>4. i \in DOMAIN l /\ l[i].event = "token_usage"
    BY <1>1, <1>4, <2>1
  <2> QED
    BY <2>3, <2>4 DEF Waits
<1>7. waiting = None => Waits(l, waiting)
  BY <1>2
<1>8. ~MakesChunk(ev) => Waits(l, IF ev.event = "token_usage" THEN ev.figure ELSE waiting)
  BY <1>5, <1>6, <1>7
<1> QED
  BY <1>2, <1>8 DEF l

\* What the frames of an event say, behind all that is written.
LEMMA EventTold ==
  ASSUME StreamInv, NEW ev \in Events, Receive(ev)
  PROVE  /\ todo' \in Seq(WireFrame) /\ pending' \in Nat \cup {None} /\ Waits(got', pending')
         /\ todo' # <<>> <=> pc' = "write"
         /\ pc' \in {"read", "write"}
         /\ Told(out \o todo', got', pending')
         /\ sawDone' => SaidDone(out \o todo')
<1> DEFINE es == Append(got, ev)
           told == IF ev.event = "token_usage" THEN ev.figure ELSE pending
<1>1. /\ out \in Seq(WireFrame) /\ got \in Seq(Events) /\ pending \in Nat \cup {None}
      /\ Waits(got, pending) /\ pc = "read" /\ ~eof
      /\ result # "error" /\ todo = <<>> /\ got' = es
  BY DEF StreamInv, Receive
<1>2. out \o <<>> = out
  BY <1>1, ConcatEmptySeq
<1>3. Told(out, got, pending) /\ (sawDone => SaidDone(out))
  BY <1>1, <1>2 DEF StreamInv
<1>4. Parsed(ev) /\ ev \in Event /\ ev.figure \in Nat \cup {None}
  BY RelayAssumption DEF Parsed, Event
<1>5. <<>> \in Seq(WireFrame)
  BY EmptySeq
<1>6. Waits(es, None) /\ (~MakesChunk(ev) => Waits(es, told))
  <2>1. ASSUME NEW waiting, Waits(got, waiting)
        PROVE  /\ Waits(es, None)
               /\ ~MakesChunk(ev) =>
                    Waits(es, IF ev.event = "token_usage" THEN ev.figure ELSE waiting)
    BY <1>1, <2>1, WaitsOne
  <2>2. Waits(got, pending)
    BY <1>1
  <2> HIDE DEF es
  <2>3. /\ Waits(es, None)
        /\ ~MakesChunk(ev) => Waits(es, IF ev.event = "token_usage" THEN ev.figure ELSE pending)
    BY <2>1, <2>2, Zenon
  <2> QED
    BY <2>3
<1>7. ~MakesChunk(ev) => Told(out, es, told)
  <2>1. ASSUME NEW waiting, Told(out, got, waiting), ~MakesChunk(ev)
        PROVE  Told(out, es, IF ev.event = "token_usage" THEN ev.figure ELSE waiting)
    BY <1>1, <2>1, QuietTold
  <2> QED
    BY <1>3, <2>1
<1>8. CASE ~MakesChunk(ev) /\ ev.event # "error"
  <2>1. todo' = <<>> /\ pc' = "read" /\ pending' = told /\ sawDone' = sawDone
    BY <1>8 DEF Receive, Output, TokenUsage, NotifyUsage, Done, Error, Other, Write, MakesChunk
  <2>2. Told(out, es, told) /\ Waits(es, told)
    BY <1>8, <1>6, <1>7
  <2> HIDE DEF es
  <2> QED
    BY <1>1, <1>2, <1>3, <1>4, <1>5, <2>1, <2>2
<1>9. CASE MakesChunk(ev) /\ ev.event = "output"
  <2>1. todo' = <<Chunk(ev)>> /\ pending' = None /\ sawDone' = sawDone
        /\ pc' = IF <<Chunk(ev)>> = <<>> THEN "read" ELSE "write"
    BY <1>9 DEF Receive, Output, TokenUsage, NotifyUsage, Done, Error, Other, Write
  <2>2. /\ Chunk(ev) \in WireFrame /\ Append(out, Chunk(ev)) \in Seq(WireFrame)
        /\ Told(Append(out, Chunk(ev)), es, None)
    BY <1>1, <1>3, <1>9, ChunkTold
  <2>3. Waits(es, None)
    BY <1>6
  <2>4. sawDone => SaidDone(Append(out, Chunk(ev)))
    BY <1>1, <1>3, <2>2, SaidOne
  <2> HIDE DEF es
  <2>5. /\ out \o <<Chunk(ev)>> = Append(out, Chunk(ev)) /\ <<Chunk(ev)>> \in Seq(WireFrame)
        /\ <<Chunk(ev)>> # <<>>
    BY <1>1, <2>2, FramesAfter
  <2> QED
    BY <1>1, <2>1, <2>2, <2>3, <2>4, <2>5
<1>10. CASE ev.event = "done"
  <2>1. todo' = <<Chunk(ev), DONE>> /\ pending' = None
        /\ pc' = IF <<Chunk(ev), DONE>> = <<>> THEN "read" ELSE "write"
    BY <1>10 DEF Receive, Output, TokenUsage, NotifyUsage, Done, Error, Other, Write
  <2>2. /\ Chunk(ev) \in WireFrame /\ Append(out, Chunk(ev)) \in Seq(WireFrame)
        /\ Told(Append(out, Chunk(ev)), es, None)
    BY <1>1, <1>3, <1>10, ChunkTold DEF MakesChunk
  <2>3. Waits(es, None)
    BY <1>6
  <2>4. DONE \in WireFrame /\ Told(Append(Append(out, Chunk(ev)), DONE), es, None)
    BY <2>2, BlankTold DEF DONE
  <2>5. SaidDone(Append(Append(out, Chunk(ev)), DONE))
    BY <2>2, <2>4, SaidOne DEF DONE, Frame
  <2> HIDE DEF es
  <2>6. /\ out \o <<Chunk(ev), DONE>> = Append(Append(out, Chunk(ev)), DONE)
        /\ <<Chunk(ev), DONE>> \in Seq(WireFrame) /\ <<Chunk(ev), DONE>> # <<>>
    BY <1>1, <2>2, <2>4, FramesAfter
  <2> QED
    BY <1>1, <2>1, <2>2, <2>3, <2>4, <2>5, <2>6
<1>11. CASE ev.event = "error"
  <2> DEFINE failed == Frame("error")
  <2>1. todo' = <<failed, DONE>> /\ pending' = pending
        /\ pc' = IF <<failed, DONE>> = <<>> THEN "read" ELSE "write"
    BY <1>11 DEF Receive, Output, TokenUsage, NotifyUsage, Done, Error, Other, Write
  <2>2. ~MakesChunk(ev) /\ told = pending
    BY <1>11 DEF MakesChunk
  <2>3. Told(out, es, pending) /\ Waits(es, pending)
    <3>1. Told(out, es, told) /\ Waits(es, told)
      BY <1>6, <1>7, <2>2
    <3> QED
      BY <2>2, <3>1
  <2> HIDE DEF es, told
  <2>4. /\ failed \in WireFrame /\ Append(out, failed) \in Seq(WireFrame)
        /\ Told(Append(out, failed), es, pending)
    BY <1>1, <2>3, BlankTold
  <2> HIDE DEF failed
  <2>5. DONE \in WireFrame /\ Told(Append(Append(out, failed), DONE), es, pending)
    BY <2>4, BlankTold DEF DONE
  <2>6. SaidDone(Append(Append(out, failed), DONE))
    BY <2>4, <2>5, SaidOne DEF DONE, Frame
  <2>7. /\ out \o <<failed, DONE>> = Append(Append(out, failed), DONE)
        /\ <<failed, DONE>> \in Seq(WireFrame) /\ <<failed, DONE>> # <<>>
    BY <1>1, <2>4, <2>5, FramesAfter
  <2> QED
    BY <1>1, <2>1, <2>3, <2>5, <2>6, <2>7
<1> QED
  BY <1>8, <1>9, <1>10, <1>11 DEF MakesChunk

LEMMA StepStream == StreamInv /\ [NextS]_svars => StreamInv'
<1> SUFFICES ASSUME StreamInv, [NextS]_svars PROVE StreamInv'
  OBVIOUS
<1>1. CASE UNCHANGED <<got, pc, todo, eof, pending, sawDone, out, result>>
  BY <1>1 DEF StreamInv
<1>2. ASSUME NEW ev \in Events, Receive(ev) PROVE StreamInv'
  <2>1. /\ got' \in Seq(Events) /\ out' = out /\ result' = result /\ eof' = eof /\ result = "none"
        /\ ~eof
    <3>1. got' = Append(got, ev) /\ got \in Seq(Events)
      BY <1>2 DEF Receive, StreamInv
    <3> QED
      BY <1>2, <3>1, AppendProperties DEF Receive, StreamInv
  <2> QED
    BY <1>2, <2>1, EventTold DEF StreamInv
<1>3. CASE EndOfStream
  <2>1. /\ out \in Seq(WireFrame) /\ todo = <<>> /\ result = "none"
        /\ got' = got /\ pending' = pending /\ sawDone' = sawDone /\ out' = out /\ eof' = TRUE
    BY <1>3 DEF EndOfStream, StreamInv
  <2>2. CASE eof \/ sawDone
    BY <1>3, <2>1, <2>2 DEF EndOfStream, Return, StreamInv
  <2>3. CASE ~(eof \/ sawDone)
    <3>1. todo' = <<DONE>> /\ result' = result /\ pc' = IF <<DONE>> = <<>> THEN "read" ELSE "write"
      BY <1>3, <2>3 DEF EndOfStream, Write
    <3>2. out \o <<>> = out
      BY <2>1, ConcatEmptySeq
    <3>3. Told(out, got, pending)
      BY <2>1, <3>2 DEF StreamInv
    <3>4. /\ DONE \in WireFrame /\ Append(out, DONE) \in Seq(WireFrame)
          /\ Told(Append(out, DONE), got, pending)
      BY <2>1, <3>3, BlankTold DEF DONE
    <3>5. SaidDone(Append(out, DONE))
      BY <2>1, <3>4, SaidOne DEF DONE, Frame
    <3>6. out \o <<DONE>> = Append(out, DONE) /\ <<DONE>> \in Seq(WireFrame) /\ <<DONE>> # <<>>
      BY <2>1, <3>4, FramesAfter
    <3> QED
      BY <2>1, <3>1, <3>4, <3>5, <3>6 DEF StreamInv
  <2> QED
    BY <2>2, <2>3
<1>4. CASE ReadFails
  BY <1>4, EmptySeq DEF ReadFails, Return, StreamInv
<1>5. CASE BeginWrite
  BY <1>5 DEF BeginWrite, StreamInv
<1>6. CASE EndWrite
  <2>1. /\ out \in Seq(WireFrame) /\ todo \in Seq(WireFrame) /\ todo # <<>> /\ result = "none"
        /\ got' = got /\ pending' = pending /\ sawDone' = sawDone /\ eof' = eof
    BY <1>6 DEF EndWrite, StreamInv
  <2>2. CASE Return("error") /\ UNCHANGED out
    BY <2>1, <2>2, EmptySeq DEF Return, StreamInv
  <2>3. CASE out' = Append(out, Head(todo)) /\ Write(Tail(todo)) /\ UNCHANGED result
    <3>1. Head(todo) \in WireFrame /\ Tail(todo) \in Seq(WireFrame)
      BY <2>1, HeadTailProperties
    <3>2. out' \in Seq(WireFrame) /\ todo' \in Seq(WireFrame)
      BY <2>3, <3>1, <2>1, AppendProperties DEF Write
    <3>3. out' \o todo' = out \o todo
      <4>1. todo = <<Head(todo)>> \o Tail(todo)
        BY <2>1
      <4>2. out' = out \o <<Head(todo)>> /\ <<Head(todo)>> \in Seq(WireFrame)
        BY <2>1, <2>3, <3>1, AppendIsConcat
      <4> QED
        BY <2>1, <2>3, <3>1, <4>1, <4>2, ConcatAssociative DEF Write
    <3>4. pc' = IF todo' = <<>> THEN "read" ELSE "write"
      BY <2>3 DEF Write
    <3> QED
      BY <2>1, <2>3, <3>2, <3>3, <3>4 DEF StreamInv
  <2> QED
    BY <1>6, <2>2, <2>3 DEF EndWrite
<1>7. CASE Leave \/ Ping \/ UNCHANGED svars
  BY <1>1, <1>7 DEF Leave, Ping, Tick, PingStops, BeginPing, EndPing, svars
<1> QED
  BY <1>2, <1>3, <1>4, <1>5, <1>6, <1>7 DEF NextS, Relay

LEMMA NothingTold == Told(<<>>, <<>>, None)
<1>1. \A field : Of(<<>>, field) = <<>>
  BY DEF Of
<1>2. LastOf(<<>>, "") = "" /\ LastOf(<<>>, None) = None
  BY DEF LastOf
<1>3. ClientCalls(<<>>) = <<>>
  BY DEF ClientCalls
<1>4. /\ Text(<<>>) = <<>> /\ Reasoning(<<>>) = <<>> /\ ToolCalls(<<>>) = <<>>
      /\ Finish(<<>>) = "" /\ UsageOf(<<>>) = None
  BY <1>1, <1>2, <1>3, FoldNone DEF Text, Reasoning, ToolCalls, Finish, UsageOf
<1>5. /\ Gather(<<>>).text = <<>> /\ Gather(<<>>).reasoning = <<>> /\ Gather(<<>>).calls = <<>>
      /\ Gather(<<>>).finish = "stop" /\ Gather(<<>>).usage = None
  BY FoldNone DEF Blank
<1> QED
  BY <1>4, <1>5 DEF Told

\* A stream that ends without a failed write carries a DONE and, put together,
\* the answer that Aggregate gives.
THEOREM StreamIsWhole == SpecS => []StreamAgrees
<1>1. InitS => StreamInv
  <2> SUFFICES ASSUME InitS PROVE StreamInv
    OBVIOUS
  <2>1. <<>> \o <<>> = <<>>
    OBVIOUS
  <2> QED
    BY <2>1, NothingTold, EmptySeq DEF InitS, StreamInv, Waits
<1>2. StreamInv => StreamAgrees
  <2> SUFFICES ASSUME StreamInv PROVE StreamAgrees
    OBVIOUS
  <2> DEFINE whole == Aggregate(got, FALSE)
             finish == LastOf(Of(out, "finish"), "")
  <2>1. SUFFICES ASSUME result = "nil"
        PROVE  /\ \E i \in DOMAIN out : out[i].kind = "done"
               /\ whole.error = None /\ (\A i \in DOMAIN got : got[i].tools # "one") =>
                    /\ Joined(Of(out, "text")) = whole.text
                    /\ Joined(Of(out, "reasoning")) = whole.reasoning
                    /\ ClientCalls(Joined(Of(out, "calls"))) = whole.calls
                    /\ whole.finish = IF finish = "" THEN "stop" ELSE finish
                    /\ UsageInTime => LastOf(Of(out, "usage"), None) = whole.usage
    BY DEF StreamAgrees
  <2>2. todo = <<>> /\ out \in Seq(WireFrame)
    BY <2>1 DEF StreamInv
  <2>3. out \o todo = out
    BY <2>2, ConcatEmptySeq
  <2>4. Told(out, got, pending) /\ SaidDone(out)
    BY <2>1, <2>3 DEF StreamInv
  <2>5. SUFFICES ASSUME whole.error = None, AllLists(got)
        PROVE  /\ Text(out) = whole.text /\ Reasoning(out) = whole.reasoning
               /\ ToolCalls(out) = whole.calls
               /\ whole.finish = IF Finish(out) = "" THEN "stop" ELSE Finish(out)
               /\ UsageInTime => UsageOf(out) = whole.usage
    BY <2>4 DEF SaidDone, AllLists, Text, Reasoning, ToolCalls, Finish, UsageOf
  <2>6. whole = Gather(got)
    <3> DEFINE sum == Gather(got)
    <3>1. whole = IF sum.error = None THEN sum
                  ELSE [Blank EXCEPT !.remain = sum.remain, !.error = sum.error]
      BY DEF Aggregate
    <3> HIDE DEF sum, whole
    <3>2. sum.error # None => whole.error = sum.error
      BY <3>1 DEF Blank
    <3> QED
      BY <2>5, <3>1, <3>2 DEF sum
  <2>7. UsageInTime => AllFigures(got) /\ pending = None
    BY DEF UsageInTime, AllFigures, StreamInv, Waits
  <2> HIDE DEF whole
  <2> QED
    BY <2>4, <2>5, <2>6, <2>7 DEF Told
<1> QED
  BY <1>1, <1>2, StepStream, PTL DEF SpecS

-----------------------------------------------------------------------------
(* The texts of the work channel *)

Hears == INSTANCE FoldFacts WITH op <- Hear, choose <- Max
Answers == INSTANCE FoldFacts WITH op <- Answer, choose <- Max
AnswerLines == INSTANCE FoldFacts WITH op <- AnswerItem, choose <- Max

LEMMA LastIsHeard ==
  ASSUME NEW k \in Nat
  PROVE  Hears!ChoosesLast(k) /\ Answers!ChoosesLast(k) /\ AnswerLines!ChoosesLast(k)
<1>1. Joins!ChoosesLast(k)
  BY LastIsChosen
<1> QED
  BY <1>1 DEF Joins!ChoosesLast, Hears!ChoosesLast, Answers!ChoosesLast, AnswerLines!ChoosesLast

LEMMA HearOne ==
  ASSUME NEW S, NEW s \in Seq(S), NEW e \in S, NEW heard
  PROVE  HearAll(heard, Append(s, e)) = Hear(HearAll(heard, s), e)
<1>1. \A l : HearAll(heard, l) = Hears!Fold(heard, l, DOMAIN l)
  BY DEF HearAll, FoldLeft, Hears!Fold, MapThenFoldSet, Hears!MapThenFoldSet
<1>2. Hears!ChoosesLast(Len(s) + 1)
  BY LastIsHeard, LenProperties
<1>3. Hears!Fold(heard, Append(s, e), DOMAIN Append(s, e)) = Hear(Hears!Fold(heard, s, DOMAIN s), e)
  BY <1>2, Hears!FoldOne
<1> QED
  BY <1>1, <1>3

LEMMA AnswerOne ==
  ASSUME NEW S, NEW s \in Seq(S), NEW e \in S, NEW old
  PROVE  AnswerAll(old, Append(s, e)) = Answer(AnswerAll(old, s), e)
<1>1. \A l : AnswerAll(old, l) = Answers!Fold(old, l, DOMAIN l)
  BY DEF AnswerAll, FoldLeft, Answers!Fold, MapThenFoldSet, Answers!MapThenFoldSet
<1>2. Answers!ChoosesLast(Len(s) + 1)
  BY LastIsHeard, LenProperties
<1>3. Answers!Fold(old, Append(s, e), DOMAIN Append(s, e)) = Answer(Answers!Fold(old, s, DOMAIN s), e)
  BY <1>2, Answers!FoldOne
<1> QED
  BY <1>1, <1>3

LEMMA ScannedOne ==
  ASSUME NEW S, NEW s \in Seq(S), NEW e \in S
  PROVE  Scanned(Append(s, e)) = AnswerItem(Scanned(s), e)
<1>1. \A l : Scanned(l) = AnswerLines!Fold([text |-> <<>>, over |-> FALSE], l, DOMAIN l)
  BY DEF Scanned, FoldLeft, AnswerLines!Fold, MapThenFoldSet, AnswerLines!MapThenFoldSet
<1>2. AnswerLines!ChoosesLast(Len(s) + 1)
  BY LastIsHeard, LenProperties
<1> QED
  BY <1>1, <1>2, AnswerLines!FoldOne

LEMMA HearNone ==
  /\ Scanned(<<>>) = [text |-> <<>>, over |-> FALSE]
  /\ \A heard : HearAll(heard, <<>>) = heard
  /\ \A old : AnswerAll(old, <<>>) = old
<1>1. DOMAIN <<>> = {}
  OBVIOUS
<1>2. Scanned(<<>>) = AnswerLines!Fold([text |-> <<>>, over |-> FALSE], <<>>, {})
  BY <1>1 DEF Scanned, FoldLeft, AnswerLines!Fold, MapThenFoldSet, AnswerLines!MapThenFoldSet
<1>3. \A heard : HearAll(heard, <<>>) = Hears!Fold(heard, <<>>, {})
  BY <1>1 DEF HearAll, FoldLeft, Hears!Fold, MapThenFoldSet, Hears!MapThenFoldSet
<1>4. \A old : AnswerAll(old, <<>>) = Answers!Fold(old, <<>>, {})
  BY <1>1 DEF AnswerAll, FoldLeft, Answers!Fold, MapThenFoldSet, Answers!MapThenFoldSet
<1> QED
  BY <1>2, <1>3, <1>4, AnswerLines!FoldEmpty, Hears!FoldEmpty, Answers!FoldEmpty

LEMMA PartOf == \A s, t : t \in SubSeqs(s) <=> \E i, j \in 0..Len(s) : t = SubSeq(s, i + 1, j)
BY SMT DEF SubSeqs

\* What a text holds, a longer one holds.
LEMMA PartsStay ==
  ASSUME NEW s \in Seq(Nat), NEW d \in Seq(Nat)
  PROVE  SubSeqs(s) \subseteq SubSeqs(s \o d) /\ d \in SubSeqs(s \o d)
<1> DEFINE k == Len(s)
           m == Len(d)
           l == s \o d
<1>1. /\ k \in Nat /\ m \in Nat /\ l \in Seq(Nat) /\ Len(l) = k + m
      /\ \A i \in 1..(k + m) : l[i] = IF i <= k THEN s[i] ELSE d[i - k]
      /\ \A i \in 1..k : s[i] \in Nat
      /\ \A i \in 1..m : d[i] \in Nat
  BY LenProperties, ConcatProperties, ElementOfSeq
<1> HIDE DEF k, m, l
<1>2. ASSUME NEW i \in 0..k, NEW j \in 0..k PROVE SubSeq(s, i + 1, j) \in SubSeqs(l)
  <2>1. i + 1 \in Int /\ j \in Int /\ i \in 0..(k + m) /\ j \in 0..(k + m)
    BY <1>1
  <2>2. \A h \in (i + 1)..j : h \in 1..k /\ h \in 1..(k + m) /\ h <= k
    BY <1>1
  <2>3. \A h \in (i + 1)..j : s[h] \in Nat /\ l[h] = s[h]
    BY <1>1, <2>2
  <2>4. /\ SubSeq(s, i + 1, j) \in Seq(Nat)
        /\ Len(SubSeq(s, i + 1, j)) = IF i + 1 <= j THEN j - (i + 1) + 1 ELSE 0
        /\ \A h \in 1..(j - (i + 1) + 1) : SubSeq(s, i + 1, j)[h] = s[(i + 1) + h - 1]
    BY <2>1, <2>3, SubSeqProperties
  <2>5. /\ SubSeq(l, i + 1, j) \in Seq(Nat)
        /\ Len(SubSeq(l, i + 1, j)) = IF i + 1 <= j THEN j - (i + 1) + 1 ELSE 0
        /\ \A h \in 1..(j - (i + 1) + 1) : SubSeq(l, i + 1, j)[h] = l[(i + 1) + h - 1]
    BY <2>1, <2>3, SubSeqProperties
  <2>6. \A h \in 1..(j - (i + 1) + 1) : (i + 1) + h - 1 \in (i + 1)..j
    BY <1>1
  <2>7. 1..Len(SubSeq(s, i + 1, j)) \subseteq 1..(j - (i + 1) + 1)
    BY <1>1, <2>4
  <2>8. SubSeq(s, i + 1, j) = SubSeq(l, i + 1, j)
    BY <2>3, <2>4, <2>5, <2>6, <2>7, SeqEqual
  <2> QED
    BY <1>1, <2>1, <2>8, PartOf
<1>3. d \in SubSeqs(l)
  <2>1. k + 1 \in Int /\ k + m \in Int /\ k \in 0..(k + m) /\ k + m \in 0..(k + m)
    BY <1>1
  <2>2. \A h \in (k + 1)..(k + m) : h \in 1..(k + m) /\ ~(h <= k) /\ h - k \in 1..m
    BY <1>1
  <2>3. \A h \in (k + 1)..(k + m) : l[h] \in Nat /\ l[h] = d[h - k]
    BY <1>1, <2>2
  <2>4. /\ SubSeq(l, k + 1, k + m) \in Seq(Nat)
        /\ Len(SubSeq(l, k + 1, k + m)) = IF k + 1 <= k + m THEN (k + m) - (k + 1) + 1 ELSE 0
        /\ \A h \in 1..((k + m) - (k + 1) + 1) : SubSeq(l, k + 1, k + m)[h] = l[(k + 1) + h - 1]
    BY <2>1, <2>3, SubSeqProperties
  <2>5. /\ (IF k + 1 <= k + m THEN (k + m) - (k + 1) + 1 ELSE 0) = m
        /\ \A h \in 1..m : /\ h \in 1..((k + m) - (k + 1) + 1)
                           /\ (k + 1) + h - 1 \in (k + 1)..(k + m) /\ ((k + 1) + h - 1) - k = h
    BY <1>1
  <2>6. \A h \in 1..m : SubSeq(l, k + 1, k + m)[h] = d[h]
    BY <2>3, <2>4, <2>5
  <2>7. Len(d) = m
    BY DEF m
  <2>8. d = SubSeq(l, k + 1, k + m)
    BY <2>4, <2>5, <2>6, <2>7, SeqEqual
  <2> QED
    BY <1>1, <2>1, <2>8, PartOf
<1>4. ASSUME NEW t \in SubSeqs(s) PROVE t \in SubSeqs(l)
  <2>1. PICK i \in 0..k, j \in 0..k : t = SubSeq(s, i + 1, j)
    BY PartOf DEF k
  <2> QED
    BY <1>2, <2>1
<1> QED
  BY <1>3, <1>4 DEF l

\* A text that another begins with is followed by what is new of the other.
LEMMA PrefixConcat ==
  ASSUME NEW s \in Seq(Nat), NEW t \in Seq(Nat), IsPrefix(s, t)
  PROVE  /\ SubSeq(t, Len(s) + 1, Len(t)) \in Seq(Nat)
         /\ t = s \o SubSeq(t, Len(s) + 1, Len(t))
         /\ Len(s) = Len(t) => s = t
<1> DEFINE k == Len(s)
           m == Len(t)
           d == SubSeq(t, k + 1, m)
<1>1. /\ k \in Nat /\ m \in Nat /\ k <= m /\ SubSeq(s, 1, k) = s /\ SubSeq(t, 1, m) = t
      /\ SubSeq(t, 1, k) = s /\ \A i \in 1..m : t[i] \in Nat
  BY LenProperties, SubSeqFull, ElementOfSeq DEF IsPrefix
<1>2. k = m => s = t
  BY <1>1
<1>3. d \in Seq(Nat) /\ t = s \o d
  <2> HIDE DEF k, m
  <2>1. 1 \in Int /\ k \in Int /\ k + 1 \in Int /\ m \in Int
    BY <1>1
  <2>2. \A i \in (k + 1)..m : i \in 1..m
    BY <1>1
  <2>3. \A i \in 1..k : i \in 1..m
    BY <1>1
  <2>4. \A i \in (k + 1)..m : t[i] \in Nat
    BY <1>1, <2>2
  <2>5. /\ d \in Seq(Nat) /\ Len(d) = IF k + 1 <= m THEN m - (k + 1) + 1 ELSE 0
        /\ \A i \in 1..(m - (k + 1) + 1) : d[i] = t[(k + 1) + i - 1]
    BY <2>1, <2>4, SubSeqProperties
  <2>6. \A i \in 1..k : t[i] \in Nat
    BY <1>1, <2>3
  <2>7. /\ \A i \in 1..(k - 1 + 1) : SubSeq(t, 1, k)[i] = t[1 + i - 1]
    BY <2>1, <2>6, SubSeqProperties
  <2>8. \A i \in 1..k : s[i] = t[i]
    <3>1. \A i \in 1..k : i \in 1..(k - 1 + 1) /\ 1 + i - 1 = i
      BY <1>1
    <3> QED
      BY <1>1, <2>7, <3>1
  <2>9. Len(s) = k /\ Len(t) = m
    BY DEF k, m
  <2> HIDE DEF d
  <2>10. Len(d) = m - k
    BY <1>1, <2>5
  <2>11. /\ s \o d \in Seq(Nat) /\ Len(s \o d) = k + (m - k)
         /\ \A i \in 1..(k + (m - k)) : (s \o d)[i] = IF i <= k THEN s[i] ELSE d[i - k]
    <3>1. /\ s \o d \in Seq(Nat) /\ Len(s \o d) = Len(s) + Len(d)
          /\ \A i \in 1..(Len(s) + Len(d)) :
               (s \o d)[i] = IF i <= Len(s) THEN s[i] ELSE d[i - Len(s)]
      BY <2>5, ConcatProperties
    <3>2. Len(s) = k /\ Len(d) = m - k
      BY <2>9, <2>10
    <3> HIDE DEF d
    <3> QED
      BY <3>1, <3>2, Zenon
  <2>12. Len(s \o d) = m
    BY <1>1, <2>11
  <2>13. \A i \in 1..m : t[i] = (s \o d)[i]
    <3> TAKE i \in 1..m
    <3>1. i \in 1..(k + (m - k))
      BY <1>1
    <3>2. CASE i <= k
      <4>1. i \in 1..k
        BY <1>1, <3>2
      <4> QED
        BY <2>8, <2>11, <3>1, <3>2, <4>1
    <3>3. CASE ~(i <= k)
      <4>1. i - k \in 1..(m - (k + 1) + 1) /\ (k + 1) + (i - k) - 1 = i
        BY <1>1, <3>3
      <4>2. d[i - k] = t[i]
        BY <2>5, <4>1
      <4> QED
        BY <2>11, <3>1, <3>3, <4>2
    <3> QED
      BY <3>2, <3>3
  <2> QED
    BY <2>5, <2>9, <2>11, <2>12, <2>13, SeqEqual
<1> QED
  BY <1>2, <1>3

\* handleDelta appends what it sends, and every text is in what was sent.
LEMMA CollectedIs ==
  ASSUME NEW old \in Seq(Nat), NEW t \in Seq(Nat)
  PROVE  /\ DeltaOf(t, old) \in Seq(Nat) /\ Collected(old, t) \in Seq(Nat)
         /\ Collected(old, t) = old \o DeltaOf(t, old)
         /\ SubSeqs(old) \subseteq SubSeqs(Collected(old, t)) /\ t \in SubSeqs(Collected(old, t))
<1>1. /\ old \o t \in Seq(Nat) /\ SubSeqs(old) \subseteq SubSeqs(old \o t)
      /\ t \in SubSeqs(old \o t) /\ old \o <<>> = old /\ <<>> \in Seq(Nat)
  BY PartsStay, ConcatProperties, ConcatEmptySeq, EmptySeq
<1>2. t \in SubSeqs(t)
  <2>1. SubSeq(t, 0 + 1, Len(t)) = t /\ Len(t) \in Nat
    BY SubSeqFull, LenProperties
  <2>2. 0 \in 0..Len(t) /\ Len(t) \in 0..Len(t)
    BY <2>1
  <2> QED
    BY <2>1, <2>2, PartOf
<1>3. CASE Extends(t, old)
  <2> DEFINE d == SubSeq(t, Len(old) + 1, Len(t))
  <2>1. DeltaOf(t, old) = d /\ Collected(old, t) = t /\ IsPrefix(old, t)
    BY <1>3 DEF DeltaOf, Collected, Extends
  <2>2. d \in Seq(Nat) /\ t = old \o d
    BY <2>1, PrefixConcat
  <2> HIDE DEF d
  <2>3. SubSeqs(old) \subseteq SubSeqs(t)
    BY <2>2, PartsStay
  <2> QED
    BY <1>2, <2>1, <2>2, <2>3
<1>4. CASE ~Extends(t, old) /\ t \in SubSeqs(old)
  BY <1>1, <1>4 DEF DeltaOf, Collected
<1>5. CASE ~Extends(t, old) /\ t \notin SubSeqs(old)
  BY <1>1, <1>5 DEF DeltaOf, Collected
<1> QED
  BY <1>3, <1>4, <1>5

\* A text that begins with all that came before replaces it.
LEMMA PrefixCollected ==
  ASSUME NEW old \in Seq(Nat), NEW t \in Seq(Nat), IsPrefix(old, t)
  PROVE  Collected(old, t) = t
<1>1. Len(old) <= Len(t) /\ Len(old) \in Nat /\ Len(t) \in Nat
  BY LenProperties DEF IsPrefix
<1>2. CASE Len(t) > Len(old)
  BY <1>2 DEF Collected, Extends
<1>3. CASE Len(t) = Len(old)
  <2>1. old = t
    BY <1>3, PrefixConcat
  <2>2. ~Extends(t, old)
    BY <1>1, <1>3 DEF Extends
  <2>3. Collected(old, t) = IF t \in SubSeqs(old) THEN old ELSE old \o t
    BY <2>2 DEF Collected
  <2>4. t \in SubSeqs(old)
    <3>1. SubSeq(t, 0 + 1, Len(t)) = t
      BY SubSeqFull
    <3>2. 0 \in 0..Len(t) /\ Len(t) \in 0..Len(t)
      BY <1>1
    <3> QED
      BY <2>1, <3>1, <3>2, PartOf
  <2> QED
    BY <2>1, <2>3, <2>4
<1> QED
  BY <1>1, <1>2, <1>3

Chain(ps) == \A i \in 1..(Len(ps) - 1) : IsPrefix(ps[i].text, ps[i + 1].text)

\* Every text is in what was sent; texts that grow are, together, the last of them.
Repeats(ps, sent) ==
  /\ \A i \in DOMAIN ps : ps[i].text \in SubSeqs(sent)
  /\ ps # <<>> /\ Chain(ps) => sent = ps[Len(ps)].text
  /\ ps = <<>> => sent = <<>>

LEMMA RepeatsOne ==
  ASSUME NEW ps \in Seq(Said), NEW p \in Said, NEW sent \in Seq(Nat), Repeats(ps, sent)
  PROVE  Repeats(Append(ps, p), Collected(sent, p.text))
<1> DEFINE l == Append(ps, p)
           k == Len(ps)
           next == Collected(sent, p.text)
<1>1. /\ k \in Nat /\ DOMAIN ps = 1..k /\ DOMAIN l = 1..(k + 1) /\ l[k + 1] = p /\ Len(l) = k + 1
      /\ l # <<>> /\ \A i \in 1..k : l[i] = ps[i]
  <2>1. l \in Seq(Said) /\ l # <<>>
    BY AppendProperties
  <2> QED
    BY <2>1, LenProperties, AppendProperties
<1>2. p.text \in Seq(Nat)
  BY DEF Said
<1>3. SubSeqs(sent) \subseteq SubSeqs(next) /\ p.text \in SubSeqs(next)
  BY <1>2, CollectedIs
<1>4. IsPrefix(sent, p.text) => next = p.text
  BY <1>2, PrefixCollected
<1>5. Len(ps) = k /\ (ps # <<>> => k \in Nat \ {0})
  BY EmptySeq
<1> HIDE DEF l, k, next
<1>6. k \in Nat
  BY <1>1
<1>7. \A i \in DOMAIN l : l[i].text \in SubSeqs(next)
  <2>1. \A i \in 1..(k + 1) : i \in 1..k \/ i = k + 1
    BY <1>6
  <2> QED
    BY <1>1, <1>3, <2>1 DEF Repeats
<1>8. ASSUME Chain(l) PROVE next = l[Len(l)].text
  <2>1. CASE ps = <<>>
    <3>1. IsPrefix(<<>>, p.text)
      <4>1. Len(<<>>) = 0 /\ Len(p.text) \in Nat /\ 1 \in Int /\ 0 \in Int /\ 0 < 1
        BY <1>2, LenProperties
      <4>2. SubSeq(<<>>, 1, 0) = <<>> /\ SubSeq(p.text, 1, 0) = <<>>
        BY <4>1, SubSeqEmpty
      <4> QED
        BY <4>1, <4>2 DEF IsPrefix
    <3> QED
      BY <1>1, <1>4, <2>1, <3>1 DEF Repeats
  <2>2. CASE ps # <<>>
    <3>1. k \in Nat \ {0} /\ \A i \in 1..(k - 1) : i \in 1..((k + 1) - 1) /\ i \in 1..k /\ i + 1 \in 1..k
      BY <1>5, <2>2
    <3>2. k \in 1..((k + 1) - 1) /\ k \in 1..k
      BY <3>1
    <3>3. Chain(ps)
      BY <1>1, <1>5, <1>8, <3>1 DEF Chain
    <3>4. IsPrefix(l[k].text, l[k + 1].text)
      BY <1>1, <1>8, <3>2 DEF Chain
    <3>5. sent = ps[k].text
      BY <1>5, <2>2, <3>3 DEF Repeats
    <3> QED
      BY <1>1, <1>4, <3>2, <3>4, <3>5
  <2> QED
    BY <2>1, <2>2
<1>9. Repeats(l, next)
  BY <1>1, <1>7, <1>8 DEF Repeats
<1> QED
  BY <1>9 DEF l, next

TextsOf(fs) == [i \in DOMAIN fs |-> fs[i].reasoning \o fs[i].text]

LEMMA TextsOne ==
  ASSUME NEW fs \in Seq(WireFrame), NEW frame \in WireFrame
  PROVE  /\ TextsOf(fs) \in Seq(Seq(Nat)) /\ frame.reasoning \o frame.text \in Seq(Nat)
         /\ TextsOf(Append(fs, frame)) = Append(TextsOf(fs), frame.reasoning \o frame.text)
<1> DEFINE l == Append(fs, frame)
           k == Len(fs)
           x == frame.reasoning \o frame.text
           f == TextsOf(fs)
           g == TextsOf(l)
<1>1. /\ k \in Nat /\ DOMAIN fs = 1..k /\ DOMAIN l = 1..(k + 1) /\ l[k + 1] = frame
      /\ \A i \in 1..k : l[i] = fs[i] /\ fs[i] \in WireFrame
  <2>1. l \in Seq(WireFrame) /\ Len(l) = Len(fs) + 1
    BY AppendProperties
  <2> QED
    BY <2>1, LenProperties, AppendProperties, ElementOfSeq
<1>2. \A q \in WireFrame : q.reasoning \o q.text \in Seq(Nat)
  <2>1. ASSUME NEW q \in WireFrame PROVE q.reasoning \in Seq(Nat) /\ q.text \in Seq(Nat)
    BY DEF WireFrame
  <2> QED
    BY <2>1, ConcatProperties
<1> HIDE DEF l, k
<1>3. f = [i \in 1..k |-> fs[i].reasoning \o fs[i].text]
  BY <1>1 DEF TextsOf
<1>4. \A i \in 1..k : f[i] \in Seq(Nat) /\ f[i] = fs[i].reasoning \o fs[i].text
  BY <1>1, <1>2, <1>3
<1>5. g = [i \in 1..(k + 1) |-> l[i].reasoning \o l[i].text]
  BY <1>1 DEF TextsOf
<1>6. x \in Seq(Nat)
  BY <1>2
<1>7. \A i \in 1..(k + 1) : i \in 1..k \/ i = k + 1
  <2>1. k \in Nat
    BY <1>1
  <2> QED
    BY <2>1
<1>8. \A i \in 1..(k + 1) : g[i] = IF i \in 1..k THEN f[i] ELSE x
  <2>1. \A i \in 1..(k + 1) : g[i] = l[i].reasoning \o l[i].text
    BY <1>5
  <2> HIDE DEF f, g
  <2> QED
    BY <1>1, <1>4, <1>7, <2>1
<1> HIDE DEF f, g, x
<1>9. f \in Seq(Seq(Nat)) /\ Len(f) = k
  <2> DEFINE T == Seq(Nat)
  <2>1. \A i \in 1..k : f[i] \in T
    BY <1>4
  <2> HIDE DEF T
  <2>2. f \in Seq(T) /\ Len(f) = k
    BY <1>1, <1>3, <2>1
  <2> QED
    BY <2>2 DEF T
<1>10. g = Append(f, x)
  <2> DEFINE T == Seq(Nat)
  <2>1. f \in Seq(T) /\ Len(f) = k /\ x \in T /\ \A i \in 1..(k + 1) : g[i] \in T
    BY <1>4, <1>6, <1>8, <1>9
  <2> HIDE DEF T
  <2>2. Append(f, x) \in Seq(T) /\ Len(Append(f, x)) = k + 1
    BY <2>1, AppendProperties
  <2>3. g \in Seq(T) /\ Len(g) = k + 1
    BY <1>1, <1>5, <2>1
  <2>4. \A i \in 1..k : Append(f, x)[i] = f[i]
    BY <2>1, AppendProperties
  <2>5. Append(f, x)[k + 1] = x
    BY <2>1, AppendProperties
  <2>6. k + 1 \notin 1..k
    BY <1>1
  <2>7. \A i \in 1..(k + 1) : g[i] = Append(f, x)[i]
    BY <1>7, <1>8, <2>4, <2>5, <2>6
  <2> QED
    BY <2>2, <2>3, <2>7, SeqEqual
<1> QED
  BY <1>6, <1>9, <1>10 DEF f, g, l, x

LEMMA SentOne ==
  ASSUME NEW fs \in Seq(WireFrame), NEW frame \in WireFrame
  PROVE  /\ SentIn(fs) \in Seq(Nat)
         /\ SentIn(Append(fs, frame)) = SentIn(fs) \o (frame.reasoning \o frame.text)
<1>1. \A l : SentIn(l) = Joined(TextsOf(l))
  BY DEF SentIn, TextsOf
<1>2. /\ TextsOf(fs) \in Seq(Seq(Nat)) /\ frame.reasoning \o frame.text \in Seq(Nat)
      /\ TextsOf(Append(fs, frame)) = Append(TextsOf(fs), frame.reasoning \o frame.text)
  BY TextsOne
<1>3. Joined(TextsOf(fs)) \in Seq(Nat)
  BY <1>2, JoinedType
<1>4. Joined(Append(TextsOf(fs), frame.reasoning \o frame.text))
        = Joined(TextsOf(fs)) \o (frame.reasoning \o frame.text)
  <2> DEFINE s == TextsOf(fs)
             e == frame.reasoning \o frame.text
             S == Seq(Nat)
  <2>1. s \in Seq(S) /\ e \in S
    BY <1>2
  <2> HIDE DEF s, e, S
  <2>2. Joined(Append(s, e)) = Joined(s) \o e
    BY <2>1, JoinOne
  <2> QED
    BY <2>2 DEF s, e
<1> QED
  BY <1>1, <1>2, <1>3, <1>4

LEMMA ConcatThree ==
  ASSUME NEW a \in Seq(Nat), NEW b \in Seq(Nat), NEW c \in Seq(Nat)
  PROVE  a \o (b \o c) = (a \o b) \o c /\ b \o c \in Seq(Nat)
<1> DEFINE S == Nat
<1>1. a \in Seq(S) /\ b \in Seq(S) /\ c \in Seq(S)
  OBVIOUS
<1> HIDE DEF S
<1>2. (a \o b) \o c = a \o (b \o c)
  BY <1>1, ConcatAssociative, SMTT(30)
<1>3. b \o c \in Seq(S)
  BY <1>1, ConcatProperties
<1> QED
  BY <1>2, <1>3 DEF S

LEMMA BlankFrame ==
  ASSUME NEW kind \in {"chunk", "done", "error"}
  PROVE  Frame(kind) \in WireFrame /\ Frame(kind).text = <<>> /\ Frame(kind).reasoning = <<>>
<1>1. <<>> \in Seq(Nat) /\ <<>> \in Seq(Piece) /\ "" \in Words /\ None \in Nat \cup {None}
  BY EmptySeq DEF Words
<1> QED
  BY <1>1 DEF Frame, WireFrame

LEMMA SentNone == SentIn(<<>>) = <<>>
<1>1. [i \in DOMAIN <<>> |-> <<>>[i].reasoning \o <<>>[i].text] = <<>>
  OBVIOUS
<1> QED
  BY <1>1, FoldNone DEF SentIn

LEMMA SentConcat ==
  ASSUME NEW fs \in Seq(WireFrame)
  PROVE  \A gs \in Seq(WireFrame) :
           SentIn(gs) \in Seq(Nat) /\ SentIn(fs \o gs) = SentIn(fs) \o SentIn(gs)
<1> DEFINE T == {gs \in Seq(WireFrame) :
                   SentIn(gs) \in Seq(Nat) /\ SentIn(fs \o gs) = SentIn(fs) \o SentIn(gs)}
<1>0. SentIn(fs) \in Seq(Nat)
  BY BlankFrame, SentOne
<1>1. <<>> \in T
  BY <1>0, SentNone, EmptySeq, ConcatEmptySeq
<1>2. ASSUME NEW gs \in Seq(WireFrame), NEW e \in WireFrame, gs \in T PROVE Append(gs, e) \in T
  <2> DEFINE x == e.reasoning \o e.text
  <2>1. Append(gs, e) \in Seq(WireFrame) /\ fs \o gs \in Seq(WireFrame)
    BY AppendProperties, ConcatProperties
  <2>2. fs \o Append(gs, e) = Append(fs \o gs, e)
    <3>1. <<e>> \in Seq(WireFrame)
      OBVIOUS
    <3>2. Append(gs, e) = gs \o <<e>> /\ Append(fs \o gs, e) = (fs \o gs) \o <<e>>
      BY <2>1, AppendIsConcat
    <3> QED
      BY <3>1, <3>2, ConcatAssociative
  <2>3. SentIn(Append(fs \o gs, e)) = SentIn(fs \o gs) \o x
    BY <2>1, SentOne
  <2>4. SentIn(gs) \in Seq(Nat) /\ SentIn(Append(gs, e)) = SentIn(gs) \o x /\ x \in Seq(Nat)
    BY SentOne, TextsOne
  <2>5. SentIn(fs \o gs) = SentIn(fs) \o SentIn(gs)
    BY <1>2
  <2> HIDE DEF x
  <2>6. SentIn(fs) \o (SentIn(gs) \o x) = (SentIn(fs) \o SentIn(gs)) \o x /\ SentIn(gs) \o x \in Seq(Nat)
    BY <1>0, <2>4, ConcatThree
  <2> QED
    BY <2>1, <2>2, <2>3, <2>4, <2>5, <2>6
<1>3. Seq(WireFrame) \subseteq T
  <2> HIDE DEF T
  <2> QED
    BY <1>1, <1>2, Joins!GrowingSeq
<1> QED
  BY <1>3

LEMMA TextFrame ==
  ASSUME NEW d \in Seq(Nat)
  PROVE  /\ [Frame("chunk") EXCEPT !.text = d] \in WireFrame
         /\ [Frame("chunk") EXCEPT !.reasoning = d] \in WireFrame
         /\ [Frame("chunk") EXCEPT !.finish = "stop"] \in WireFrame
         /\ [Frame("chunk") EXCEPT !.text = d].reasoning \o [Frame("chunk") EXCEPT !.text = d].text = d
         /\ [Frame("chunk") EXCEPT !.reasoning = d].reasoning
              \o [Frame("chunk") EXCEPT !.reasoning = d].text = d
         /\ [Frame("chunk") EXCEPT !.finish = "stop"].reasoning
              \o [Frame("chunk") EXCEPT !.finish = "stop"].text = <<>>
<1> DEFINE base == Frame("chunk")
<1>1. base \in WireFrame /\ base.text = <<>> /\ base.reasoning = <<>>
  BY BlankFrame
<1>2. d \o <<>> = d /\ <<>> \o d = d /\ <<>> \o <<>> = <<>>
  BY ConcatEmptySeq
<1>3. "stop" \in Words
  BY DEF Words
<1> HIDE DEF base
<1>4. /\ [base EXCEPT !.text = d] \in WireFrame
      /\ [base EXCEPT !.text = d].text = d /\ [base EXCEPT !.text = d].reasoning = <<>>
  BY <1>1 DEF WireFrame
<1>5. /\ [base EXCEPT !.reasoning = d] \in WireFrame
      /\ [base EXCEPT !.reasoning = d].text = <<>> /\ [base EXCEPT !.reasoning = d].reasoning = d
  BY <1>1 DEF WireFrame
<1>6. /\ [base EXCEPT !.finish = "stop"] \in WireFrame
      /\ [base EXCEPT !.finish = "stop"].text = <<>> /\ [base EXCEPT !.finish = "stop"].reasoning = <<>>
  BY <1>1, <1>3 DEF WireFrame
<1> QED
  BY <1>2, <1>4, <1>5, <1>6 DEF base

\* Frames without reasoning.
Quiet(fs) == \A i \in DOMAIN fs : fs[i].reasoning = <<>>

LEMMA QuietOne ==
  ASSUME NEW fs \in Seq(WireFrame), NEW frame \in WireFrame, Quiet(fs), frame.reasoning = <<>>
  PROVE  Quiet(Append(fs, frame))
<1> DEFINE l == Append(fs, frame)
           k == Len(fs)
<1>1. /\ k \in Nat /\ DOMAIN fs = 1..k /\ DOMAIN l = 1..(k + 1) /\ l[k + 1] = frame
      /\ \A i \in 1..k : l[i] = fs[i]
  <2>1. l \in Seq(WireFrame) /\ Len(l) = Len(fs) + 1
    BY AppendProperties
  <2> QED
    BY <2>1, LenProperties, AppendProperties
<1> HIDE DEF l, k
<1>2. \A i \in 1..(k + 1) : i \in 1..k \/ i = k + 1
  <2>1. k \in Nat
    BY <1>1
  <2> QED
    BY <2>1
<1> QED
  BY <1>1, <1>2 DEF Quiet, l

LEMMA QuietConcat ==
  ASSUME NEW fs \in Seq(WireFrame), NEW gs \in Seq(WireFrame), Quiet(fs), Quiet(gs)
  PROVE  Quiet(fs \o gs)
<1> DEFINE k == Len(fs)
           m == Len(gs)
           l == fs \o gs
<1>1. /\ k \in Nat /\ m \in Nat /\ DOMAIN fs = 1..k /\ DOMAIN gs = 1..m /\ DOMAIN l = 1..(k + m)
      /\ \A i \in 1..(k + m) : l[i] = IF i <= k THEN fs[i] ELSE gs[i - k]
  <2>1. l \in Seq(WireFrame)
    BY ConcatProperties
  <2> QED
    BY <2>1, LenProperties, ConcatProperties
<1> HIDE DEF k, m, l
<1>2. \A i \in 1..(k + m) : IF i <= k THEN i \in 1..k ELSE i - k \in 1..m
  <2>1. k \in Nat /\ m \in Nat
    BY <1>1
  <2> QED
    BY <2>1
<1> QED
  BY <1>1, <1>2 DEF Quiet, l

\* Without reasoning the content is all that was sent.
LEMMA QuietContent ==
  ASSUME NEW fs \in Seq(WireFrame), Quiet(fs)
  PROVE  SentIn(fs) = ContentIn(fs)
<1>1. \A i \in DOMAIN fs : fs[i].reasoning \o fs[i].text = fs[i].text
  <2> TAKE i \in DOMAIN fs
  <2>1. fs[i] \in WireFrame
    BY LenProperties, ElementOfSeq
  <2>2. fs[i].text \in Seq(Nat)
    BY <2>1 DEF WireFrame
  <2> QED
    BY <2>2, ConcatEmptySeq DEF Quiet
<1>2. TextsOf(fs) = Of(fs, "text")
  BY <1>1 DEF TextsOf, Of
<1> QED
  BY <1>2 DEF SentIn, ContentIn, TextsOf

\* The frames of a text add to what was sent what it adds to what was heard.
LEMMA HearIs ==
  ASSUME NEW h, h.full \in Seq(Nat), h.frames \in Seq(WireFrame), NEW old \in Seq(Nat),
         h.full = old \o SentIn(h.frames), NEW said \in Said
  PROVE  /\ Hear(h, said).full = Collected(h.full, said.text)
         /\ Hear(h, said).full \in Seq(Nat) /\ Hear(h, said).frames \in Seq(WireFrame)
         /\ Hear(h, said).full = old \o SentIn(Hear(h, said).frames)
         /\ Quiet(h.frames) /\ ~said.thought => Quiet(Hear(h, said).frames)
<1> DEFINE d == DeltaOf(said.text, h.full)
           chunk == IF said.thought THEN [Frame("chunk") EXCEPT !.reasoning = d]
                    ELSE [Frame("chunk") EXCEPT !.text = d]
           next == Hear(h, said)
<1>1. /\ next.full = Collected(h.full, said.text)
      /\ next.frames = IF d = <<>> THEN h.frames ELSE Append(h.frames, chunk)
  BY DEF Hear
<1>2. said.text \in Seq(Nat)
  BY DEF Said
<1>3. d \in Seq(Nat) /\ Collected(h.full, said.text) \in Seq(Nat) /\ Collected(h.full, said.text) = h.full \o d
  BY <1>2, CollectedIs
<1>4. /\ chunk \in WireFrame /\ chunk.reasoning \o chunk.text = d
      /\ ~said.thought => chunk.reasoning = <<>>
  <2>1. chunk \in WireFrame /\ chunk.reasoning \o chunk.text = d
    BY <1>3, TextFrame
  <2>2. Frame("chunk").reasoning = <<>>
    BY BlankFrame
  <2>3. [Frame("chunk") EXCEPT !.text = d].reasoning = <<>>
    BY <2>2 DEF Frame
  <2> QED
    BY <2>1, <2>3
<1> HIDE DEF d, chunk, next
<1>5. CASE d = <<>>
  BY <1>1, <1>3, <1>5, ConcatEmptySeq DEF next
<1>6. CASE d # <<>>
  <2>1. next.frames = Append(h.frames, chunk)
    BY <1>1, <1>6
  <2>2. Append(h.frames, chunk) \in Seq(WireFrame)
    BY <1>4, AppendProperties
  <2>3. SentIn(h.frames) \in Seq(Nat) /\ SentIn(Append(h.frames, chunk)) = SentIn(h.frames) \o d
    BY <1>4, SentOne
  <2>4. (old \o SentIn(h.frames)) \o d = old \o (SentIn(h.frames) \o d)
    BY <1>3, <2>3, ConcatThree
  <2> QED
    BY <1>1, <1>3, <1>4, <2>1, <2>2, <2>3, <2>4, QuietOne DEF next
<1> QED
  BY <1>5, <1>6

Base(old) == [full |-> old, frames |-> <<>>]

\* What an item adds: its frames hold what is new, and nothing is sent twice.
HeardIs(old, texts) ==
  LET h == HearAll(Base(old), texts) IN
  /\ h.full \in Seq(Nat) /\ h.frames \in Seq(WireFrame) /\ h.full = old \o SentIn(h.frames)
  /\ NoThoughts(texts) => h.full = AnswerAll(old, texts) /\ Quiet(h.frames)
  /\ \A ps \in Seq(Said) : Repeats(ps, old) => Repeats(ps \o texts, h.full)

LEMMA TextsHeard ==
  ASSUME NEW old \in Seq(Nat)
  PROVE  \A texts \in Seq(Said) : HeardIs(old, texts)
<1> DEFINE T == {texts \in Seq(Said) : HeardIs(old, texts)}
<1>1. <<>> \in T
  <2>1. Base(old).full = old /\ Base(old).frames = <<>>
    BY DEF Base
  <2>2. HearAll(Base(old), <<>>) = Base(old) /\ AnswerAll(old, <<>>) = old
    BY HearNone
  <2>3. <<>> \in Seq(WireFrame) /\ <<>> \in Seq(Said) /\ old \o <<>> = old
        /\ \A ps \in Seq(Said) : ps \o <<>> = ps
    BY EmptySeq, ConcatEmptySeq
  <2>4. Quiet(<<>>)
    BY DEF Quiet
  <2> QED
    BY <2>1, <2>2, <2>3, <2>4, SentNone DEF HeardIs
<1>2. ASSUME NEW texts \in Seq(Said), NEW said \in Said, texts \in T
      PROVE  Append(texts, said) \in T
  <2> DEFINE l == Append(texts, said)
             h == HearAll(Base(old), texts)
             next == HearAll(Base(old), l)
  <2>1. l \in Seq(Said)
    BY AppendProperties
  <2>2. next = Hear(h, said) /\ AnswerAll(old, l) = Answer(AnswerAll(old, texts), said)
    BY HearOne, AnswerOne
  <2>3. /\ h.full \in Seq(Nat) /\ h.frames \in Seq(WireFrame) /\ h.full = old \o SentIn(h.frames)
        /\ NoThoughts(texts) => h.full = AnswerAll(old, texts) /\ Quiet(h.frames)
        /\ \A ps \in Seq(Said) : Repeats(ps, old) => Repeats(ps \o texts, h.full)
    BY <1>2 DEF HeardIs
  <2> HIDE DEF h
  <2>4. /\ next.full = Collected(h.full, said.text)
        /\ next.full \in Seq(Nat) /\ next.frames \in Seq(WireFrame)
        /\ next.full = old \o SentIn(next.frames)
        /\ Quiet(h.frames) /\ ~said.thought => Quiet(next.frames)
    <3>1. /\ Hear(h, said).full = Collected(h.full, said.text)
          /\ Hear(h, said).full \in Seq(Nat) /\ Hear(h, said).frames \in Seq(WireFrame)
          /\ Hear(h, said).full = old \o SentIn(Hear(h, said).frames)
          /\ Quiet(h.frames) /\ ~said.thought => Quiet(Hear(h, said).frames)
      BY <2>3, HearIs
    <3> QED
      BY <2>2, <3>1, Zenon
  <2>5. NoThoughts(l) => NoThoughts(texts) /\ ~said.thought
    <3> DEFINE k == Len(texts)
    <3>1. /\ k \in Nat /\ DOMAIN texts = 1..k /\ DOMAIN l = 1..(k + 1) /\ l[k + 1] = said
          /\ \A i \in 1..k : l[i] = texts[i]
      BY <2>1, LenProperties, AppendProperties
    <3> HIDE DEF k, l
    <3>2. k + 1 \in 1..(k + 1) /\ \A i \in 1..k : i \in 1..(k + 1)
      <4>1. k \in Nat
        BY <3>1
      <4> QED
        BY <4>1
    <3> QED
      BY <3>1, <3>2 DEF NoThoughts
  <2> HIDE DEF next
  <2>6. NoThoughts(l) => next.full = AnswerAll(old, l) /\ Quiet(next.frames)
    BY <2>2, <2>3, <2>4, <2>5 DEF Answer
  <2>7. ASSUME NEW ps \in Seq(Said), Repeats(ps, old) PROVE Repeats(ps \o l, next.full)
    <3>1. ps \o texts \in Seq(Said) /\ Repeats(ps \o texts, h.full)
      BY <2>3, <2>7, ConcatProperties
    <3>2. Repeats(Append(ps \o texts, said), next.full)
      BY <2>3, <2>4, <3>1, RepeatsOne
    <3>3. ps \o l = Append(ps \o texts, said)
      <4>1. <<said>> \in Seq(Said)
        OBVIOUS
      <4>2. l = texts \o <<said>> /\ Append(ps \o texts, said) = (ps \o texts) \o <<said>>
        BY <3>1, AppendIsConcat
      <4> QED
        BY <4>1, <4>2, ConcatAssociative
    <3> QED
      BY <3>2, <3>3
  <2>8. HeardIs(old, l)
    BY <2>4, <2>6, <2>7 DEF HeardIs, next
  <2> QED
    BY <2>1, <2>8
<1>3. Seq(Said) \subseteq T
  <2> HIDE DEF T
  <2> QED
    BY <1>1, <1>2, Joins!GrowingSeq
<1> QED
  BY <1>3

LEMMA UsageAdded ==
  ASSUME NEW fs \in Seq(WireFrame), wpending \in Nat \cup {None}
  PROVE  /\ WithUsage(fs) \in Seq(WireFrame) /\ SentIn(WithUsage(fs)) = SentIn(fs)
         /\ Quiet(fs) => Quiet(WithUsage(fs))
<1> DEFINE k == Len(fs)
           l == WithUsage(fs)
<1>1. k \in Nat /\ DOMAIN fs = 1..k /\ \A i \in 1..k : fs[i] \in WireFrame
  BY LenProperties, ElementOfSeq
<1>2. l = [i \in 1..k |-> IF i = 1 THEN [fs[i] EXCEPT !.usage = wpending] ELSE fs[i]]
  BY <1>1 DEF WithUsage
<1> HIDE DEF k, l
<1>3. \A frame \in WireFrame :
        /\ [frame EXCEPT !.usage = wpending] \in WireFrame
        /\ [frame EXCEPT !.usage = wpending].text = frame.text
        /\ [frame EXCEPT !.usage = wpending].reasoning = frame.reasoning
  BY DEF WireFrame
<1>4. \A i \in 1..k : l[i] \in WireFrame /\ l[i].text = fs[i].text /\ l[i].reasoning = fs[i].reasoning
  BY <1>1, <1>2, <1>3
<1>5. DOMAIN l = 1..k
  BY <1>2
<1>6. l \in Seq(WireFrame)
  BY <1>1, <1>2, <1>4
<1>7. TextsOf(l) = TextsOf(fs)
  BY <1>1, <1>4, <1>5 DEF TextsOf
<1>8. Quiet(fs) => Quiet(l)
  BY <1>1, <1>4, <1>5 DEF Quiet
<1> QED
  BY <1>6, <1>7, <1>8 DEF SentIn, TextsOf, l

\* A write to a client that is there is not lost.
LEMMA SendAll ==
  ASSUME wout \in Seq(WireFrame), NEW fs \in Seq(WireFrame), Send(fs)
  PROVE  wout' \in Seq(WireFrame) /\ (~wgone => wout' = wout \o fs)
<1> DEFINE k == Len(fs)
<1>1. k \in Nat /\ SubSeq(fs, 1, k) = fs /\ \A i \in 1..k : fs[i] \in WireFrame
  BY LenProperties, SubSeqFull, ElementOfSeq
<1>2. PICK n \in (IF wgone THEN 0..k ELSE {k}) : wout' = wout \o SubSeq(fs, 1, n)
  BY DEF Send
<1> HIDE DEF k
<1>3. n \in 0..k /\ 1 \in Int /\ n \in Int /\ \A i \in 1..n : i \in 1..k
  BY <1>1, <1>2
<1>4. \A i \in 1..n : fs[i] \in WireFrame
  BY <1>1, <1>3
<1>5. SubSeq(fs, 1, n) \in Seq(WireFrame)
  BY <1>3, <1>4, SubSeqProperties
<1>6. wout' \in Seq(WireFrame)
  BY <1>2, <1>5, ConcatProperties
<1> QED
  BY <1>1, <1>2, <1>6

LEMMA SaidConcat ==
  ASSUME NEW fs \in Seq(WireFrame), NEW gs \in Seq(WireFrame), SaidDone(fs) \/ SaidDone(gs)
  PROVE  SaidDone(fs \o gs)
<1> DEFINE k == Len(fs)
           m == Len(gs)
           l == fs \o gs
<1>1. /\ k \in Nat /\ m \in Nat /\ DOMAIN fs = 1..k /\ DOMAIN gs = 1..m /\ DOMAIN l = 1..(k + m)
      /\ \A i \in 1..(k + m) : l[i] = IF i <= k THEN fs[i] ELSE gs[i - k]
  <2>1. l \in Seq(WireFrame)
    BY ConcatProperties
  <2> QED
    BY <2>1, LenProperties, ConcatProperties
<1> HIDE DEF k, m, l
<1>2. k \in Nat /\ m \in Nat
  BY <1>1
<1>3. CASE SaidDone(fs)
  <2>1. PICK i \in 1..k : fs[i].kind = "done"
    BY <1>1, <1>3 DEF SaidDone
  <2>2. i \in 1..(k + m) /\ i <= k
    BY <1>2
  <2> QED
    BY <1>1, <2>1, <2>2 DEF SaidDone, l
<1>4. CASE SaidDone(gs)
  <2>1. PICK i \in 1..m : gs[i].kind = "done"
    BY <1>1, <1>4 DEF SaidDone
  <2>2. k + i \in 1..(k + m) /\ ~(k + i <= k) /\ (k + i) - k = i
    BY <1>2
  <2> QED
    BY <1>1, <2>1, <2>2 DEF SaidDone, l
<1> QED
  BY <1>3, <1>4

-----------------------------------------------------------------------------
(* The relay of the work channel *)

Passed(ls) == \E i \in DOMAIN ls : ls[i].line = "chunk"

AllAlike(ls) == \A i \in DOMAIN ls : ReadAlike(ls[i])
NoLong(ls) == \A i \in DOMAIN ls : ~ls[i].long
NoStream(ls) == \A i \in DOMAIN ls : ls[i].line = "json"

LEMMA LineOne ==
  ASSUME NEW ls \in Seq(Items), NEW item \in Items
  PROVE  /\ Append(ls, item) \in Seq(Items)
         /\ ~Passed(Append(ls, item)) => ~Passed(ls) /\ item.line # "chunk"
         /\ AllAlike(Append(ls, item)) => AllAlike(ls) /\ ReadAlike(item)
         /\ NoLong(Append(ls, item)) => NoLong(ls) /\ ~item.long
         /\ NoStream(Append(ls, item)) => NoStream(ls) /\ item.line = "json"
<1> DEFINE l == Append(ls, item)
           k == Len(ls)
<1>1. /\ k \in Nat /\ DOMAIN ls = 1..k /\ DOMAIN l = 1..(k + 1) /\ l[k + 1] = item
      /\ l \in Seq(Items) /\ \A i \in 1..k : l[i] = ls[i]
  <2>1. l \in Seq(Items)
    BY AppendProperties
  <2> QED
    BY <2>1, LenProperties, AppendProperties
<1> HIDE DEF k, l
<1>2. k + 1 \in 1..(k + 1) /\ \A i \in 1..k : i \in 1..(k + 1)
  <2>1. k \in Nat
    BY <1>1
  <2> QED
    BY <2>1
<1>3. ~Passed(l) => ~Passed(ls) /\ item.line # "chunk"
  BY <1>1, <1>2 DEF Passed
<1>4. AllAlike(l) => AllAlike(ls) /\ ReadAlike(item)
  BY <1>1, <1>2 DEF AllAlike
<1>5. NoLong(l) => NoLong(ls) /\ ~item.long
  BY <1>1, <1>2 DEF NoLong
<1>6. NoStream(l) => NoStream(ls) /\ item.line = "json"
  BY <1>1, <1>2 DEF NoStream
<1> QED
  BY <1>1, <1>3, <1>4, <1>5, <1>6 DEF l

LEMMA ThoughtsConcat ==
  ASSUME NEW ps \in Seq(Said), NEW qs \in Seq(Said)
  PROVE  NoThoughts(ps \o qs) <=> NoThoughts(ps) /\ NoThoughts(qs)
<1> DEFINE k == Len(ps)
           m == Len(qs)
           l == ps \o qs
<1>1. /\ k \in Nat /\ m \in Nat /\ DOMAIN ps = 1..k /\ DOMAIN qs = 1..m /\ DOMAIN l = 1..(k + m)
      /\ \A i \in 1..(k + m) : l[i] = IF i <= k THEN ps[i] ELSE qs[i - k]
  <2>1. l \in Seq(Said)
    BY ConcatProperties
  <2> QED
    BY <2>1, LenProperties, ConcatProperties
<1> HIDE DEF k, m, l
<1>2. /\ \A i \in 1..(k + m) : IF i <= k THEN i \in 1..k ELSE i - k \in 1..m
      /\ \A i \in 1..k : i \in 1..(k + m) /\ i <= k
      /\ \A i \in 1..m : k + i \in 1..(k + m) /\ ~(k + i <= k) /\ (k + i) - k = i
  <2>1. k \in Nat /\ m \in Nat
    BY <1>1
  <2> QED
    BY <2>1
<1>3. NoThoughts(ps) /\ NoThoughts(qs) => NoThoughts(l)
  BY <1>1, <1>2 DEF NoThoughts
<1>4. NoThoughts(l) => NoThoughts(ps)
  BY <1>1, <1>2 DEF NoThoughts
<1>5. NoThoughts(l) => NoThoughts(qs)
  BY <1>1, <1>2 DEF NoThoughts
<1> QED
  BY <1>3, <1>4, <1>5 DEF l

LEMMA BeginsConcat ==
  ASSUME NEW s \in Seq(Nat), NEW d \in Seq(Nat)
  PROVE  IsPrefix(s, s \o d)
<1> DEFINE k == Len(s)
           m == Len(d)
           l == s \o d
           head == SubSeq(l, 1, k)
<1>1. /\ k \in Nat /\ m \in Nat /\ l \in Seq(Nat) /\ Len(l) = k + m /\ SubSeq(s, 1, k) = s
      /\ \A i \in 1..(k + m) : l[i] = IF i <= k THEN s[i] ELSE d[i - k]
      /\ \A i \in 1..k : s[i] \in Nat
  BY LenProperties, ConcatProperties, SubSeqFull, ElementOfSeq
<1> HIDE DEF k, m, l
<1>2. 1 \in Int /\ k \in Int /\ k <= k + m /\ \A i \in 1..k : i \in 1..(k + m) /\ i <= k
  BY <1>1
<1>3. \A i \in 1..k : l[i] = s[i] /\ l[i] \in Nat
  BY <1>1, <1>2
<1>4. /\ head \in Seq(Nat) /\ Len(head) = IF 1 <= k THEN k - 1 + 1 ELSE 0
      /\ \A i \in 1..(k - 1 + 1) : head[i] = l[1 + i - 1]
  BY <1>2, <1>3, SubSeqProperties
<1> HIDE DEF head
<1>5. Len(head) = k /\ \A i \in 1..k : head[i] = s[i]
  <2>1. /\ (IF 1 <= k THEN k - 1 + 1 ELSE 0) = k
        /\ \A i \in 1..k : i \in 1..(k - 1 + 1) /\ 1 + i - 1 = i
    BY <1>1
  <2> QED
    BY <1>3, <1>4, <2>1
<1>6. head = s
  BY <1>4, <1>5, SeqEqual DEF k
<1> QED
  BY <1>1, <1>2, <1>6 DEF IsPrefix, head, k, l

\* What AggregateWork has read is the beginning of what handleDelta has heard, and
\* all of it up to the first line at which it stops.
Follows(sum, text, long, ended) ==
  /\ sum \in [text : Seq(Nat), over : BOOLEAN]
  /\ \E rest \in Seq(Nat) : text = sum.text \o rest
  /\ ~sum.over => sum.text = text
  /\ ~long => sum.text = text /\ (sum.over => ended)

LEMMA FollowsOn ==
  ASSUME NEW text \in Seq(Nat), NEW more \in Seq(Nat), NEW long \in BOOLEAN, NEW sum,
         Follows(sum, text, long, FALSE),
         NEW item, item.line # "DONE", item.long \in BOOLEAN,
         AnswerText(text, item) = text \o more
  PROVE  Follows(AnswerItem(sum, item), text \o more, long \/ item.long, FALSE)
<1> DEFINE next == AnswerItem(sum, item)
<1>1. sum \in [text : Seq(Nat), over : BOOLEAN] /\ (~sum.over => sum.text = text)
      /\ (~long => ~sum.over)
  BY DEF Follows
<1>2. PICK rest \in Seq(Nat) : text = sum.text \o rest
  BY DEF Follows
<1>3. text \o more \in Seq(Nat) /\ rest \o more \in Seq(Nat)
      /\ text \o more = sum.text \o (rest \o more)
  BY <1>1, <1>2, ConcatThree
<1>4. (text \o more) \o <<>> = text \o more /\ <<>> \in Seq(Nat)
  BY <1>3, ConcatEmptySeq, EmptySeq
<1>5. CASE sum.over \/ item.long
  <2>1. next = [sum EXCEPT !.over = TRUE]
    BY <1>5 DEF AnswerItem
  <2>2. next \in [text : Seq(Nat), over : BOOLEAN] /\ next.text = sum.text /\ next.over
    BY <1>1, <2>1
  <2> HIDE DEF next
  <2>3. long \/ item.long
    BY <1>1, <1>5
  <2> QED
    BY <1>3, <2>2, <2>3 DEF Follows, next
<1>6. CASE ~sum.over /\ ~item.long
  <2>1. next = [sum EXCEPT !.text = AnswerText(sum.text, item)]
    BY <1>6 DEF AnswerItem
  <2>2. next = [sum EXCEPT !.text = text \o more]
    BY <1>1, <1>6, <2>1
  <2>3. next \in [text : Seq(Nat), over : BOOLEAN] /\ next.text = text \o more /\ ~next.over
    BY <1>1, <1>3, <1>6, <2>2
  <2> HIDE DEF next
  <2> QED
    BY <1>4, <2>3 DEF Follows, next
<1> QED
  BY <1>5, <1>6

\* A client that stays has got what handleDelta has heard, and handleDelta has heard
\* each text and what AggregateWork reads.
WorkInv ==
  /\ lines \in Seq(Items) /\ wout \in Seq(WireFrame) /\ full \in Seq(Nat)
  /\ pieces \in Seq(Said) /\ wpending \in Nat \cup {None}
  /\ wresult \in {"none", "nil", "error"} /\ (call # "over" => wresult = "none")
  /\ Repeats(pieces, full)
  /\ ~wgone /\ ~Passed(lines) => SentIn(wout) = full
  /\ ~wgone /\ ~Passed(lines) /\ NoThoughts(pieces) => Quiet(wout)
  /\ NoStream(lines) => full = <<>>
  /\ AllAlike(lines) =>
       Follows(Scanned(lines), full, ~NoLong(lines), call = "over") /\ NoThoughts(pieces)
  /\ ~wgone /\ (wdone \/ wresult = "nil") => SaidDone(wout)

\* A line that gives handleDelta the texts and the client the frames.
LEMMA ItemOne ==
  ASSUME WorkInv, NEW item \in Items, NEW texts \in Seq(Said), NEW fs \in Seq(WireFrame),
         lines' = Append(lines, item), item.line # "DONE", call = "serve",
         item.line = "json" => texts = <<>>,
         full' = Heard(texts).full, pieces' = pieces \o texts,
         wout' \in Seq(WireFrame), ~wgone => wout' = wout \o fs,
         SentIn(fs) = SentIn(Heard(texts).frames),
         NoThoughts(texts) => Quiet(fs),
         ReadAlike(item) => NoThoughts(texts) /\ AnswerText(full, item) = AnswerAll(full, texts),
         wdone' => wdone \/ SaidDone(fs), wpending' \in Nat \cup {None},
         UNCHANGED <<call, wresult, wgone>>
  PROVE  WorkInv'
<1> DEFINE h == Heard(texts)
<1>1. /\ lines \in Seq(Items) /\ wout \in Seq(WireFrame) /\ full \in Seq(Nat)
      /\ pieces \in Seq(Said) /\ Repeats(pieces, full)
  BY DEF WorkInv
<1>2. HeardIs(full, texts) /\ h = HearAll(Base(full), texts)
  BY <1>1, TextsHeard DEF Heard, Base
<1>3. /\ h.full \in Seq(Nat) /\ h.frames \in Seq(WireFrame) /\ h.full = full \o SentIn(h.frames)
      /\ NoThoughts(texts) => h.full = AnswerAll(full, texts)
      /\ SentIn(h.frames) \in Seq(Nat)
      /\ Repeats(pieces \o texts, h.full)
  BY <1>1, <1>2, BlankFrame, SentConcat DEF HeardIs
<1> HIDE DEF h
<1>4. /\ lines' \in Seq(Items) /\ ~Passed(lines') => ~Passed(lines)
      /\ AllAlike(lines') => AllAlike(lines) /\ ReadAlike(item)
      /\ NoLong(lines') => NoLong(lines) /\ ~item.long
      /\ NoStream(lines') => NoStream(lines) /\ item.line = "json"
  BY <1>1, LineOne
<1>5. Scanned(lines') = AnswerItem(Scanned(lines), item)
  BY <1>1, ScannedOne
<1>6. pieces' \in Seq(Said) /\ Repeats(pieces', full') /\ full' \in Seq(Nat)
  BY <1>1, <1>3, ConcatProperties DEF h
<1>7. ASSUME AllAlike(lines')
      PROVE  Follows(Scanned(lines'), full', ~NoLong(lines'), FALSE) /\ NoThoughts(pieces')
  <2> DEFINE more == SentIn(h.frames)
             long == ~NoLong(lines)
  <2>1. /\ NoThoughts(texts) /\ AnswerText(full, item) = full \o more /\ full' = full \o more
        /\ Follows(Scanned(lines), full, long, FALSE) /\ NoThoughts(pieces)
        /\ more \in Seq(Nat) /\ long \in BOOLEAN
    BY <1>3, <1>4, <1>7 DEF WorkInv, h
  <2>2. item.long \in BOOLEAN
    BY WorkAssumption DEF Item
  <2> HIDE DEF more, long
  <2>3. Follows(AnswerItem(Scanned(lines), item), full \o more, long \/ item.long, FALSE)
    BY <1>1, <2>1, <2>2, FollowsOn
  <2>4. NoThoughts(pieces')
    BY <1>1, <2>1, ThoughtsConcat
  <2> QED
    BY <1>4, <1>5, <2>1, <2>3, <2>4 DEF Follows, long
<1>8. ASSUME ~wgone', ~Passed(lines') PROVE SentIn(wout') = full'
  <2>1. SentIn(wout) = full /\ wout' = wout \o fs
    BY <1>4, <1>8 DEF WorkInv
  <2>2. SentIn(wout \o fs) = SentIn(wout) \o SentIn(fs)
    BY <1>1, SentConcat
  <2> QED
    BY <1>3, <2>1, <2>2 DEF h
<1>9. ASSUME ~wgone', wdone' \/ wresult' = "nil" PROVE SaidDone(wout')
  BY <1>1, <1>9, SaidConcat DEF WorkInv
<1>10. ASSUME ~wgone', ~Passed(lines'), NoThoughts(pieces') PROVE Quiet(wout')
  <2>1. NoThoughts(pieces) /\ NoThoughts(texts)
    BY <1>1, <1>10, ThoughtsConcat
  <2>2. Quiet(wout) /\ Quiet(fs) /\ wout' = wout \o fs
    BY <1>4, <1>10, <2>1 DEF WorkInv
  <2> QED
    BY <1>1, <2>2, QuietConcat
<1>11. NoStream(lines') => full' = <<>>
  <2>1. Heard(<<>>).full = full
    BY HearNone DEF Heard
  <2> QED
    BY <1>4, <2>1 DEF WorkInv
<1>12. (call' = "over") = FALSE
  OBVIOUS
<1>13. AllAlike(lines') =>
         Follows(Scanned(lines'), full', ~NoLong(lines'), call' = "over") /\ NoThoughts(pieces')
  BY <1>7, <1>12 DEF Follows
<1>14. /\ wresult' \in {"none", "nil", "error"} /\ (call' # "over" => wresult' = "none")
      /\ wpending' \in Nat \cup {None} /\ wout' \in Seq(WireFrame)
  BY DEF WorkInv
<1> QED
  BY <1>4, <1>6, <1>8, <1>9, <1>10, <1>11, <1>13, <1>14 DEF WorkInv

LEMMA StepItem ==
  ASSUME WorkInv, NEW item \in Items, WReceive(item)
  PROVE  WorkInv'
<1>1. /\ lines' = Append(lines, item) /\ call = "serve" /\ UNCHANGED <<call, wresult, wgone>>
      /\ item.line # "DONE"
      /\ item \in Item /\ item.texts \in Seq(Said) /\ item.figure \in Nat \cup {None}
  BY WorkAssumption DEF WReceive, chatVars, Item, EventLine, WText, WUsage, WDone, WError, WOther, WNoStream
<1>2. /\ lines \in Seq(Items) /\ wout \in Seq(WireFrame) /\ full \in Seq(Nat)
      /\ pieces \in Seq(Said) /\ wpending \in Nat \cup {None}
  BY DEF WorkInv
<1>3. ReadAlike(item) /\ item.line = "data" => Name(item) = item.name /\ NoThoughts(item.texts)
  BY DEF ReadAlike, Name
<1>4. /\ <<>> \in Seq(Said) /\ <<>> \in Seq(WireFrame) /\ NoThoughts(<<>>)
      /\ Heard(<<>>).full = full /\ Heard(<<>>).frames = <<>> /\ AnswerAll(full, <<>>) = full
      /\ pieces \o <<>> = pieces /\ wout \o <<>> = wout
      /\ Quiet(<<>>)
  <2>1. NoThoughts(<<>>) /\ Quiet(<<>>)
    BY DEF NoThoughts, Quiet
  <2> QED
    BY <1>2, <2>1, HearNone, EmptySeq, ConcatEmptySeq DEF Heard
<1>5. \A texts \in Seq(Said) :
        /\ Heard(texts).frames \in Seq(WireFrame)
        /\ NoThoughts(texts) => Quiet(Heard(texts).frames)
  BY <1>2, TextsHeard DEF HeardIs, Heard, Base
<1>6. CASE EventLine(item)
  <2>1. UNCHANGED <<wout, wdone, full, pieces, wpending>> /\ item.line = "event"
    BY <1>6 DEF EventLine
  <2>2. AnswerText(full, item) = full
    BY <2>1 DEF AnswerText
  <2> QED
    BY <1>1, <1>2, <1>4, <2>1, <2>2, ItemOne
<1>7. CASE WText(item)
  <2> DEFINE texts == IF Name(item) = item.of THEN item.texts ELSE <<>>
             frames == Heard(texts).frames
  <2>1. /\ item.line = "data" /\ Name(item) \in {"plan_item", "output"}
        /\ Send(WithUsage(frames)) /\ full' = Heard(texts).full /\ pieces' = pieces \o texts
        /\ wpending' \in {wpending, None} /\ wdone' = wdone
    BY <1>7 DEF WText, Take
  <2>2. texts \in Seq(Said) /\ (ReadAlike(item) => NoThoughts(texts))
    BY <1>1, <1>3, <1>4, <2>1
  <2>3. ReadAlike(item) => AnswerText(full, item) = AnswerAll(full, texts)
    BY <1>3, <1>4, <2>1 DEF AnswerText
  <2> HIDE DEF texts
  <2>4. frames \in Seq(WireFrame) /\ (NoThoughts(texts) => Quiet(frames))
    BY <1>5, <2>2
  <2>5. /\ WithUsage(frames) \in Seq(WireFrame) /\ SentIn(WithUsage(frames)) = SentIn(frames)
        /\ NoThoughts(texts) => Quiet(WithUsage(frames))
    BY <1>2, <2>4, UsageAdded
  <2>6. wout' \in Seq(WireFrame) /\ (~wgone => wout' = wout \o WithUsage(frames))
    BY <1>2, <2>1, <2>5, SendAll
  <2> QED
    BY <1>1, <1>2, <2>1, <2>2, <2>3, <2>5, <2>6, ItemOne
<1>8. CASE WUsage(item)
  <2>1. /\ item.line = "data" /\ Name(item) = "token_usage" /\ wpending' \in {wpending, item.figure}
        /\ UNCHANGED <<wout, wdone, full, pieces>>
    BY <1>8 DEF WUsage
  <2>2. ReadAlike(item) => AnswerText(full, item) = full
    BY <1>3, <2>1 DEF AnswerText
  <2> QED
    BY <1>1, <1>2, <1>4, <2>1, <2>2, ItemOne
<1>9. CASE WDone(item)
  <2> DEFINE texts == IF item.of = "done" THEN item.texts ELSE <<>>
             frames == Heard(texts).frames
             stop == [Frame("chunk") EXCEPT !.finish = "stop"]
             chunks == Append(frames, stop)
             fs == WithUsage(chunks) \o <<DONE>>
  <2>1. /\ item.line = "data" /\ Name(item) = "done" /\ wpending' = None
        /\ Send(fs) /\ full' = Heard(texts).full /\ pieces' = pieces \o texts
    BY <1>9 DEF WDone, Take
  <2>2. texts \in Seq(Said)
    BY <1>1, <1>4
  <2>3. ReadAlike(item) => texts = <<>> /\ AnswerText(full, item) = full
    BY <1>3, <2>1 DEF AnswerText, ReadAlike
  <2> HIDE DEF texts
  <2>4. frames \in Seq(WireFrame) /\ (NoThoughts(texts) => Quiet(frames))
    BY <1>5, <2>2
  <2>5. stop \in WireFrame /\ stop.reasoning \o stop.text = <<>> /\ stop.reasoning = <<>>
    BY <1>2, TextFrame, BlankFrame DEF Frame
  <2> HIDE DEF frames, stop
  <2>6. /\ chunks \in Seq(WireFrame) /\ SentIn(chunks) = SentIn(frames)
        /\ NoThoughts(texts) => Quiet(chunks)
    <3>1. SentIn(frames) \in Seq(Nat) /\ SentIn(chunks) = SentIn(frames) \o <<>>
      BY <2>4, <2>5, SentOne
    <3> QED
      BY <2>4, <2>5, <3>1, AppendProperties, ConcatEmptySeq, QuietOne
  <2> HIDE DEF chunks
  <2>7. /\ WithUsage(chunks) \in Seq(WireFrame) /\ SentIn(WithUsage(chunks)) = SentIn(frames)
        /\ NoThoughts(texts) => Quiet(WithUsage(chunks))
    BY <1>2, <2>6, UsageAdded
  <2>8. DONE \in WireFrame /\ DONE.text = <<>> /\ DONE.reasoning = <<>> /\ DONE.kind = "done"
    BY BlankFrame DEF DONE, Frame
  <2> DEFINE some == WithUsage(chunks)
  <2> HIDE DEF some
  <2>9. /\ fs = Append(some, DONE) /\ some \in Seq(WireFrame) /\ SentIn(some) = SentIn(frames)
        /\ NoThoughts(texts) => Quiet(some)
    BY <2>7, <2>8, AppendIsConcat DEF some
  <2>10. /\ fs \in Seq(WireFrame) /\ SentIn(fs) = SentIn(frames) /\ SaidDone(fs)
         /\ NoThoughts(texts) => Quiet(fs)
    <3>1. SentIn(some) \in Seq(Nat) /\ SentIn(Append(some, DONE)) = SentIn(some) \o (<<>> \o <<>>)
      BY <2>8, <2>9, SentOne
    <3>2. <<>> \o <<>> = <<>> /\ SentIn(some) \o <<>> = SentIn(some)
      BY <3>1, ConcatEmptySeq
    <3>3. Append(some, DONE) \in Seq(WireFrame) /\ SaidDone(Append(some, DONE))
      BY <2>8, <2>9, SaidOne, AppendProperties
    <3>4. NoThoughts(texts) => Quiet(Append(some, DONE))
      BY <2>8, <2>9, QuietOne
    <3> HIDE DEF fs
    <3> QED
      BY <2>9, <3>1, <3>2, <3>3, <3>4
  <2> HIDE DEF fs
  <2>11. wout' \in Seq(WireFrame) /\ (~wgone => wout' = wout \o fs)
    BY <1>2, <2>1, <2>10, SendAll
  <2>12. ReadAlike(item) => NoThoughts(texts) /\ AnswerText(full, item) = AnswerAll(full, texts)
    BY <1>4, <2>3
  <2> QED
    BY <1>1, <2>1, <2>2, <2>10, <2>11, <2>12, ItemOne DEF frames
<1>10. CASE WError(item)
  <2> DEFINE fs == <<Frame("error"), DONE>>
  <2>1. /\ item.line = "data" /\ Name(item) = "error" /\ Send(fs)
        /\ UNCHANGED <<wpending, full, pieces>>
    BY <1>10 DEF WError
  <2>2. ReadAlike(item) => AnswerText(full, item) = full
    BY <1>3, <2>1 DEF AnswerText
  <2>3. /\ Frame("error") \in WireFrame /\ DONE \in WireFrame /\ DONE.kind = "done"
        /\ Frame("error").text = <<>> /\ Frame("error").reasoning = <<>>
        /\ DONE.text = <<>> /\ DONE.reasoning = <<>>
    BY BlankFrame DEF DONE, Frame
  <2>4. fs \in Seq(WireFrame) /\ SentIn(fs) = <<>> /\ SaidDone(fs) /\ Quiet(fs)
    <3> DEFINE failed == Frame("error")
    <3>1. <<>> \o fs = Append(Append(<<>>, failed), DONE) /\ fs \in Seq(WireFrame) /\ <<>> \o fs = fs
          /\ Append(<<>>, failed) \in Seq(WireFrame)
      BY <1>4, <2>3, FramesAfter, ConcatEmptySeq, AppendProperties
    <3>2. SentIn(Append(<<>>, failed)) = SentIn(<<>>) \o (<<>> \o <<>>)
      BY <1>4, <2>3, SentOne
    <3>3. SentIn(Append(Append(<<>>, failed), DONE)) = SentIn(Append(<<>>, failed)) \o (<<>> \o <<>>)
      BY <2>3, <3>1, SentOne
    <3>4. SaidDone(Append(Append(<<>>, failed), DONE))
      BY <2>3, <3>1, SaidOne
    <3>5. <<>> \o <<>> = <<>>
      OBVIOUS
    <3>6. Quiet(Append(Append(<<>>, failed), DONE))
      <4>1. Quiet(<<>>)
        BY DEF Quiet
      <4>2. Quiet(Append(<<>>, failed))
        BY <1>4, <2>3, <4>1, QuietOne
      <4> QED
        BY <2>3, <3>1, <4>2, QuietOne
    <3> HIDE DEF fs, failed
    <3> QED
      BY <3>1, <3>2, <3>3, <3>4, <3>5, <3>6, SentNone
  <2> HIDE DEF fs
  <2>5. wout' \in Seq(WireFrame) /\ (~wgone => wout' = wout \o fs)
    BY <1>2, <2>1, <2>4, SendAll
  <2> QED
    BY <1>1, <1>2, <1>4, <2>1, <2>2, <2>4, <2>5, SentNone, ItemOne
<1>11. CASE WOther(item)
  <2>1. /\ item.line = "data" /\ Name(item) \notin {"plan_item", "output"}
        /\ UNCHANGED <<wout, wpending, wdone, full, pieces>>
    BY <1>11 DEF WOther
  <2>2. ReadAlike(item) => AnswerText(full, item) = full
    BY <1>3, <2>1 DEF AnswerText
  <2> QED
    BY <1>1, <1>2, <1>4, <2>1, <2>2, ItemOne
<1>12. CASE WNoStream(item)
  <2>1. item.line = "json" /\ UNCHANGED <<wout, wpending, wdone, full, pieces>>
    BY <1>12 DEF WNoStream
  <2>2. AnswerText(full, item) = full
    BY <2>1 DEF AnswerText
  <2> QED
    BY <1>1, <1>2, <1>4, <2>1, <2>2, ItemOne
<1> QED
  BY <1>6, <1>7, <1>8, <1>9, <1>10, <1>11, <1>12 DEF WReceive

LEMMA StepWork == WorkInv /\ [NextW]_wvars => WorkInv'
<1> SUFFICES ASSUME WorkInv, [NextW]_wvars PROVE WorkInv'
  OBVIOUS
<1>1. CASE UNCHANGED <<lines, wout, full, pieces, wpending, wdone>>
           /\ (call' # "over" => wresult' = "none") /\ (~wgone' => ~wgone)
           /\ (wresult' = "nil" => wresult = "nil" \/ wdone)
           /\ wresult' \in {"none", "nil", "error"} /\ (call = "over" => call' = "over")
  BY <1>1 DEF WorkInv, Follows
<1>2. CASE Start \/ NativeFails \/ NativeAnswers \/ Peek \/ Bridge
  BY <1>1, <1>2 DEF Start, NativeFails, NativeAnswers, Peek, Bridge, FallBack, Goto, Rotate,
                    relayVars, WorkInv
<1>3. ASSUME NEW item \in Items, WReceive(item) PROVE WorkInv'
  BY <1>3, StepItem
<1>4. ASSUME NEW item \in Items, WPassThrough(item) PROVE WorkInv'
  <2>1. /\ lines' = Append(lines, item) /\ item.line = "chunk" /\ wgone' = wgone
        /\ call = "serve" /\ wresult = "none" /\ lines \in Seq(Items) /\ wout \in Seq(WireFrame)
        /\ UNCHANGED <<full, pieces, wpending, wdone>>
    BY <1>4 DEF WPassThrough, WorkInv
  <2>2. lines' \in Seq(Items) /\ Passed(lines') /\ ~AllAlike(lines')
      /\ ~NoStream(lines')
    BY <2>1, LineOne DEF ReadAlike
  <2>3. CASE wout' = Append(wout, [Frame("chunk") EXCEPT !.text = item.texts[1].text])
             /\ UNCHANGED <<wresult, call>>
    <3>1. item.texts[1].text \in Seq(Nat)
      <4>1. item.texts \in Seq(Said) /\ item.texts # <<>>
        BY <2>1, WorkAssumption DEF Item
      <4>2. Len(item.texts) \in Nat \ {0}
        BY <4>1, EmptySeq
      <4>3. 1 \in 1..Len(item.texts)
        BY <4>2
      <4>4. item.texts[1] \in Said
        BY <4>1, <4>3, ElementOfSeq
      <4> QED
        BY <4>4 DEF Said
    <3> DEFINE frame == [Frame("chunk") EXCEPT !.text = item.texts[1].text]
    <3>2. frame \in WireFrame
      BY <3>1, TextFrame
    <3> HIDE DEF frame
    <3>3. wout' = Append(wout, frame)
      BY <2>3 DEF frame
    <3>4. wout' \in Seq(WireFrame) /\ (SaidDone(wout) => SaidDone(wout'))
      BY <2>1, <3>2, <3>3, AppendProperties, SaidOne
    <3> QED
      BY <2>1, <2>2, <2>3, <3>4 DEF WorkInv
  <2>4. CASE wgone /\ Over("error") /\ UNCHANGED wout
    BY <2>1, <2>2, <2>4 DEF WorkInv, Over, Goto
  <2> QED
    BY <1>4, <2>3, <2>4 DEF WPassThrough
<1>5. ASSUME NEW item \in Items, WDoneLine(item) PROVE WorkInv'
  <2>1. /\ wout \in Seq(WireFrame) /\ Send(<<DONE>>) /\ wgone' = wgone /\ call' = "over"
        /\ lines \in Seq(Items) /\ lines' = Append(lines, item) /\ item.line = "DONE"
        /\ wresult' = "nil" /\ UNCHANGED <<full, pieces, wpending>>
    BY <1>5 DEF WDoneLine, Over, Goto, WorkInv
  <2>2. DONE \in WireFrame /\ DONE.kind = "done" /\ DONE.text = <<>> /\ DONE.reasoning = <<>>
    BY BlankFrame DEF DONE, Frame
  <2>3. <<DONE>> \in Seq(WireFrame) /\ wout \o <<DONE>> = Append(wout, DONE)
    BY <2>1, <2>2, FramesAfter
  <2>4. wout' \in Seq(WireFrame) /\ (~wgone => wout' = Append(wout, DONE))
    BY <2>1, <2>3, SendAll
  <2>5. SaidDone(Append(wout, DONE))
    BY <2>1, <2>2, SaidOne
  <2>6. SentIn(Append(wout, DONE)) = SentIn(wout)
    <3>1. SentIn(wout) \in Seq(Nat) /\ SentIn(Append(wout, DONE)) = SentIn(wout) \o (<<>> \o <<>>)
      BY <2>1, <2>2, SentOne
    <3>2. <<>> \o <<>> = <<>> /\ SentIn(wout) \o <<>> = SentIn(wout)
      BY <3>1, ConcatEmptySeq
    <3> QED
      BY <3>1, <3>2
  <2>7. /\ lines' \in Seq(Items) /\ (~Passed(lines') => ~Passed(lines))
        /\ AllAlike(lines') => AllAlike(lines)
        /\ NoLong(lines') => NoLong(lines)
        /\ ~NoStream(lines')
        /\ Scanned(lines') = AnswerItem(Scanned(lines), item)
    BY <2>1, LineOne, ScannedOne
  <2>8. AllAlike(lines') => Follows(Scanned(lines'), full, ~NoLong(lines'), TRUE)
    <3> SUFFICES ASSUME AllAlike(lines') PROVE Follows(Scanned(lines'), full, ~NoLong(lines'), TRUE)
      OBVIOUS
    <3> DEFINE sum == Scanned(lines)
               next == Scanned(lines')
    <3>1. /\ sum \in [text : Seq(Nat), over : BOOLEAN]
          /\ \E rest \in Seq(Nat) : full = sum.text \o rest
          /\ NoLong(lines) => sum.text = full
      BY <2>7 DEF WorkInv, Follows
    <3>2. next = [sum EXCEPT !.over = TRUE]
      BY <2>1, <2>7 DEF AnswerItem
    <3> HIDE DEF sum, next
    <3>3. next \in [text : Seq(Nat), over : BOOLEAN] /\ next.text = sum.text /\ next.over
      BY <3>1, <3>2
    <3> QED
      BY <2>7, <3>1, <3>3 DEF Follows, next
  <2>9. ~wgone /\ Quiet(wout) => Quiet(wout')
    BY <2>1, <2>2, <2>4, QuietOne
  <2> QED
    BY <2>1, <2>4, <2>5, <2>6, <2>7, <2>8, <2>9 DEF WorkInv
<1>6. CASE WEnd
  <2>1. /\ wout \in Seq(WireFrame) /\ wgone' = wgone /\ call' = "over"
        /\ wresult' \in {"nil", "error"} /\ UNCHANGED <<lines, full, pieces, wpending, wdone>>
    BY <1>6 DEF WEnd, Over, Goto, WorkInv
  <2>2. DONE \in WireFrame /\ DONE.kind = "done" /\ DONE.text = <<>> /\ DONE.reasoning = <<>>
    BY BlankFrame DEF DONE, Frame
  <2>3. CASE wout' = Append(wout, DONE)
    <3>1. SaidDone(wout') /\ wout' \in Seq(WireFrame)
      BY <2>1, <2>2, <2>3, SaidOne, AppendProperties
    <3>2. SentIn(wout) \in Seq(Nat) /\ SentIn(Append(wout, DONE)) = SentIn(wout) \o (<<>> \o <<>>)
      BY <2>1, <2>2, SentOne
    <3>3. <<>> \o <<>> = <<>> /\ SentIn(wout) \o <<>> = SentIn(wout)
      BY <3>2, ConcatEmptySeq
    <3>4. SentIn(wout') = SentIn(wout)
      BY <2>3, <3>2, <3>3
    <3>5. Quiet(wout) => Quiet(wout')
      BY <2>1, <2>2, <2>3, QuietOne
    <3> QED
      BY <2>1, <3>1, <3>4, <3>5 DEF WorkInv, Follows
  <2>4. CASE wout' = wout /\ (wdone \/ wgone)
    BY <2>1, <2>4 DEF WorkInv, Follows
  <2> QED
    BY <1>6, <2>3, <2>4 DEF WEnd
<1>7. CASE WReadFails
  BY <1>1, <1>7 DEF WReadFails, Over, Goto
<1>8. CASE WLeave \/ UNCHANGED wvars
  BY <1>1, <1>8 DEF WLeave, wvars, chatVars, relayVars, WorkInv
<1> QED
  BY <1>2, <1>3, <1>4, <1>5, <1>6, <1>7, <1>8 DEF NextW

LEMMA WorkStarts == InitW => WorkInv
<1>1. /\ <<>> \in Seq(Items) /\ <<>> \in Seq(WireFrame) /\ <<>> \in Seq(Nat) /\ <<>> \in Seq(Said)
      /\ <<>> \o <<>> = <<>>
  BY EmptySeq
<1>2. Repeats(<<>>, <<>>) /\ Quiet(<<>>) /\ NoThoughts(<<>>)
  BY DEF Repeats, Quiet, NoThoughts
<1>3. Follows(Scanned(<<>>), <<>>, ~NoLong(<<>>), FALSE)
  <2> DEFINE sum == [text |-> <<>>, over |-> FALSE]
  <2>1. sum \in [text : Seq(Nat), over : BOOLEAN] /\ sum.text = <<>> /\ ~sum.over
    BY <1>1
  <2>2. Scanned(<<>>) = sum
    BY HearNone
  <2> HIDE DEF sum
  <2> QED
    BY <1>1, <2>1, <2>2 DEF Follows
<1>4. ~Passed(<<>>)
  BY DEF Passed
<1> QED
  BY <1>1, <1>2, <1>3, <1>4, SentNone DEF InitW, WorkInv, Follows

\* Whole texts or pieces, reasoning or content, a client that stays has every text,
\* without reasoning in the content; and texts that grow have nothing twice.
THEOREM TextsReachTheClient == SpecW => []EveryTextArrives
<1>1. WorkInv => EveryTextArrives
  BY QuietContent DEF WorkInv, EveryTextArrives, Repeats, Chain, PassThrough, Passed
<1> QED
  BY <1>1, WorkStarts, StepWork, PTL DEF SpecW

\* The stream says what the answer in one says of the same lines, and what that
\* leaves out behind a long line.
THEOREM WorkIsWhole == SpecW => []WorkAgrees
<1>1. WorkInv => WorkAgrees
  <2> DEFINE whole == AggregateWork(lines, wresult = "error")
  <2> SUFFICES ASSUME WorkInv, ~wgone, wresult # "none", ~whole.error
      PROVE  /\ SaidDone(wout)
             /\ AllAlike(lines) =>
                  IF Direct(lines) THEN ContentIn(wout) = <<>>
                  ELSE /\ IsPrefix(whole.text, ContentIn(wout))
                       /\ NoLong(lines) => whole.text = ContentIn(wout)
    BY DEF WorkAgrees, SaidDone, AllAlike, NoLong
  <2>1. wresult = "nil"
    BY DEF WorkInv, AggregateWork
  <2>2. SaidDone(wout)
    BY <2>1 DEF WorkInv
  <2>3. SUFFICES ASSUME AllAlike(lines)
        PROVE  IF Direct(lines) THEN ContentIn(wout) = <<>>
               ELSE /\ IsPrefix(whole.text, ContentIn(wout))
                    /\ NoLong(lines) => whole.text = ContentIn(wout)
    BY <2>2
  <2>4. ~Passed(lines)
    BY <2>3 DEF AllAlike, ReadAlike, Passed
  <2>5. ContentIn(wout) = full
    BY <2>3, <2>4, QuietContent DEF WorkInv
  <2>6. Follows(Scanned(lines), full, ~NoLong(lines), call = "over")
    BY <2>3 DEF WorkInv
  <2>7. CASE Direct(lines)
    <3>1. lines \in Seq(Items) /\ Len(lines) = 1 /\ lines[1].line = "json"
      BY <2>7 DEF WorkInv, Direct
    <3>2. \A i \in DOMAIN lines : i = 1
      BY <3>1
    <3>3. NoStream(lines)
      BY <3>1, <3>2 DEF NoStream
    <3> QED
      BY <2>5, <2>7, <3>3 DEF WorkInv
  <2>8. CASE ~Direct(lines)
    <3>1. whole.text = Scanned(lines).text
      BY <2>1, <2>8 DEF AggregateWork
    <3>2. PICK rest \in Seq(Nat) : full = Scanned(lines).text \o rest
      BY <2>6 DEF Follows
    <3>3. IsPrefix(Scanned(lines).text, full)
      BY <2>6, <3>2, BeginsConcat DEF Follows
    <3>4. NoLong(lines) => Scanned(lines).text = full
      BY <2>6 DEF Follows
    <3> QED
      BY <2>5, <2>8, <3>1, <3>3, <3>4
  <2> QED
    BY <2>7, <2>8
<1> QED
  BY <1>1, WorkStarts, StepWork, PTL DEF SpecW

-----------------------------------------------------------------------------
\* The calls that each mode makes.
Calls ==
  tries \in CASE mode = "auto" -> {<<"native">>, <<"native", "bridge">>}
              [] mode = "native" -> {<<"native">>}
              [] mode = "bridge" -> {<<"bridge">>}
              [] mode = "disabled" -> {<<>>}

\* Each point of ChatStream has the bodies and the calls that lead to it.
BodyInv ==
  /\ mode \in {"auto", "native", "bridge", "disabled"}
  /\ call \in {"start", "native", "peek", "bridge", "serve", "over"}
  /\ call = "start" => open = {} /\ tries = <<>>
  /\ call \in {"native", "peek"} => mode \in {"auto", "native"} /\ tries = <<"native">>
  /\ call \in {"native", "bridge"} => open = {}
  /\ call = "peek" => open = {"native"}
  /\ call \in {"bridge", "serve", "over"} => Calls
  /\ call = "bridge" => mode \in {"auto", "bridge"} /\ tries # <<"native">>
  /\ call = "serve" => open \subseteq {"native", "bridge"}
  /\ call = "over" /\ open # {} =>
       open = {"native"} /\ tries = <<"native">> /\ answer # "served"

LEMMA FallBackCalls ==
  ASSUME BodyInv, tries = <<"native">>, mode \in {"auto", "native"}, NEW why, FallBack(why),
         UNCHANGED mode
  PROVE  /\ Calls'
         /\ call' = "bridge" => mode = "auto" /\ tries' # <<"native">>
         /\ call' \in {"bridge", "over"}
         /\ call' = "over" => tries' = tries /\ answer' = why
<1>1. CASE mode = "auto"
  <2>1. call' = "bridge" /\ tries' = <<"native", "bridge">>
    BY <1>1 DEF FallBack, Goto
  <2> QED
    BY <1>1, <2>1 DEF Calls
<1>2. CASE mode = "native"
  BY <1>2 DEF FallBack, Rotate, Goto, Calls
<1> QED
  BY <1>1, <1>2

LEMMA StepBodies == BodyInv /\ [NextW]_wvars => BodyInv'
<1> SUFFICES ASSUME BodyInv, [NextW]_wvars PROVE BodyInv'
  OBVIOUS
<1> USE DEF BodyInv
<1>1. CASE Start
  BY <1>1 DEF Start, Calls, Goto, Rotate
<1>2. CASE NativeFails
  <2>1. FallBack("error") /\ UNCHANGED <<mode, open>> /\ call = "native"
    BY <1>2 DEF NativeFails
  <2> QED
    BY <2>1, FallBackCalls
<1>3. CASE NativeAnswers
  BY <1>3 DEF NativeAnswers, Calls, Goto, Rotate
<1>4. CASE Peek
  <2>1. UNCHANGED mode /\ call = "peek"
    BY <1>4 DEF Peek
  <2>2. CASE open' = open \ {"native"} /\ FallBack("rejected")
    BY <2>1, <2>2, FallBackCalls
  <2>3. CASE ~(open' = open \ {"native"} /\ FallBack("rejected"))
    BY <1>4, <2>1, <2>3 DEF Peek, Calls, Goto, Rotate
  <2> QED
    BY <2>2, <2>3
<1>5. CASE Bridge
  BY <1>5 DEF Bridge, Calls, Goto, Rotate
<1>6. ASSUME NEW item \in Items, WReceive(item) \/ WPassThrough(item) \/ WDoneLine(item)
      PROVE  BodyInv'
  BY <1>6 DEF WReceive, WPassThrough, WDoneLine, Over, Goto, Calls, chatVars
<1>7. CASE WEnd \/ WReadFails
  BY <1>7 DEF WEnd, WReadFails, Over, Goto, Calls
<1>8. CASE WLeave \/ UNCHANGED wvars
  BY <1>8 DEF WLeave, Calls, wvars, chatVars
<1> QED
  BY <1>1, <1>2, <1>3, <1>4, <1>5, <1>6, <1>7, <1>8 DEF NextW

\* In every mode and on every way out of the call exactly those bodies stay open
\* that nobody owns, and the bridge is called once at most.
THEOREM OnlyHandedBackStaysOpen == SpecW => []BodiesClosed
<1>1. InitW => BodyInv
  BY DEF InitW, BodyInv
<1>2. BodyInv => BodiesClosed
  BY DEF BodyInv, Calls, BodiesClosed
<1> QED
  BY <1>1, <1>2, StepBodies, PTL DEF SpecW
=============================================================================
