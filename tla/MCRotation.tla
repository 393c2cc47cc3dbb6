----------------------------- MODULE MCRotation -----------------------------
(* Instances of ChatRotation: see rotation*.cfg. *)
EXTENDS ChatRotation, TLC

Ask(session, model, max, stream, work) ==
  [session |-> session, model |-> model, max |-> max, stream |-> stream,
   work |-> work]

CONSTANTS m1, s1

\* rotation_dev: for the max tier, streaming with a session and not.
DevKinds == {Ask(s1, m1, TRUE, TRUE, FALSE), Ask(NoSession, m1, TRUE, FALSE, FALSE)}

\* rotation_work: through the dev loop to the work channel, or there at once.
WorkKinds == {Ask(NoSession, m1, FALSE, FALSE, FALSE), Ask(s1, m1, FALSE, TRUE, TRUE)}

\* rotation_pair: two interchangeable streams in one session.
PairKinds == {Ask(s1, m1, FALSE, TRUE, FALSE)}

\* Bound: the catalog and the user's switch change only before the first pick,
\* and not to every combination.  What an account may serve is read in one
\* step (Serves, MaxEntitled), never kept across two.
Shape(u) == <<entry[u].models, entry[u].maxProbed, entry[u].maxModels, entry[u].enabled>>

BeforeFirst ==
  /\ \A c \in Clients : At(c, "idle")
  /\ \A u \in Uids : entry[u].lastUsed = 0 /\ entry[u].credits = 0

\* Requests find nothing known of the catalog, or account 1 entitled to the max
\* tier and account 2 not.
DevCatalog ==
  /\ \A u \in Uids :
       \/ Shape(u)' = Shape(u)
       \/ /\ BeforeFirst /\ u = 1
          /\ Shape(u)' \in {<<{m1}, FALSE, {}, TRUE>>, <<{m1}, TRUE, {m1}, TRUE>>}
       \/ /\ BeforeFirst /\ u = 2 /\ entry[1].maxProbed
          /\ Shape(u)' \in {<<{}, TRUE, {}, TRUE>>}
  /\ \/ \A c \in Clients : At(c, "idle") => At(c, "idle")'
     \/ Shape(1) = <<{}, FALSE, {}, TRUE>>
     \/ entry[2].maxProbed

\* Nothing is known of the catalog.
NoCatalog == \A u \in Uids : Shape(u)' = Shape(u)

\* The same, and at most one probe of a work balance at a time.
OneProbe == NoCatalog /\ Cardinality(probes') <= 1

\* Nothing is known of the catalog, and the user may switch account 2 at any moment.
SwitchOnly ==
  \A u \in Uids : \/ Shape(u)' = Shape(u)
                  \/ u = 2 /\ Shape(u)' \in {<<{}, FALSE, {}, b>> : b \in BOOLEAN}
=============================================================================
