----------------------------- MODULE StreamRelay -----------------------------
(***************************************************************************)
(* The relay of a dev answer (internal/upstream/solosse.go): it reads the  *)
(* events of the upstream's stream and writes chunks for the client, while *)
(* a goroutine writes pings until the first chunk.  Both write to the same *)
(* response, so a frame takes two steps here, its begin and its end.       *)
(*                                                                         *)
(* The other path, Aggregate, makes one answer of the same events.         *)
(*                                                                         *)
(* An event is what scanLine and ParseSOLOLine give for the lines up to a  *)
(* blank one.  "other" is one that leads to nothing: a comment, metadata,  *)
(* an event without a name or with broken JSON.  A last event that is not  *)
(* ended by a line break is not read.  Texts are sequences of letters,     *)
(* which are numbers.                                                      *)
(***************************************************************************)
EXTENDS Integers, Sequences, FiniteSets, FiniteSetsExt, SequencesExt

CONSTANTS
  Events,       \* what the upstream may send
  MaxEvents     \* bound

None == 0 - 1   \* no usage, no balance, no error
Broken == 0 - 2 \* the error of a read that failed

\* A piece of a tool call; "" is an absent field.
Piece == [index : Int, id : STRING, name : STRING, args : Seq(Nat)]

\* What ParseSOLOLine makes of an event: a field that it does not read is empty.
\* A number stands for the figures of a usage, for a balance or for a code.
\* The tool calls of an output are a list, or a single one without a list.
Event ==
  [event : {"output", "token_usage", "notify_usage", "done", "error", "other"},
   text : Seq(Nat), reasoning : Seq(Nat), tools : {"none", "one", "list"}, calls : Seq(Piece),
   figure : Nat \cup {None}, finish : STRING]

Parsed(ev) ==
  /\ ev \in Event
  /\ ev.tools = "none" => ev.calls = <<>>
  /\ ev.event # "output" => ev.text = <<>> /\ ev.reasoning = <<>> /\ ev.tools = "none"
  /\ ev.event # "done" => ev.finish = ""
  /\ ev.event = "error" => ev.figure # None   \* a code that is missing is 0

ASSUME RelayAssumption == MaxEvents \in Nat /\ \A ev \in Events : Parsed(ev)

VARIABLES
  got,                \* the events read so far
  pc, todo, eof,      \* the relay: where it is, the frames it has still to
                      \* write for this event, whether the stream is at its end
  pending, sawDone,   \* its locals
  mu, inWrite,        \* writeMu, and who is inside a write
  ping, stopped,      \* the goroutine, and the channel firstFrame
  out, gone,          \* the frames that were written; the client has left
  booked, noted,      \* the calls of onUsage and onErr
  result              \* what the relay returned

svars == <<got, pc, todo, eof, pending, sawDone, mu, inWrite, ping, stopped,
           out, gone, booked, noted, result>>

\* There is no goroutine when the keep-alive is off or the response cannot flush.
InitS ==
  /\ got = <<>> /\ pc = "read" /\ todo = <<>> /\ eof = FALSE
  /\ pending = None /\ sawDone = FALSE
  /\ mu = "free" /\ inWrite = {}
  /\ ping \in {"wait", "ended"} /\ stopped = FALSE
  /\ out = <<>> /\ gone = FALSE
  /\ booked = <<>> /\ noted = <<>> /\ result = "none"

-----------------------------------------------------------------------------
(* Tool calls arrive in pieces. *)

NoCall == [id |-> "", name |-> "", args |-> <<>>]

\* mergeToolCallDelta: the id and the name replace, the arguments are appended.
MergeDelta(merged, call) ==
  [id   |-> IF call.id = "" THEN merged.id ELSE call.id,
   name |-> IF call.name = "" THEN merged.name ELSE call.name,
   args |-> merged.args \o call.args]

MergeCall(calls, call) ==
  LET old == IF call.index \in DOMAIN calls THEN calls[call.index] ELSE NoCall IN
  [i \in DOMAIN calls \cup {call.index} |->
     IF i = call.index THEN MergeDelta(old, call) ELSE calls[i]]

\* mergeToolCallJSON takes a list and a single object alike.
MergeCalls(calls, pieces) == FoldLeft(MergeCall, calls, pieces)

\* Aggregate: one step of its loop.
Blank == [text |-> <<>>, reasoning |-> <<>>, calls |-> <<>>, finish |-> "stop",
          usage |-> None, remain |-> None, error |-> None]

Gathered(sum, ev) ==
  CASE ev.event = "output" ->
         [sum EXCEPT !.text = @ \o ev.text, !.reasoning = @ \o ev.reasoning,
                     !.calls = MergeCalls(@, ev.calls)]
    [] ev.event = "token_usage" -> [sum EXCEPT !.usage = ev.figure]
    [] ev.event = "notify_usage" /\ ev.figure # None -> [sum EXCEPT !.remain = ev.figure]
    [] ev.event = "done" /\ ev.finish # "" -> [sum EXCEPT !.finish = ev.finish]
    [] ev.event = "error" -> [sum EXCEPT !.error = ev.figure]
    [] OTHER -> sum

Gather(events) == FoldLeft(Gathered, Blank, events)

\* A failed read, which the events came before, is all that is returned.  An error
\* of upstream comes with the balance.
Aggregate(events, broken) ==
  LET sum == Gather(events) IN
  CASE broken -> [Blank EXCEPT !.error = Broken]
    [] ~broken /\ sum.error # None ->
         [Blank EXCEPT !.remain = sum.remain, !.error = sum.error]
    [] ~broken /\ sum.error = None -> sum

\* What the handler tells the pool of a whole answer: of one that failed only that.
ToldOfWhole(events, broken) ==
  LET whole == Aggregate(events, broken) IN
  [error |-> whole.error, remain |-> IF whole.error = None THEN whole.remain ELSE None]

-----------------------------------------------------------------------------
(* The frames of an event *)

Frame(kind) == [kind |-> kind, text |-> <<>>, reasoning |-> <<>>, calls |-> <<>>,
                finish |-> "", usage |-> None]

\* Mutant of Chunk: the usage stays with the relay.
ChunkWithoutUsage(ev) ==
  [Frame("chunk") EXCEPT !.text = ev.text, !.reasoning = ev.reasoning,
     !.calls = IF ev.tools = "list" THEN ev.calls ELSE <<>>, !.finish = ev.finish]

\* A chunk takes the usage that is pending.  A single tool call that is not in
\* a list is left out.
Chunk(ev) ==
  [Frame("chunk") EXCEPT !.text = ev.text, !.reasoning = ev.reasoning,
     !.calls = IF ev.tools = "list" THEN ev.calls ELSE <<>>, !.finish = ev.finish,
     !.usage = pending]

DONE == Frame("done")

Write(frames) == todo' = frames /\ pc' = IF frames = <<>> THEN "read" ELSE "write"

\* A delta with nothing in it is not written; an empty list is something.
MakesChunk(ev) ==
  \/ ev.event = "done"
  \/ ev.event = "output" /\ (ev.text # <<>> \/ ev.reasoning # <<>> \/ ev.tools = "list")

Output(ev) ==
  /\ ev.event = "output"
  /\ Write(IF MakesChunk(ev) THEN <<Chunk(ev)>> ELSE <<>>)
  /\ pending' = IF MakesChunk(ev) THEN None ELSE pending
  /\ UNCHANGED <<sawDone, booked, noted>>

TokenUsage(ev) ==
  /\ ev.event = "token_usage" /\ pending' = ev.figure /\ Write(<<>>)
  /\ UNCHANGED <<sawDone, booked, noted>>

\* Mutant of NotifyUsage: only the first bill is booked.
NotifyUsageOnce(ev) ==
  /\ ev.event = "notify_usage" /\ Write(<<>>)
  /\ booked' = IF ev.figure # None /\ booked = <<>> THEN <<ev.figure>> ELSE booked
  /\ UNCHANGED <<pending, sawDone, noted>>

NotifyUsage(ev) ==
  /\ ev.event = "notify_usage" /\ Write(<<>>)
  /\ booked' = IF ev.figure # None THEN Append(booked, ev.figure) ELSE booked
  /\ UNCHANGED <<pending, sawDone, noted>>

Done(ev) ==
  /\ ev.event = "done" /\ Write(<<Chunk(ev), DONE>>)
  /\ pending' = None /\ sawDone' = TRUE /\ UNCHANGED <<booked, noted>>

\* The account hears of the error before the client does.
Error(ev) ==
  /\ ev.event = "error" /\ noted' = Append(noted, ev.figure)
  /\ Write(<<Frame("error"), DONE>>) /\ sawDone' = TRUE
  /\ UNCHANGED <<pending, booked>>

Other(ev) ==
  ev.event = "other" /\ Write(<<>>) /\ UNCHANGED <<pending, sawDone, booked, noted>>

-----------------------------------------------------------------------------
(* The relay.  It reads on after "done" and "error", to the end of the stream. *)

\* Mutant of Return: the deferred stop is missing.
ReturnUnstopped(r) == result' = r /\ pc' = "returned" /\ todo' = <<>> /\ UNCHANGED stopped

\* The deferred stopPing runs on every return.
Return(r) == result' = r /\ pc' = "returned" /\ todo' = <<>> /\ stopped' = TRUE

Receive(ev) ==
  /\ pc = "read" /\ ~eof /\ Len(got) < MaxEvents
  /\ got' = Append(got, ev)
  /\ Output(ev) \/ TokenUsage(ev) \/ NotifyUsage(ev) \/ Done(ev) \/ Error(ev) \/ Other(ev)
  /\ UNCHANGED <<eof, mu, inWrite, ping, stopped, out, gone, result>>

\* At the end of the stream a DONE makes up for one that never came.
EndOfStream ==
  /\ pc = "read" /\ eof' = TRUE
  /\ IF eof \/ sawDone THEN Return("nil")
     ELSE Write(<<DONE>>) /\ UNCHANGED <<stopped, result>>
  /\ UNCHANGED <<got, pending, sawDone, mu, inWrite, ping, out, gone, booked, noted>>

\* The connection breaks, or the client that left cancels the call.
ReadFails ==
  /\ pc = "read" /\ ~eof /\ Return("error")
  /\ UNCHANGED <<got, eof, pending, sawDone, mu, inWrite, ping, out, gone, booked, noted>>

\* Mutant of UnderLock: nor is DONE.
UnderLockChunks(frame) == frame.kind = "chunk"

\* The error frame is not written under the lock.
UnderLock(frame) == frame.kind # "error"

BeginWrite ==
  /\ pc = "write"
  /\ IF UnderLock(Head(todo)) THEN mu = "free" /\ mu' = "relay" ELSE UNCHANGED mu
  /\ pc' = "writing" /\ inWrite' = inWrite \cup {"relay"}
  /\ UNCHANGED <<got, todo, eof, pending, sawDone, ping, stopped, out, gone,
                 booked, noted, result>>

Unlock == mu' = IF UnderLock(Head(todo)) THEN "free" ELSE mu

\* A write to a client that has left may fail, or go into a buffer.
EndWrite ==
  /\ pc = "writing" /\ inWrite' = inWrite \ {"relay"} /\ Unlock
  /\ \/ /\ out' = Append(out, Head(todo)) /\ Write(Tail(todo))
        /\ stopped' = (stopped \/ Head(todo).kind = "chunk")
        /\ UNCHANGED result
     \/ gone /\ Return("error") /\ UNCHANGED out
  /\ UNCHANGED <<got, eof, pending, sawDone, ping, gone, booked, noted>>

Leave ==
  /\ ~gone /\ gone' = TRUE
  /\ UNCHANGED <<got, pc, todo, eof, pending, sawDone, mu, inWrite, ping, stopped,
                 out, booked, noted, result>>

-----------------------------------------------------------------------------
(* The goroutine of the pings: its select takes either case that is ready. *)

Tick ==
  /\ ping = "wait" /\ ping' = "ping"
  /\ UNCHANGED <<got, pc, todo, eof, pending, sawDone, mu, inWrite, stopped, out,
                 gone, booked, noted, result>>

PingStops ==
  /\ ping = "wait" /\ stopped /\ ping' = "ended"
  /\ UNCHANGED <<got, pc, todo, eof, pending, sawDone, mu, inWrite, stopped, out,
                 gone, booked, noted, result>>

BeginPing ==
  /\ ping = "ping" /\ mu = "free" /\ mu' = "ping" /\ ping' = "writing"
  /\ inWrite' = inWrite \cup {"ping"}
  /\ UNCHANGED <<got, pc, todo, eof, pending, sawDone, stopped, out, gone,
                 booked, noted, result>>

EndPing ==
  /\ ping = "writing" /\ mu' = "free" /\ inWrite' = inWrite \ {"ping"}
  /\ \/ ping' = "wait"
     \/ gone /\ ping' = "ended"
  /\ UNCHANGED <<got, pc, todo, eof, pending, sawDone, stopped, out, gone,
                 booked, noted, result>>

-----------------------------------------------------------------------------
Relay == (\E ev \in Events : Receive(ev)) \/ EndOfStream \/ ReadFails \/ BeginWrite \/ EndWrite
Ping == Tick \/ PingStops \/ BeginPing \/ EndPing

NextS == Relay \/ Leave \/ Ping

\* A write ends and Go's mutex starves nobody; select picks one of the cases that
\* are ready at random, so a stop that stays ready is taken.  Nothing makes the
\* upstream go on.
FairS ==
  /\ WF_svars(EndWrite)
  /\ WF_svars(EndPing) /\ SF_svars(BeginPing) /\ SF_svars(PingStops)

SpecS == InitS /\ [][NextS]_svars /\ FairS

-----------------------------------------------------------------------------
(* Properties *)

Join(all, value) == all \o value
Joined(values) == FoldLeft(Join, <<>>, values)
Of(frames, field) == [i \in DOMAIN frames |-> frames[i][field]]
LastOf(values, absent) ==
  LET there == {i \in DOMAIN values : values[i] # absent} IN
  IF there = {} THEN absent ELSE values[Max(there)]

\* What a client makes of the pieces of a tool call: the last id and name, all of
\* the arguments.
Its(pieces, index, field, absent) ==
  [k \in DOMAIN pieces |-> IF pieces[k].index = index THEN pieces[k][field] ELSE absent]

ClientCall(pieces, index) ==
  [id   |-> LastOf(Its(pieces, index, "id", ""), ""),
   name |-> LastOf(Its(pieces, index, "name", ""), ""),
   args |-> Joined(Its(pieces, index, "args", <<>>))]

\* What it makes of all of them.
ClientCalls(pieces) ==
  [i \in {pieces[k].index : k \in DOMAIN pieces} |-> ClientCall(pieces, i)]

\* A chunk was written after every usage.  One without figures, which an event
\* without data is, would take back the one before, but for the stream it is sent.
UsageInTime ==
  \A i \in DOMAIN got : got[i].event = "token_usage" =>
     got[i].figure # None /\ \E j \in (i + 1)..Len(got) : MakesChunk(got[j])

\* A relay that did not fail wrote a DONE ("at least one [DONE]", solosse.go:340),
\* however the upstream ended and whatever it sent; and a client that asked for a
\* stream can put together the answer that it would have got without one: text,
\* reasoning, tool calls, the reason of the end, and the last usage if a chunk
\* followed it.  A tool call that is not in a list is lost.
StreamAgrees ==
  LET whole == Aggregate(got, FALSE)
      finish == LastOf(Of(out, "finish"), "")
  IN
  /\ result = "nil" => \E i \in DOMAIN out : out[i].kind = "done"
  /\ result = "nil" /\ whole.error = None /\ (\A i \in DOMAIN got : got[i].tools # "one") =>
       /\ Joined(Of(out, "text")) = whole.text
       /\ Joined(Of(out, "reasoning")) = whole.reasoning
       /\ ClientCalls(Joined(Of(out, "calls"))) = whole.calls
       /\ whole.finish = IF finish = "" THEN "stop" ELSE finish
       /\ UsageInTime => LastOf(Of(out, "usage"), None) = whole.usage

\* Of a stream the pool hears the last error and the last balance that came,
\* however it ends and whoever has left.  Of a whole answer it hears the same error,
\* and the same balance unless the answer fails: the bill of one that fails, in the
\* reading or with an error of upstream, it never hears.
AccountingAgrees ==
  LET error == LastOf(noted, None)
      remain == LastOf(booked, None)
  IN
  /\ error = Gather(got).error /\ remain = Gather(got).remain
  /\ \A broken \in BOOLEAN :
       LET told == ToldOfWhole(got, broken) IN
       /\ told.error = IF broken THEN Broken ELSE error
       /\ told.remain = IF broken \/ error # None THEN None ELSE remain

\* A ping never meets a chunk or a DONE inside a write; only the error frame,
\* which is not written under the lock, may meet one (solosse.go:524).
OnlyErrorsMeetPings ==
  inWrite = {"relay", "ping"} => Head(todo).kind = "error"

\* The goroutine ends after the first chunk, and when the relay has returned
\* without one: it never outlives its request for good.
PingsEnd == (\E i \in DOMAIN out : out[i].kind = "chunk") \/ pc = "returned" ~> ping = "ended"
=============================================================================
