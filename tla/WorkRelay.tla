------------------------------ MODULE WorkRelay ------------------------------
(***************************************************************************)
(* The work channel (internal/upstream/work_client.go): one call, native   *)
(* or over the local bridge, with the bodies that it opens, and the relay  *)
(* of its answer, in the frames of StreamRelay.  There are no pings, and   *)
(* the frames of an item are one step.                                     *)
(*                                                                         *)
(* An item is a line of the answer: an "event" line, which names the items *)
(* after it; a "data" line, which may have a name of its own; "chunk" and  *)
(* "DONE", the bridge's own data lines; or "json", an answer that is no    *)
(* stream.  Lines of any other kind lead to nothing.                       *)
(***************************************************************************)
EXTENDS StreamRelay

CONSTANTS
  Items,       \* the lines upstream may send
  MaxItems     \* bound

\* A text of an item; a thought goes out as reasoning.
Said == [text : Seq(Nat), thought : BOOLEAN]

\* A payload has the form of one event, `of`; only that of a plan has thoughts.
\* A long line has 64 KB or more.
Item ==
  [line : {"event", "data", "chunk", "DONE", "json"}, name : STRING, of : STRING,
   texts : Seq(Said), figure : Nat \cup {None}, long : BOOLEAN]

NoThoughts(texts) == \A i \in DOMAIN texts : ~texts[i].thought

ASSUME WorkAssumption ==
  /\ MaxItems \in Nat
  /\ \A item \in Items :
       /\ item \in Item
       /\ item.of # "plan_item" => NoThoughts(item.texts)
       /\ item.line \in {"chunk", "json"} => item.texts # <<>>

VARIABLES
  mode,        \* "auto", "native", "bridge" or "disabled"
  call,        \* where ChatStream and the handler around it are
  tries,       \* the calls upstream, in their order
  open,        \* the bodies that nobody has closed
  answer,      \* what executeWorkRequest makes of the call
  current,     \* the name of the last event line
  full,        \* the text that handleDelta has seen
  wpending, wdone,  \* its other locals
  wout, wgone, wresult,  \* the frames written; the client has left; what is returned
  lines, pieces  \* history: the lines read, what handleDelta was given

chatVars == <<mode, call, tries, open, answer>>
relayVars == <<current, full, wpending, wdone, wout, wresult, lines, pieces>>
wvars == <<chatVars, relayVars, wgone>>

InitW ==
  /\ mode \in {"auto", "native", "bridge", "disabled"}
  /\ call = "start" /\ tries = <<>> /\ open = {} /\ answer = "none"
  /\ current = "" /\ full = <<>> /\ wpending = None /\ wdone = FALSE
  /\ wout = <<>> /\ wgone = FALSE /\ wresult = "none"
  /\ lines = <<>> /\ pieces = <<>>

-----------------------------------------------------------------------------
(* ChatStream, and executeWorkRequest around it *)

Goto(point) == call' = point

\* The handler turns to the next account: nobody closes what was returned with
\* an error or with a status of 400 and more.
Rotate(why) == Goto("over") /\ answer' = why

Start ==
  /\ call = "start"
  /\ \/ mode = "disabled" /\ Rotate("error") /\ UNCHANGED tries
     \/ mode = "bridge" /\ Goto("bridge") /\ tries' = Append(tries, "bridge") /\ UNCHANGED answer
     \/ mode \in {"auto", "native"} /\ Goto("native") /\ tries' = Append(tries, "native")
        /\ UNCHANGED answer
  /\ UNCHANGED <<mode, open, relayVars, wgone>>

FallBack(why) ==
  IF mode = "auto" THEN Goto("bridge") /\ tries' = Append(tries, "bridge") /\ UNCHANGED answer
  ELSE Rotate(why) /\ UNCHANGED tries

NativeFails ==
  /\ call = "native" /\ FallBack("error")
  /\ UNCHANGED <<mode, open, relayVars, wgone>>

NativeAnswers ==
  /\ call = "native" /\ Goto("peek") /\ open' = open \cup {"native"}
  /\ UNCHANGED <<mode, tries, answer, relayVars, wgone>>

\* Mutant of Peek: the body with the error code stays open.
PeekOpen ==
  /\ call = "peek"
  /\ \/ FallBack("rejected") /\ UNCHANGED open
     \/ Goto("serve") /\ UNCHANGED <<tries, open, answer>>
     \/ (Rotate("rejected") \/ Rotate("error")) /\ UNCHANGED <<tries, open>>
  /\ UNCHANGED <<mode, relayVars, wgone>>

\* The first bytes decide: a code for which the bridge is tried, an answer, or
\* a status of 400 and more and a failed read, which both come back with the body.
Peek ==
  /\ call = "peek"
  /\ \/ open' = open \ {"native"} /\ FallBack("rejected")
     \/ Goto("serve") /\ UNCHANGED <<tries, open, answer>>
     \/ (Rotate("rejected") \/ Rotate("error")) /\ UNCHANGED <<tries, open>>
  /\ UNCHANGED <<mode, relayVars, wgone>>

\* The bridge's body is read and closed here when its status is 400 and more.
Bridge ==
  /\ call = "bridge"
  /\ \/ Rotate("error") /\ UNCHANGED open
     \/ Rotate("rejected") /\ UNCHANGED open
     \/ Goto("serve") /\ open' = open \cup {"bridge"} /\ UNCHANGED answer
  /\ UNCHANGED <<mode, tries, relayVars, wgone>>

-----------------------------------------------------------------------------
(* handleDelta: upstream sends texts that begin with all that came before, or *)
(* pieces; a piece that was there before is taken for a repetition.           *)

\* Mutant of Extends: the lengths are not compared.
ExtendsAny(text, old) == Len(text) > Len(old)

Extends(text, old) == IsPrefix(old, text) /\ Len(text) > Len(old)

DeltaOf(text, old) ==
  IF Extends(text, old) THEN SubSeq(text, Len(old) + 1, Len(text))
  ELSE IF text \in SubSeqs(old) THEN <<>> ELSE text

Collected(old, text) ==
  IF Extends(text, old) THEN text ELSE IF text \in SubSeqs(old) THEN old ELSE old \o text

\* What is new of a text is a chunk.
Hear(heard, said) ==
  LET delta == DeltaOf(said.text, heard.full)
      chunk == IF said.thought THEN [Frame("chunk") EXCEPT !.reasoning = delta]
               ELSE [Frame("chunk") EXCEPT !.text = delta]
  IN [full   |-> Collected(heard.full, said.text),
      frames |-> IF delta = <<>> THEN heard.frames ELSE Append(heard.frames, chunk)]

HearAll(heard, texts) == FoldLeft(Hear, heard, texts)
Heard(texts) == HearAll([full |-> full, frames |-> <<>>], texts)

\* The next chunk takes the usage that is pending.
WithUsage(frames) ==
  [i \in DOMAIN frames |-> IF i = 1 THEN [frames[i] EXCEPT !.usage = wpending] ELSE frames[i]]

\* The writes to a client that has left fail, from some frame on, and their
\* errors are ignored.
Send(frames) ==
  \E n \in (IF wgone THEN 0..Len(frames) ELSE {Len(frames)}) : wout' = wout \o SubSeq(frames, 1, n)

Take(texts) == full' = Heard(texts).full /\ pieces' = pieces \o texts

-----------------------------------------------------------------------------
(* StreamWorkToOpenAI *)

Name(item) == IF item.name = "" THEN current ELSE item.name

EventLine(item) ==
  /\ item.line = "event" /\ current' = item.name
  /\ UNCHANGED <<wout, wpending, wdone, full, pieces>>

\* "plan_item" and "output"; a payload of another form has none of their texts.
WText(item) ==
  /\ item.line = "data" /\ Name(item) \in {"plan_item", "output"}
  /\ LET texts == IF Name(item) = item.of THEN item.texts ELSE <<>>
         frames == Heard(texts).frames
     IN Send(WithUsage(frames)) /\ Take(texts)
        /\ wpending' = IF frames = <<>> THEN wpending ELSE None
  /\ UNCHANGED <<current, wdone>>

WUsage(item) ==
  /\ item.line = "data" /\ Name(item) = "token_usage"
  /\ wpending' = IF item.of = "token_usage" THEN item.figure ELSE wpending
  /\ UNCHANGED <<wout, wdone, current, full, pieces>>

\* Mutant of WDone: neither the missing text nor DONE is sent.
WDoneLate(item) ==
  /\ item.line = "data" /\ Name(item) = "done"
  /\ Send(WithUsage(<<[Frame("chunk") EXCEPT !.finish = "stop"]>>))
  /\ wpending' = None /\ wdone' = TRUE /\ UNCHANGED <<current, full, pieces>>

\* The answer as a whole comes once more, for what is missing of it.
WDone(item) ==
  /\ item.line = "data" /\ Name(item) = "done"
  /\ LET texts == IF item.of = "done" THEN item.texts ELSE <<>> IN
       /\ Send(WithUsage(Append(Heard(texts).frames, [Frame("chunk") EXCEPT !.finish = "stop"]))
               \o <<DONE>>)
       /\ Take(texts)
  /\ wpending' = None /\ wdone' = TRUE /\ UNCHANGED current

WError(item) ==
  /\ item.line = "data" /\ Name(item) = "error"
  /\ Send(<<Frame("error"), DONE>>) /\ wdone' = TRUE
  /\ UNCHANGED <<wpending, current, full, pieces>>

\* A line without a known name, or with broken JSON.
WOther(item) ==
  /\ item.line = "data"
  /\ Name(item) \notin {"plan_item", "output", "token_usage", "done", "error"}
  /\ UNCHANGED <<wout, wpending, wdone, current, full, pieces>>

\* A whole answer has no line of a stream.
WNoStream(item) ==
  item.line = "json" /\ UNCHANGED <<wout, wpending, wdone, current, full, pieces>>

\* The stream is read on after "done" and "error".
WReceive(item) ==
  /\ call = "serve" /\ Len(lines) < MaxItems
  /\ lines' = Append(lines, item)
  /\ EventLine(item) \/ WText(item) \/ WUsage(item) \/ WDone(item)
     \/ WError(item) \/ WOther(item) \/ WNoStream(item)
  /\ UNCHANGED <<chatVars, wresult, wgone>>

\* The handler closes the body, whatever came of the stream.
Over(r) == /\ wresult' = r /\ Goto("over") /\ answer' = "served"
           /\ open' = {}

\* A chunk of the bridge goes through as it is; only here a failed write counts.
WPassThrough(item) ==
  /\ call = "serve" /\ Len(lines) < MaxItems
  /\ item.line = "chunk" /\ lines' = Append(lines, item)
  /\ \/ wout' = Append(wout, [Frame("chunk") EXCEPT !.text = item.texts[1].text])
        /\ UNCHANGED <<wresult, call, answer, open>>
     \/ wgone /\ Over("error") /\ UNCHANGED wout
  /\ UNCHANGED <<mode, tries, current, full, wpending, wdone, wgone, pieces>>

\* The bridge's own DONE ends the reading.
WDoneLine(item) ==
  /\ call = "serve" /\ Len(lines) < MaxItems
  /\ item.line = "DONE" /\ lines' = Append(lines, item)
  /\ Send(<<DONE>>) /\ wdone' = TRUE /\ Over("nil")
  /\ UNCHANGED <<mode, tries, current, full, wpending, wgone, pieces>>

WEnd ==
  /\ call = "serve"
  /\ \/ wdone /\ Over("nil") /\ UNCHANGED wout
     \/ ~wdone /\ wout' = Append(wout, DONE) /\ Over("nil")
     \/ ~wdone /\ wgone /\ Over("error") /\ UNCHANGED wout
  /\ UNCHANGED <<mode, tries, current, full, wpending, wdone, wgone, lines, pieces>>

WReadFails ==
  /\ call = "serve" /\ Over("error")
  /\ UNCHANGED <<mode, tries, current, full, wpending, wdone, wout, wgone, lines, pieces>>

WLeave ==
  /\ ~wgone /\ wgone' = TRUE /\ UNCHANGED <<chatVars, relayVars>>

NextW ==
  \/ Start \/ NativeFails \/ NativeAnswers \/ Peek \/ Bridge
  \/ \E item \in Items : WReceive(item) \/ WPassThrough(item) \/ WDoneLine(item)
  \/ WEnd \/ WReadFails
  \/ WLeave

SpecW == InitW /\ [][NextW]_wvars

-----------------------------------------------------------------------------
\* AggregateWork: the text of the same lines in one answer.  It reads no event
\* lines, no reasoning, no errors, and nothing of "done".
Answer(old, said) == IF said.thought THEN old ELSE Collected(old, said.text)
AnswerAll(old, texts) == FoldLeft(Answer, old, texts)

AnswerText(old, item) ==
  IF item.line = "data" /\ item.name = item.of /\ item.name \in {"plan_item", "output"}
    THEN AnswerAll(old, item.texts) ELSE old

\* The Scanner gives up at the first long line, and nobody asks it why.
AnswerItem(sum, item) ==
  IF sum.over \/ item.long \/ item.line = "DONE" THEN [sum EXCEPT !.over = TRUE]
  ELSE [sum EXCEPT !.text = AnswerText(@, item)]

Scanned(items) == FoldLeft(AnswerItem, [text |-> <<>>, over |-> FALSE], items)

\* A body that is an answer already is passed on.
Direct(items) == Len(items) = 1 /\ items[1].line = "json"

\* A read that failed after the items leaves nothing but the error.
AggregateWork(items, broken) ==
  [error |-> broken,
   text  |-> IF broken THEN <<>>
             ELSE IF Direct(items) THEN items[1].texts[1].text ELSE Scanned(items).text]

-----------------------------------------------------------------------------
(* Properties *)

\* What a client reads as the answer, and this together with the reasoning, in the
\* order in which they came; in frames that are no chunk there is none.
ContentIn(frames) == Joined(Of(frames, "text"))
SentIn(frames) == Joined([i \in DOMAIN frames |-> frames[i].reasoning \o frames[i].text])
PassThrough == \E i \in DOMAIN lines : lines[i].line = "chunk"

\* Whether upstream sends whole texts or pieces, a client that stays has every text
\* somewhere in what came, reasoning and content put together as they came, and of
\* texts that each begin with the one before exactly the last, with nothing twice
\* (handleDelta).  The content alone has every text only if upstream sent no
\* reasoning: what came as reasoning before is not sent again as content.  A piece
\* that only says again what was said before is taken for a repetition and left out.
EveryTextArrives ==
  ~wgone /\ ~PassThrough =>
    /\ \A i \in DOMAIN pieces : pieces[i].text \in SubSeqs(SentIn(wout))
    /\ NoThoughts(pieces) => SentIn(wout) = ContentIn(wout)
    /\ pieces # <<>>
       /\ (\A i \in 1..(Len(pieces) - 1) : IsPrefix(pieces[i].text, pieces[i + 1].text))
         => SentIn(wout) = pieces[Len(pieces)].text

\* Lines that both ways read alike: named in themselves, without reasoning and
\* without a text at the end, which AggregateWork leaves out.
ReadAlike(item) ==
  /\ item.line # "chunk"
  /\ item.line = "data" =>
       /\ item.name # "" /\ NoThoughts(item.texts)
       /\ item.name = "done" => item.texts = <<>>

\* A client that stays gets a DONE, where a whole answer would not be an error, and
\* of lines that are read alike all of the content that the whole answer has.  The
\* whole answer has no more unless a line is long: there it ends, without a word.
\* Only of a body that is no stream the client of a stream gets nothing.
WorkAgrees ==
  LET whole == AggregateWork(lines, wresult = "error") IN
  ~wgone /\ wresult # "none" /\ ~whole.error =>
    /\ \E i \in DOMAIN wout : wout[i].kind = "done"
    /\ (\A i \in DOMAIN lines : ReadAlike(lines[i])) =>
         IF Direct(lines) THEN ContentIn(wout) = <<>>
         ELSE /\ IsPrefix(whole.text, ContentIn(wout))
              /\ (\A i \in DOMAIN lines : ~lines[i].long) => whole.text = ContentIn(wout)

\* Every call of ChatStream ends with its bodies closed, except for a native answer
\* that is handed back with a status of 400 and more or a failed first read
\* (handler.go:806); the bridge is called at most once, after the native call in
\* the mode "auto", alone in the mode "bridge".
BodiesClosed ==
  call = "over" =>
    /\ open # {} => open = {"native"} /\ tries = <<"native">> /\ answer # "served"
    /\ tries \in CASE mode = "auto" -> {<<"native">>, <<"native", "bridge">>}
                   [] mode = "native" -> {<<"native">>}
                   [] mode = "bridge" -> {<<"bridge">>}
                   [] mode = "disabled" -> {<<>>}
=============================================================================
