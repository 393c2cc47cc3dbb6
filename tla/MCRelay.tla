------------------------------- MODULE MCRelay -------------------------------
(* The two channels for TLC: a request is relayed by one of them.            *)
EXTENDS WorkRelay

VARIABLE channel

allvars == <<svars, wvars, channel>>

Ev(event) == [event |-> event, text |-> <<>>, reasoning |-> <<>>, calls |-> <<>>,
              tools |-> "none", figure |-> None, finish |-> ""]
Call(index, id, name, args) == [index |-> index, id |-> id, name |-> name, args |-> args]

SomeEvents ==
  {[Ev("output") EXCEPT !.text = <<1>>],
   [Ev("output") EXCEPT !.reasoning = <<2>>, !.tools = "list",
                         !.calls = <<Call(1, "x", "f", <<>>)>>],
   [Ev("output") EXCEPT !.tools = "list",
                         !.calls = <<Call(1, "", "", <<3>>), Call(0, "y", "g", <<4>>)>>],
   [Ev("output") EXCEPT !.tools = "one", !.calls = <<Call(0, "z", "h", <<5>>)>>],
   [Ev("output") EXCEPT !.tools = "list"],
   [Ev("token_usage") EXCEPT !.figure = 6], Ev("token_usage"),
   [Ev("notify_usage") EXCEPT !.figure = 7], [Ev("notify_usage") EXCEPT !.figure = 8],
   Ev("notify_usage"),
   Ev("done"), [Ev("done") EXCEPT !.finish = "length"],
   [Ev("error") EXCEPT !.figure = 1005], Ev("other")}

Line(line, name, of, texts) ==
  [line |-> line, name |-> name, of |-> of, texts |-> texts, figure |-> None,
   long |-> FALSE]
Data(name, texts) == Line("data", name, name, texts)
Say(text) == [text |-> text, thought |-> FALSE]

SomeItems ==
  {Line("event", "output", "", <<>>), Line("event", "done", "", <<>>),
   Line("data", "", "output", <<Say(<<1>>)>>), Data("output", <<Say(<<1, 2>>), Say(<<2>>)>>),
   Data("plan_item", <<[text |-> <<1>>, thought |-> TRUE], Say(<<1, 3>>)>>),
   Data("plan_item", <<Say(<<1, 2, 3>>)>>),
   [Data("plan_item", <<Say(<<1, 2, 3>>)>>) EXCEPT !.long = TRUE],
   [Data("token_usage", <<>>) EXCEPT !.figure = 6],
   Data("done", <<>>), Data("done", <<Say(<<1, 2, 3>>)>>),
   Line("data", "error", "", <<>>), Line("data", "thought", "", <<>>),
   Line("chunk", "", "", <<Say(<<4>>)>>), Line("json", "", "", <<Say(<<4>>)>>),
   Line("DONE", "", "", <<>>)}

\* The channel that is not used stays as it is.
InitR ==
  /\ InitS /\ InitW
  /\ \/ channel = "dev" /\ mode = "disabled"
     \/ channel = "work" /\ ping = "ended"

NextR ==
  \/ channel = "dev" /\ NextS /\ UNCHANGED <<wvars, channel>>
  \/ channel = "work" /\ NextW /\ UNCHANGED <<svars, channel>>

SpecR == InitR /\ [][NextR]_allvars /\ FairS
=============================================================================
