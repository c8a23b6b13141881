-------------------------- MODULE MCTopicMessages --------------------------
(* TopicMessages with what another node of the library, or any client of  *)
(* the broker, may send.                                                   *)
EXTENDS TopicMessages, TLC

TextMessage(t, v) ==
  [format |-> "text", text |-> TextOf(t, Stored(t, v)), type |-> t,
   origin |-> Stored(t, v), parses |-> FALSE, members |-> <<>>]

\* MakeTextBody of a metric that is null or invalid
StarMessage == [TextMessage("Boolean", 0) EXCEPT !.text = Star]

JsonMessage(members) ==
  [format |-> "json", text |-> Empty, type |-> "Unknown", origin |-> Empty,
   parses |-> TRUE, members |-> members]

AsMember(n, json) == [key |-> n, kind |-> json.kind, text |-> json.text]
StringMember(n, s) == AsMember(n, JsonOf("String", Text("plain", s)))

\* MakeJsonBody puts no comma between two members.
TwoMetrics == [JsonMessage(<<>>) EXCEPT !.parses = FALSE]

Untold == [TextMessage("Int8", -100) EXCEPT !.format = "none"]

TextMessages ==
  {TextMessage("Int8", -100), TextMessage("UInt8", 200),
   TextMessage("Boolean", 1), StarMessage}

JsonMessages ==
  {JsonMessage(<<StringMember("m1", 1)>>),
   JsonMessage(<<StringMember("m1", 2), AsMember("m2", JsonNull)>>),
   JsonMessage(<<AsMember("m1", JsonNumber(7)), StringMember("m2", 1)>>),
   TwoMetrics}

MCMessages ==
  TextMessages \cup JsonMessages
    \cup {Untold, [Untold EXCEPT !.format = "other"]}

\* What a node publishes as JSON of a topic with a single metric, a string or
\* an integer; the bodies of more metrics do not parse (TwoMetrics).
SingleMetricJson ==
  {JsonMessage(<<StringMember("m1", 1)>>), JsonMessage(<<AsMember("m1", JsonNumber(7))>>)}
=============================================================================
