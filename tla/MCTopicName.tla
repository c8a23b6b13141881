---------------------------- MODULE MCTopicName -----------------------------
(* TopicName with names of one to six parts, some of them empty.           *)
EXTENDS TopicName

MCGiven ==
  {<<"a">>, <<"#">>, <<"a", "", "b">>, <<Sparkplug, State, "b">>,
   <<Sparkplug, "a", "b", "a", "b">>, <<"a", "b", "a", "b", "a", "b">>}
=============================================================================
