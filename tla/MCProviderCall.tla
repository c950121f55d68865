--------------------------- MODULE MCProviderCall ---------------------------
(***************************************************************************)
(* ProviderCall for TLC: replies with text and two calls in either order,  *)
(* with blank text, with a call of empty arguments and one of none, and    *)
(* with two texts.                                                         *)
(***************************************************************************)
EXTENDS ProviderCall

Text(n) == [kind |-> "text", blank |-> FALSE, absent |-> FALSE, fragments |-> n]
Space   == [kind |-> "text", blank |-> TRUE, absent |-> FALSE, fragments |-> 1]
Tool(n) == [kind |-> "tool", blank |-> FALSE, absent |-> FALSE, fragments |-> n]
Bare    == [kind |-> "tool", blank |-> FALSE, absent |-> TRUE, fragments |-> 0]

MCReplies == {<<Text(3), Tool(2), Tool(2)>>, <<Space, Tool(0), Tool(1)>>,
              <<Tool(2), Text(2)>>, <<Text(1)>>, <<Text(1), Bare, Tool(1)>>,
              <<Text(2), Tool(1), Text(1), Space>>}
=============================================================================
