------------------------------ MODULE Requests ------------------------------
(***************************************************************************)
(* The model history as the providers are sent it (messages_json of        *)
(* provider_openai.rs and of provider_anthropic.rs), and what their APIs   *)
(* demand of it.  A message is known by its role, by the ids of the tool   *)
(* uses or results in it, and by whether it has a text that is not blank;  *)
(* a text beside tool uses makes no difference and is left out.            *)
(***************************************************************************)
EXTENDS Naturals, Sequences
Seqs == INSTANCE SequencesExt

UserText(text) == [role |-> "user", ids |-> <<>>, text |-> text]
Assistant(ids, text) == [role |-> "assistant", ids |-> ids, text |-> text]
Results(ids) == [role |-> "results", ids |-> ids, text |-> FALSE]

\* openai: a message of its own for every result, none for an empty text of
\* the user.  (One of white space alone is sent, and here counts as empty: no
\* demand of the API is about it.)
OpenAiMessages(h) ==
  Seqs!FlattenSeq([i \in DOMAIN h |->
    CASE h[i].role = "results" ->
           [j \in DOMAIN h[i].ids |->
              [role |-> "tool", ids |-> <<h[i].ids[j]>>, text |-> FALSE]]
      [] h[i].role = "user" /\ ~h[i].text -> <<>>
      [] OTHER -> <<h[i]>>])

\* anthropic: results come in the user's role, and blank texts are taken out of
\* a message, not the message.
AnthropicMessages(h) ==
  [i \in DOMAIN h |->
     [role    |-> IF h[i].role = "assistant" THEN "assistant" ELSE "user",
      uses    |-> IF h[i].role = "assistant" THEN h[i].ids ELSE <<>>,
      results |-> IF h[i].role = "results" THEN h[i].ids ELSE <<>>,
      text    |-> h[i].text]]

-----------------------------------------------------------------------------
\* The API of openai: the calls of a message are answered by as many tool
\* messages right behind it, one for each, and there are no other ones.
OpenAiPairs(ms) ==
  /\ \A i \in DOMAIN ms : ms[i].role = "assistant" =>
       LET n == Len(ms[i].ids)
       IN  /\ i + n <= Len(ms)
           /\ \A k \in 1..n : \E j \in (i + 1)..(i + n) :
                ms[j].role = "tool" /\ ms[j].ids = <<ms[i].ids[k]>>
  /\ \A i \in DOMAIN ms : ms[i].role = "tool" =>
       \E j \in 1..(i - 1) : ms[j].role = "assistant" /\ i <= j + Len(ms[j].ids)

\* A message of the model has content or calls.
OpenAiAccepts(ms) ==
  /\ OpenAiPairs(ms)
  /\ \A i \in DOMAIN ms : ms[i].role = "assistant" => ms[i].text \/ ms[i].ids # <<>>

\* The API of anthropic: the user begins, and the message behind tool uses
\* has their results and no others.
AnthropicPairs(ms) ==
  /\ ms # <<>> => ms[1].role = "user" /\ ms[1].results = <<>>
  /\ \A i \in 2..Len(ms) : Seqs!ToSet(ms[i].results) = Seqs!ToSet(ms[i - 1].uses)
  /\ ms # <<>> => ms[Len(ms)].uses = <<>>

\* Every message has content.
AnthropicAccepts(ms) ==
  /\ AnthropicPairs(ms)
  /\ \A i \in DOMAIN ms : ms[i].text \/ ms[i].uses # <<>> \/ ms[i].results # <<>>

\* Tool uses and results are as either provider demands it.
Matched(h) == OpenAiPairs(OpenAiMessages(h)) /\ AnthropicPairs(AnthropicMessages(h))

\* A conversation that either provider goes on with.
Accepted(h) == OpenAiAccepts(OpenAiMessages(h)) /\ AnthropicAccepts(AnthropicMessages(h))

\* Neither the user nor the model has said nothing at all.
Worded(h) == \A i \in DOMAIN h :
               \/ h[i].role = "results" \/ h[i].text
               \/ h[i].role = "assistant" /\ h[i].ids # <<>>
=============================================================================
