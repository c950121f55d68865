---------------------------- MODULE ProviderCall ----------------------------
(***************************************************************************)
(* One call of a model provider (provider_openai.rs, provider_anthropic.rs *)
(* over llm.rs, retry_request, and sse.rs): the request and its retries,   *)
(* the reply as it comes in chunks from the network, its assembly into     *)
(* blocks, and what is shown of it on the way.                             *)
(*                                                                         *)
(* A reply is a sequence of content blocks, and a block is sent as a start *)
(* and a number of fragments, one per line of the stream; lines of         *)
(* different blocks may interleave.  A fragment is known by its block and  *)
(* its place in it, and by whether one of its characters was torn: the     *)
(* chunks are decoded one by one, so a wide character with a chunk's end   *)
(* in its middle is replaced.  Lines that carry neither text nor a part of *)
(* a call (usage, stop reason, comments, "[DONE]") are left out.           *)
(***************************************************************************)
EXTENDS Naturals, Sequences

Seqs == INSTANCE SequencesExt

CONSTANTS
  Replies,   \* the replies a server may give
  Attempts,  \* HTTP_ATTEMPTS (3)
  Wide       \* whether texts and arguments contain wide characters

ASSUME ProviderAssumption ==
  /\ Attempts \in Nat \ {0} /\ Wide \in BOOLEAN
  /\ Replies \subseteq
       Seq([kind : {"text", "tool"}, blank : BOOLEAN, absent : BOOLEAN, fragments : Nat])
  \* A call whose arguments are absent has no fragment of them.
  /\ \A r \in Replies : \A b \in DOMAIN r :
       r[b].absent => r[b].kind = "tool" /\ r[b].fragments = 0

VARIABLES
  api, streaming,  \* which provider is asked, and by which of its methods
  reply,           \* what the server will answer
  phase,           \* "ready", "sent", "backoff", "reading", "done" or "failed"
  attempt,         \* attempts made
  sent,            \* per block, how many of its lines the network has brought
  line,            \* the line in the buffer whose end is missing
  text,            \* text collected by openai
  blocks,          \* blocks by index; NoBlock where the map has no entry
  shown,           \* what on_text was called with
  response         \* the blocks of the ChatResponse

callVars == <<api, streaming, reply>>
sendVars == <<phase, attempt>>
readVars == <<sent, line, text, blocks, shown>>
vars == <<callVars, sendVars, readVars, response>>

-----------------------------------------------------------------------------
NoLine  == [of |-> 0, n |-> 0, torn |-> FALSE]
NoBlock == [text |-> <<>>, tool |-> 0, json |-> <<>>]

\* The id and the name of a call, and the text of a fragment, as the server
\* has them.
Fragment(b, n) == [of |-> b, n |-> n, torn |-> FALSE]
Whole(b) == [n \in 1..reply[b].fragments |-> Fragment(b, n)]

\* serde_json::from_str, with the fallback of either provider: arguments are
\* JSON when they are all of one call's, in order.
Parsed(json) ==
  IF json # <<>> /\ \E b \in DOMAIN reply :
                      [i \in DOMAIN json |-> [json[i] EXCEPT !.torn = FALSE]] = Whole(b)
    THEN [is |-> "json", of |-> json]
    ELSE [is |-> "fallback", of |-> IF api = "openai" THEN json ELSE <<>>]

TextBlock(t) == [kind |-> "text", text |-> t]
ToolBlock(tool, input) == [kind |-> "tool", tool |-> tool, input |-> input]

\* A text of white space alone makes no block.
TextBlocks(t) == IF \A i \in DOMAIN t : reply[t[i].of].blank THEN <<>> ELSE <<TextBlock(t)>>

\* Faulty variant: a response with calls has no text.
AssembledCallsOnly ==
  LET calls == Seqs!FlattenSeq([b \in DOMAIN reply |->
                 IF blocks[b].tool # 0 THEN <<ToolBlock(blocks[b].tool, Parsed(blocks[b].json))>>
                                       ELSE <<>>])
  IN  IF calls = <<>> THEN TextBlocks(shown) ELSE calls

\* finish_stream: text first, then the map in the order of its keys.
Assembled ==
  TextBlocks(text) \o
  Seqs!FlattenSeq([b \in DOMAIN reply |->
    IF blocks[b].tool # 0 THEN <<ToolBlock(blocks[b].tool, Parsed(blocks[b].json))>>
                          ELSE TextBlocks(blocks[b].text)])

\* parse_response, with the inputs of the calls: openai has its text and then
\* the calls, anthropic has the blocks as they are.
ReplyWith(inputs) ==
  IF api = "openai"
    THEN Seqs!FlattenSeq([b \in DOMAIN reply |->
           IF reply[b].kind = "text" THEN TextBlocks(Whole(b)) ELSE <<>>]) \o
         Seqs!FlattenSeq([b \in DOMAIN reply |->
           IF reply[b].kind = "tool" THEN <<ToolBlock(b, inputs[b])>> ELSE <<>>])
    ELSE [b \in DOMAIN reply |-> IF reply[b].kind = "text" THEN TextBlock(Whole(b))
                                 ELSE ToolBlock(b, inputs[b])]

\* Arguments that a body has are parsed like those of a stream; where it has
\* none, openai takes {} and anthropic takes null.
NoInput == [is |-> "none", of |-> <<>>]
StreamInputs == [b \in DOMAIN reply |-> Parsed(Whole(b))]
BodyInputs ==
  [b \in DOMAIN reply |-> IF reply[b].absent THEN NoInput ELSE Parsed(Whole(b))]

ParsedReply == ReplyWith(BodyInputs)

-----------------------------------------------------------------------------
\* A message of openai has one text at most, its content.
OneText == \A a, b \in DOMAIN reply :
             reply[a].kind = "text" /\ reply[b].kind = "text" => a = b

Init ==
  /\ api \in {"openai", "anthropic"} /\ streaming \in BOOLEAN /\ reply \in Replies
  /\ api = "openai" => OneText
  /\ phase = "ready" /\ attempt = 0
  /\ sent = [b \in DOMAIN reply |-> 0] /\ line = NoLine
  /\ text = <<>> /\ blocks = [b \in DOMAIN reply |-> NoBlock]
  /\ shown = <<>> /\ response = <<>>

\* Faulty variant: the attempts are not counted.
SendUncounted ==
  /\ phase \in {"ready", "backoff"}
  /\ phase' = "sent"
  /\ UNCHANGED <<callVars, attempt, readVars, response>>

\* retry_request sends, at once or after the backoff.
Send ==
  /\ phase \in {"ready", "backoff"}
  /\ attempt' = attempt + 1
  /\ phase' = "sent"
  /\ UNCHANGED <<callVars, readVars, response>>

\* A network error, or a status that may pass; the last one is reported.
TransientFailure ==
  /\ phase = "sent"
  /\ phase' = IF attempt < Attempts THEN "backoff" ELSE "failed"
  /\ UNCHANGED <<callVars, attempt, readVars, response>>

\* Any other status that is no success.
Refused ==
  /\ phase = "sent"
  /\ phase' = "failed"
  /\ UNCHANGED <<callVars, attempt, readVars, response>>

Accepted ==
  /\ phase = "sent"
  /\ phase' = "reading"
  /\ UNCHANGED <<callVars, attempt, readVars, response>>

\* complete: the whole body is there.
ReadWhole ==
  /\ phase = "reading" /\ ~streaming
  /\ response' = ParsedReply
  /\ phase' = "done"
  /\ UNCHANGED <<callVars, attempt, readVars>>

\* for_each_data gets the beginning of a line; the chunk may end with it, and
\* in the middle of a character.
LineBegins(b, cut) ==
  /\ phase = "reading" /\ streaming /\ line = NoLine
  /\ sent[b] <= reply[b].fragments
  /\ cut => Wide /\ sent[b] > 0 /\ ~reply[b].blank
  /\ line' = [of |-> b, n |-> sent[b], torn |-> cut]
  /\ sent' = [sent EXCEPT ![b] = @ + 1]
  /\ UNCHANGED <<callVars, sendVars, text, blocks, shown, response>>

\* Faulty variant: arguments go to the call that was started last.
ApplyToNewest(b, fragment) ==
  LET tool    == reply[b].kind = "tool"
      started == {i \in DOMAIN reply : blocks[i].tool # 0}
      newest  == CHOOSE i \in started : \A j \in started : j <= i
  IN  \/ /\ tool
         /\ blocks' = IF fragment.n = 0 THEN [blocks EXCEPT ![b].tool = b]
                      ELSE [blocks EXCEPT ![newest].json = Append(@, fragment)]
         /\ UNCHANGED <<text, shown>>
      \/ /\ ~tool
         /\ shown' = IF fragment.n = 0 THEN shown ELSE Append(shown, fragment)
         /\ text' = shown'
         /\ UNCHANGED blocks

\* apply_stream_delta and apply_event: the start of a call, a fragment of its
\* arguments, the start of a text (which tells nothing), a fragment of text.
Apply(b, fragment) ==
  LET tool == reply[b].kind = "tool"
  IN  \/ /\ tool /\ fragment.n = 0
         /\ blocks' = [blocks EXCEPT ![b].tool = b]
         /\ UNCHANGED <<text, shown>>
      \/ /\ tool /\ fragment.n > 0
         /\ blocks' = [blocks EXCEPT ![b].json = Append(@, fragment)]
         /\ UNCHANGED <<text, shown>>
      \/ /\ ~tool /\ fragment.n = 0
         /\ UNCHANGED <<text, blocks, shown>>
      \/ /\ ~tool /\ fragment.n > 0
         /\ shown' = Append(shown, fragment)
         /\ IF api = "openai"
              THEN text' = Append(text, fragment) /\ UNCHANGED blocks
              ELSE /\ blocks' = [blocks EXCEPT ![b].text = Append(@, fragment)]
                   /\ UNCHANGED text

LineEnds ==
  /\ phase = "reading" /\ line # NoLine
  /\ Apply(line.of, line)
  /\ line' = NoLine
  /\ UNCHANGED <<callVars, sendVars, sent, response>>

\* The stream ends without an error: with the last line, before it, or in the
\* middle of a line, which is then lost.
StreamEnds ==
  /\ phase = "reading" /\ streaming
  /\ response' = Assembled
  /\ phase' = "done"
  /\ UNCHANGED <<callVars, attempt, readVars>>

\* Faulty variant: the retries cover the body.
BodyFailsAndRetries ==
  /\ phase = "reading"
  /\ phase' = IF attempt < Attempts THEN "backoff" ELSE "failed"
  /\ sent' = [b \in DOMAIN reply |-> 0] /\ line' = NoLine
  /\ UNCHANGED <<callVars, attempt, text, blocks, shown, response>>

\* A network error in the middle of the body, a body that is no JSON, or the
\* timeout of the request.
BodyFails ==
  /\ phase = "reading"
  /\ phase' = "failed"
  /\ UNCHANGED <<callVars, attempt, readVars, response>>

Read == ReadWhole \/ (\E b \in DOMAIN reply, cut \in BOOLEAN : LineBegins(b, cut)) \/ LineEnds
          \/ StreamEnds \/ BodyFails

Next == Send \/ TransientFailure \/ Refused \/ Accepted \/ Read

Spec == Init /\ [][Next]_vars

\* The client's task goes on, and the timeout of a request bounds both the
\* wait for its status and the reading of its body.
FairSpec == Spec /\ WF_vars(Send) /\ WF_vars(TransientFailure) /\ WF_vars(BodyFails)

-----------------------------------------------------------------------------
\* The lines of block b that were read to their end, and how many of them
\* are fragments.
LinesOf(b) == IF line.of = b THEN sent[b] - 1 ELSE sent[b]
ReadOf(b)  == IF LinesOf(b) = 0 THEN 0 ELSE LinesOf(b) - 1

AllRead == line = NoLine /\ \A b \in DOMAIN reply : sent[b] = reply[b].fragments + 1

\* However the reply was cut into chunks and whatever came before it, the
\* user is shown the fragments of its text that were read, once, in order and
\* as they were sent (sse.rs, for_each_data; retry_request repeats nothing
\* that was shown).
StreamIsExact ==
  /\ \A i \in DOMAIN shown : \E b \in DOMAIN reply :
       reply[b].kind = "text" /\ \E n \in 1..ReadOf(b) : shown[i] = Fragment(b, n)
  /\ \A i, j \in DOMAIN shown :
       i < j /\ shown[i].of = shown[j].of => shown[i].n < shown[j].n
  /\ \A b \in DOMAIN reply : reply[b].kind = "text" =>
       \A n \in 1..ReadOf(b) : \E i \in DOMAIN shown : shown[i] = Fragment(b, n)

\* A response calls the tools the server called, all whose start was read,
\* each once, in its order and with its own arguments: whole, or replaced by
\* the fallback if the stream ended before the last of them.  A call that has
\* none is never given another's (apply_event, apply_stream_delta,
\* finish_stream, parse_response).
CallsAreMeant ==
  /\ \A i \in DOMAIN response : response[i].kind = "tool" =>
       LET b == response[i].tool
       IN  /\ b \in DOMAIN reply /\ reply[b].kind = "tool"
           /\ \A j \in 1..(i - 1) : response[j].kind = "tool" => response[j].tool < b
           /\ IF reply[b].fragments > 0 /\ (~streaming \/ ReadOf(b) = reply[b].fragments)
                THEN /\ response[i].input.is = "json"
                     /\ Len(response[i].input.of) = reply[b].fragments
                     /\ \A n \in DOMAIN response[i].input.of :
                          response[i].input.of[n].of = b /\ response[i].input.of[n].n = n
                ELSE response[i].input.is =
                       IF reply[b].absent /\ ~streaming THEN "none" ELSE "fallback"
  /\ phase = "done" =>
       \A b \in DOMAIN reply : reply[b].kind = "tool" /\ (streaming => LinesOf(b) > 0) =>
         \E i \in DOMAIN response : response[i].kind = "tool" /\ response[i].tool = b

\* t is what was shown of block b, in its order.
WhatWasShown(t, b) ==
  /\ {t[k] : k \in DOMAIN t} = {shown[p] : p \in {q \in DOMAIN shown : shown[q].of = b}}
  /\ \A k, l \in DOMAIN t : k < l => t[k].n < t[l].n

\* The texts that a streamed response leaves in the history are those the user
\* was shown, in the order of the blocks and without those of white space.
TextsAgree ==
  /\ \A i \in DOMAIN response : response[i].kind = "text" =>
       /\ response[i].text # <<>>
       /\ \E b \in DOMAIN reply : ~reply[b].blank /\ WhatWasShown(response[i].text, b)
       /\ \A j \in 1..(i - 1) : response[j].kind = "text" =>
            response[j].text[1].of < response[i].text[1].of
  /\ \A p \in DOMAIN shown : ~reply[shown[p].of].blank =>
       \E i \in DOMAIN response :
         response[i].kind = "text" /\ WhatWasShown(response[i].text, shown[p].of)

\* The blocks rs without texts of white space.
Solid(rs) == Seqs!FlattenSeq([i \in DOMAIN rs |->
               IF rs[i].kind = "text" THEN TextBlocks(rs[i].text) ELSE <<rs[i]>>])

\* A streamed response tells what was shown, and if the reply was read to its
\* end it is the response that the other method would have given, but for the
\* calls whose arguments are absent: of such a call a stream has the fallback,
\* {"_raw": ""} of openai and {} of anthropic, where a body has {} and null
\* (finish_stream against parse_response).
StreamAgrees ==
  phase = "done" /\ streaming =>
    /\ TextsAgree
    /\ ~Wide /\ AllRead =>
         /\ response = Solid(ReplyWith(StreamInputs))
         /\ (\A b \in DOMAIN reply : ~reply[b].absent) => response = Solid(ParsedReply)

\* A call ends, with a response or an error, whatever the network does.
CallEnds == <>(phase \in {"done", "failed"})
=============================================================================
