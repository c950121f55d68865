------------------------- MODULE ProviderCallProofs -------------------------
(***************************************************************************)
(* Theorems about ProviderCall: what the user is shown of a reply, and     *)
(* what the response makes of it, for any replies, in any interleaving of  *)
(* their lines, cut anywhere, ended anywhere, after any number of          *)
(* attempts.                                                               *)
(***************************************************************************)
EXTENDS ProviderCall, ListLemmas

USE ProviderAssumption

Blocks    == [kind : {"text", "tool"}, blank : BOOLEAN, absent : BOOLEAN, fragments : Nat]
Fragments == [of : Nat, n : Nat, torn : BOOLEAN]
Pending   == [text : Seq(Fragments), tool : Nat, json : Seq(Fragments)]
Phases    == {"ready", "sent", "backoff", "reading", "done", "failed"}

-----------------------------------------------------------------------------
(* The inductive invariant.                                                 *)

Types ==
  /\ api \in {"openai", "anthropic"} /\ streaming \in BOOLEAN
  /\ reply \in Seq(Blocks) /\ phase \in Phases
  /\ \A b \in DOMAIN reply : reply[b].absent => reply[b].fragments = 0
  /\ sent \in [DOMAIN reply -> Nat]
  /\ text \in Seq(Fragments) /\ shown \in Seq(Fragments)
  /\ blocks \in [DOMAIN reply -> Pending]

\* A line in the buffer is the last that came of its block.
Buffered ==
  line # NoLine =>
    /\ line \in Fragments /\ line.of \in DOMAIN reply
    /\ sent[line.of] = line.n + 1
    /\ line.torn => Wide

\* The network brings no more lines of a block than it has.
SentWithin == \A b \in DOMAIN reply : sent[b] <= reply[b].fragments + 1

\* fs is what was read of block b, in order.
Collected(fs, b) ==
  /\ Len(fs) = ReadOf(b)
  /\ \A n \in 1..Len(fs) : fs[n].of = b /\ fs[n].n = n /\ (fs[n].torn => Wide)

\* What is shown is of texts, was read, and stands in order; nothing that was
\* read is missing.
ShownInOrder ==
  /\ \A i \in 1..Len(shown) :
       /\ shown[i].of \in DOMAIN reply /\ reply[shown[i].of].kind = "text"
       /\ shown[i].n \in 1..ReadOf(shown[i].of)
       /\ shown[i].torn => Wide
  /\ \A i, j \in 1..Len(shown) :
       i < j /\ shown[i].of = shown[j].of => shown[i].n < shown[j].n
  /\ \A b \in DOMAIN reply : reply[b].kind = "text" =>
       \A n \in 1..ReadOf(b) : \E i \in 1..Len(shown) : shown[i].of = b /\ shown[i].n = n

\* The map has an entry for each call that was started, with its arguments as
\* far as they were read, and anthropic's has the texts that were shown.
CallHeld(b) ==
  /\ blocks[b].tool = IF LinesOf(b) > 0 THEN b ELSE 0
  /\ blocks[b].text = <<>>
  /\ Collected(blocks[b].json, b)

\* Nothing of a call is held of a text, and its fragments were shown.
TextHeld(b) ==
  /\ blocks[b].tool = 0 /\ blocks[b].json = <<>>
  /\ IF api = "openai" THEN blocks[b].text = <<>>
     ELSE /\ Collected(blocks[b].text, b)
          /\ \A n \in 1..Len(blocks[b].text) :
               \E i \in 1..Len(shown) : shown[i] = blocks[b].text[n]

\* openai collects its text in one place and calls in the map, anthropic has
\* all in the map.
Held ==
  /\ text = IF api = "openai" THEN shown ELSE <<>>
  /\ \A b \in DOMAIN reply : IF reply[b].kind = "tool" THEN CallHeld(b) ELSE TextHeld(b)

\* There is a response only at the end, and it tells of what is held.
Answered == response = IF phase # "done" THEN <<>>
                       ELSE IF streaming THEN Assembled ELSE ParsedReply

\* All of it together.
Inv ==
  /\ Types /\ Buffered /\ SentWithin /\ ShownInOrder /\ Held /\ Answered
  /\ api = "openai" => OneText

-----------------------------------------------------------------------------
(* The steps.                                                               *)

LEMMA InvInit == Init => Inv
<1> SUFFICES ASSUME Init PROVE Inv
  OBVIOUS
<1>1. /\ api \in {"openai", "anthropic"} /\ streaming \in BOOLEAN /\ reply \in Seq(Blocks)
      /\ api = "openai" => OneText
      /\ phase = "ready" /\ line = NoLine /\ text = <<>> /\ shown = <<>> /\ response = <<>>
      /\ sent = [b \in DOMAIN reply |-> 0] /\ blocks = [b \in DOMAIN reply |-> NoBlock]
  BY DEF Init, Blocks
<1>2. NoBlock \in Pending /\ NoBlock.tool = 0 /\ NoBlock.text = <<>> /\ NoBlock.json = <<>>
  BY DEF NoBlock, Pending
<1>3. DOMAIN reply = 1..Len(reply) /\ Len(reply) \in Nat
  BY <1>1
<1>4. \A b \in DOMAIN reply : sent[b] = 0 /\ blocks[b] = NoBlock
  BY <1>1
<1>5. \A b \in DOMAIN reply : LinesOf(b) = 0 /\ ReadOf(b) = 0
  BY <1>1, <1>3, <1>4 DEF LinesOf, ReadOf, NoLine
<1>6. Types
  <2>1. sent \in [DOMAIN reply -> Nat] /\ blocks \in [DOMAIN reply -> Pending]
    BY <1>1, <1>2
  <2>2. \A b \in DOMAIN reply : reply[b].absent => reply[b].fragments = 0
    BY ProviderAssumption DEF Init
  <2>3. line \in Fragments \cup {NoLine} /\ shown \in Seq(Fragments) /\ text \in Seq(Fragments)
    BY <1>1
  <2> QED BY <1>1, <2>1, <2>2, <2>3 DEF Types, Phases
<1>7. Buffered
  BY <1>1 DEF Buffered
<1>8. SentWithin
  <2> SUFFICES ASSUME NEW b \in DOMAIN reply PROVE sent[b] <= reply[b].fragments + 1
    BY DEF SentWithin
  <2>1. reply[b] \in Blocks
    BY <1>1
  <2>2. reply[b].fragments \in Nat
    BY <2>1 DEF Blocks
  <2> QED BY <1>4, <2>2
<1>9. Len(shown) = 0
  BY <1>1
<1>10. ShownInOrder
  BY <1>5, <1>9 DEF ShownInOrder
<1>11. ASSUME NEW b \in DOMAIN reply PROVE Collected(<<>>, b)
  <2>1. Len(<<>>) = 0
    OBVIOUS
  <2> QED BY <1>5, <2>1 DEF Collected
<1>12. Held
  <2>1. ASSUME NEW b \in DOMAIN reply PROVE CallHeld(b) /\ TextHeld(b)
    <3>1. blocks[b].tool = 0 /\ blocks[b].text = <<>> /\ blocks[b].json = <<>>
      BY <1>2, <1>4
    <3>2. Len(blocks[b].text) = 0
      BY <3>1
    <3> QED BY <1>5, <1>11, <3>1, <3>2 DEF CallHeld, TextHeld
  <2> QED BY <1>1, <2>1 DEF Held
<1>13. Answered
  BY <1>1 DEF Answered
<1> QED BY <1>1, <1>6, <1>7, <1>8, <1>10, <1>12, <1>13 DEF Inv

\* Where the reading stands still, all but the answer does.
LEMMA Unread ==
  ASSUME Inv, UNCHANGED <<callVars, readVars>>, phase' \in Phases
  PROVE  /\ Answered' => Inv'
         /\ Assembled' = Assembled /\ ParsedReply' = ParsedReply
<1>1. UNCHANGED <<api, streaming, reply, sent, line, text, blocks, shown>>
  BY DEF callVars, readVars
<1>2. Types'
  BY <1>1 DEF Inv, Types
<1>3. Buffered' /\ SentWithin'
  BY <1>1 DEF Inv, Buffered, SentWithin
<1>4. \A b : LinesOf(b)' = LinesOf(b) /\ ReadOf(b)' = ReadOf(b)
  BY <1>1 DEF LinesOf, ReadOf
<1>5. ShownInOrder'
  BY <1>1 DEF Inv, ShownInOrder, ReadOf, LinesOf
<1>6. Held'
  BY <1>1 DEF Inv, Held, CallHeld, TextHeld, Collected, ReadOf, LinesOf
<1>7. (api = "openai" => OneText)'
  BY <1>1 DEF Inv, OneText
<1>8. Assembled' = Assembled
  BY <1>1 DEF Assembled, TextBlocks, TextBlock, ToolBlock, Parsed, Whole
<1>9. ParsedReply' = ParsedReply
  BY <1>1 DEF ParsedReply, ReplyWith, BodyInputs, NoInput, TextBlocks, TextBlock, ToolBlock, Parsed, Whole
<1> QED BY <1>2, <1>3, <1>5, <1>6, <1>7, <1>8, <1>9 DEF Inv

\* The attempts, and the end.
LEMMA OtherStep ==
  ASSUME Inv, Send \/ TransientFailure \/ Refused \/ Accepted \/ BodyFails
  PROVE  Inv'
<1>1. /\ UNCHANGED <<callVars, readVars>> /\ UNCHANGED response
      /\ phase # "done" /\ phase' # "done" /\ phase' \in Phases
  BY DEF Send, TransientFailure, Refused, Accepted, BodyFails, Phases
<1>2. Answered'
  BY <1>1 DEF Inv, Answered
<1> QED BY <1>1, <1>2, Unread

LEMMA EndStep ==
  ASSUME Inv, ReadWhole \/ StreamEnds PROVE Inv'
<1>1. /\ UNCHANGED <<callVars, readVars>> /\ phase' = "done" /\ phase' \in Phases
      /\ response' = IF streaming THEN Assembled ELSE ParsedReply
  BY DEF ReadWhole, StreamEnds, Phases
<1>2. Assembled' = Assembled /\ ParsedReply' = ParsedReply /\ streaming' = streaming
  BY <1>1, Unread DEF callVars
<1>3. Answered'
  BY <1>1, <1>2 DEF Answered
<1> QED BY <1>1, <1>3, Unread

LEMMA StutterStep ==
  ASSUME Inv, UNCHANGED vars PROVE Inv'
<1>1. /\ UNCHANGED <<callVars, readVars>> /\ phase' = phase /\ response' = response
      /\ streaming' = streaming /\ phase' \in Phases
  BY DEF vars, callVars, sendVars, Inv, Types
<1>2. Assembled' = Assembled /\ ParsedReply' = ParsedReply
  BY <1>1, Unread
<1>3. Answered'
  BY <1>1, <1>2 DEF Inv, Answered
<1> QED BY <1>1, <1>3, Unread

\* The indices of blocks, and what the buffer holds.
LEMMA Facts ==
  ASSUME Inv
  PROVE  /\ \A b \in DOMAIN reply :
              /\ b \in Nat \ {0} /\ reply[b] \in Blocks /\ sent[b] \in Nat
              /\ sent[b] <= reply[b].fragments + 1 /\ reply[b].fragments \in Nat
              /\ LinesOf(b) \in Nat /\ ReadOf(b) \in Nat
              /\ ReadOf(b) = IF LinesOf(b) = 0 THEN 0 ELSE LinesOf(b) - 1
              /\ ReadOf(b) <= reply[b].fragments
         /\ line # NoLine => line \in Fragments /\ line.of \in DOMAIN reply
<1>1. /\ reply \in Seq(Blocks) /\ sent \in [DOMAIN reply -> Nat]
      /\ DOMAIN reply = 1..Len(reply) /\ Len(reply) \in Nat
  BY DEF Inv, Types
<1>2. line # NoLine => line \in Fragments /\ line.of \in DOMAIN reply
  BY DEF Inv, Buffered
<1>3. ASSUME NEW b \in DOMAIN reply
      PROVE  /\ b \in Nat \ {0} /\ reply[b] \in Blocks /\ sent[b] \in Nat
             /\ sent[b] <= reply[b].fragments + 1 /\ reply[b].fragments \in Nat
             /\ LinesOf(b) \in Nat /\ LinesOf(b) <= sent[b]
  <2>1. b \in Nat \ {0} /\ reply[b] \in Blocks /\ sent[b] \in Nat
    BY <1>1
  <2>2. sent[b] <= reply[b].fragments + 1 /\ reply[b].fragments \in Nat
    BY <2>1 DEF Inv, SentWithin, Blocks
  <2>3. CASE line = NoLine
    BY <2>1, <2>2, <2>3 DEF LinesOf, NoLine
  <2>4. CASE line # NoLine
    <3>1. line.n \in Nat /\ sent[line.of] = line.n + 1
      BY <2>4 DEF Inv, Buffered, Fragments
    <3> QED BY <2>1, <2>2, <3>1 DEF LinesOf
  <2> QED BY <2>3, <2>4
<1>4. ASSUME NEW b \in DOMAIN reply
      PROVE  /\ ReadOf(b) \in Nat /\ ReadOf(b) <= reply[b].fragments
             /\ ReadOf(b) = IF LinesOf(b) = 0 THEN 0 ELSE LinesOf(b) - 1
  <2> DEFINE l == LinesOf(b)
             s == sent[b]
             f == reply[b].fragments
             r == ReadOf(b)
  <2>1. l \in Nat /\ s \in Nat /\ f \in Nat /\ l <= s /\ s <= f + 1
    BY <1>3
  <2>2. r = IF l = 0 THEN 0 ELSE l - 1
    BY DEF ReadOf
  <2> HIDE DEF l, s, f, r
  <2>3. r \in Nat /\ r <= f
    BY <2>1, <2>2
  <2> QED BY <2>2, <2>3 DEF l, f, r
<1> QED BY <1>2, <1>3, <1>4

\* A line begins: nothing of it counts before its end.
LEMMA BeginStep ==
  ASSUME Inv, NEW b \in DOMAIN reply, NEW cut \in BOOLEAN, LineBegins(b, cut)
  PROVE  Inv'
<1>1. /\ UNCHANGED <<api, streaming, reply, phase, text, blocks, shown, response>>
      /\ line = NoLine /\ sent[b] <= reply[b].fragments /\ (cut => Wide)
      /\ line' = [of |-> b, n |-> sent[b], torn |-> cut]
      /\ sent' = [sent EXCEPT ![b] = @ + 1]
      /\ phase # "done" /\ phase' # "done"
  BY DEF LineBegins, callVars, sendVars
<1>2. \A c \in DOMAIN reply : c \in Nat \ {0} /\ sent[c] \in Nat /\ reply[c].fragments \in Nat
  BY Facts
<1>3. sent \in [DOMAIN reply -> Nat]
  BY DEF Inv, Types
<1>4. sent'[b] = sent[b] + 1 /\ \A c \in DOMAIN reply : c # b => sent'[c] = sent[c]
  BY <1>1, <1>3
<1>5. line'.of = b /\ line'.n = sent[b] /\ line'.torn = cut /\ line' # NoLine
  BY <1>1, <1>2 DEF NoLine
<1>6. ASSUME NEW c \in DOMAIN reply PROVE LinesOf(c)' = LinesOf(c) /\ ReadOf(c)' = ReadOf(c)
  <2>1. line.of # c
    BY <1>1, <1>2 DEF NoLine
  <2>2. (sent[c] + 1) - 1 = sent[c]
    BY <1>2
  <2>3. LinesOf(c)' = LinesOf(c)
    BY <1>4, <1>5, <2>1, <2>2 DEF LinesOf
  <2> QED BY <2>3 DEF ReadOf
<1>7. Types'
  <2>1. sent' \in [DOMAIN reply -> Nat]
    <3>1. sent[b] + 1 \in Nat
      BY <1>2
    <3> QED BY <1>1, <1>3, <3>1
  <2> QED BY <1>1, <2>1 DEF Inv, Types
<1>8. Buffered'
  <2>1. line' \in Fragments
    BY <1>1, <1>2 DEF Fragments
  <2> QED BY <1>1, <1>4, <1>5, <2>1 DEF Buffered
<1>9. SentWithin'
  <2>1. ASSUME NEW c \in DOMAIN reply PROVE sent'[c] <= reply[c].fragments + 1
    <3>1. sent[c] <= reply[c].fragments + 1
      BY DEF Inv, SentWithin
    <3> QED BY <1>1, <1>2, <1>4, <3>1
  <2> QED BY <1>1, <2>1 DEF SentWithin
<1>10. ShownInOrder'
  <2>1. \A i \in 1..Len(shown) : shown[i].of \in DOMAIN reply
    BY DEF Inv, ShownInOrder
  <2>2. ShownInOrder
    BY DEF Inv
  <2>3. \A i \in 1..Len(shown) : shown[i].n \in 1..ReadOf(shown[i].of)'
    <3> SUFFICES ASSUME NEW i \in 1..Len(shown) PROVE shown[i].n \in 1..ReadOf(shown[i].of)'
      OBVIOUS
    <3>1. PICK c \in DOMAIN reply : c = shown[i].of
      BY <2>1
    <3>2. shown[i].n \in 1..ReadOf(c) /\ ReadOf(c)' = ReadOf(c)
      BY <1>6, <2>2, <3>1 DEF ShownInOrder
    <3>3. shown[i].n \in 1..ReadOf(c)'
      BY <3>2
    <3> QED BY <1>1, <3>1, <3>3 DEF ReadOf, LinesOf
  <2>4. \A c \in DOMAIN reply : reply[c].kind = "text" =>
          \A n \in 1..ReadOf(c)' : \E i \in 1..Len(shown) : shown[i].of = c /\ shown[i].n = n
    BY <1>6, <2>2 DEF ShownInOrder
  <2>5. /\ \A i \in 1..Len(shown) :
             /\ shown[i].of \in DOMAIN reply /\ reply[shown[i].of].kind = "text"
             /\ shown[i].torn => Wide
        /\ \A i, j \in 1..Len(shown) :
             i < j /\ shown[i].of = shown[j].of => shown[i].n < shown[j].n
    BY <2>2 DEF ShownInOrder
  <2>6. shown' = shown /\ reply' = reply
    BY <1>1
  <2>7. \A i \in 1..Len(shown') :
          /\ shown'[i].of \in DOMAIN reply /\ reply[shown'[i].of].kind = "text"
          /\ shown'[i].n \in 1..ReadOf(shown[i].of)'
          /\ shown'[i].torn => Wide
    BY <2>3, <2>5, <2>6
  <2>8. \A i, j \in 1..Len(shown') :
          i < j /\ shown'[i].of = shown'[j].of => shown'[i].n < shown'[j].n
    BY <2>5, <2>6
  <2>9. \A c \in DOMAIN reply : reply[c].kind = "text" =>
          \A n \in 1..ReadOf(c)' : \E i \in 1..Len(shown') : shown'[i].of = c /\ shown'[i].n = n
    BY <2>4, <2>6
  <2> QED BY <2>6, <2>7, <2>8, <2>9, Zenon DEF ShownInOrder
<1>11. Held'
  <2>1. ASSUME NEW c \in DOMAIN reply, reply[c].kind = "tool" PROVE CallHeld(c)'
    <3>1. CallHeld(c)
      BY <2>1 DEF Inv, Held
    <3>2. Collected(blocks[c].json, c)'
      BY <1>1, <1>6, <3>1 DEF CallHeld, Collected
    <3> QED BY <1>1, <1>6, <3>1, <3>2 DEF CallHeld
  <2>2. ASSUME NEW c \in DOMAIN reply, reply[c].kind # "tool" PROVE TextHeld(c)'
    <3>1. TextHeld(c)
      BY <2>2 DEF Inv, Held
    <3>2. Collected(blocks[c].text, c) => Collected(blocks[c].text, c)'
      BY <1>1, <1>6, <3>1 DEF Collected
    <3> QED BY <1>1, <3>1, <3>2 DEF TextHeld
  <2> QED BY <1>1, <2>1, <2>2 DEF Inv, Held
<1>12. Answered'
  BY <1>1 DEF Inv, Answered
<1>13. (api = "openai" => OneText)'
  BY <1>1 DEF Inv, OneText
<1> QED BY <1>7, <1>8, <1>9, <1>10, <1>11, <1>12, <1>13 DEF Inv

\* One fragment more.
LEMMA AppendFragment ==
  ASSUME NEW fs \in Seq(Fragments), NEW f \in Fragments
  PROVE  LET more == Append(fs, f)
         IN  /\ more \in Seq(Fragments) /\ Len(more) = Len(fs) + 1 /\ Len(fs) \in Nat
             /\ \A n \in 1..Len(fs) : more[n] = fs[n]
             /\ more[Len(fs) + 1] = f
             /\ \A n \in 1..(Len(fs) + 1) : n \in 1..Len(fs) \/ n = Len(fs) + 1
             /\ \A n \in 1..Len(fs) : n \in 1..(Len(fs) + 1)
             /\ Len(fs) + 1 \in 1..(Len(fs) + 1)
<1>1. Len(fs) \in Nat
  OBVIOUS
<1>2. /\ \A n \in 1..(Len(fs) + 1) : n \in 1..Len(fs) \/ n = Len(fs) + 1
      /\ \A n \in 1..Len(fs) : n \in 1..(Len(fs) + 1)
      /\ Len(fs) + 1 \in 1..(Len(fs) + 1)
  BY <1>1
<1> QED BY <1>1, <1>2, AppendProperties

\* A line is read: the start of its block, or its next fragment.
LEMMA LineEndsFacts ==
  ASSUME Inv, LineEnds, NEW b, b = line.of
  PROVE  /\ b \in DOMAIN reply /\ line \in Fragments /\ (line.torn => Wide)
         /\ line' = NoLine
         /\ UNCHANGED <<api, streaming, reply, phase, sent, response>>
         /\ LinesOf(b) = line.n /\ LinesOf(b)' = line.n + 1 /\ ReadOf(b)' = line.n
         /\ line.n # 0 => ReadOf(b) = line.n - 1
         /\ \A c \in DOMAIN reply \ {b} : LinesOf(c)' = LinesOf(c) /\ ReadOf(c)' = ReadOf(c)
<1>1. /\ line # NoLine /\ line' = NoLine
      /\ UNCHANGED <<api, streaming, reply, phase, sent, response>>
  BY DEF LineEnds, callVars, sendVars
<1>2. /\ line \in Fragments /\ b \in DOMAIN reply /\ sent[b] = line.n + 1 /\ (line.torn => Wide)
      /\ line.n \in Nat
  BY <1>1 DEF Inv, Buffered, Fragments
<1>3. \A c \in DOMAIN reply : c \in Nat \ {0} /\ sent[c] \in Nat
  BY Facts
<1>4. LinesOf(b) = line.n
  BY <1>2 DEF LinesOf
<1>5. \A c \in DOMAIN reply : LinesOf(c)' = sent[c]
  BY <1>1, <1>3 DEF LinesOf, NoLine
<1>6. LinesOf(b)' = line.n + 1 /\ ReadOf(b)' = line.n
  <2>1. LinesOf(b)' = line.n + 1
    BY <1>2, <1>5
  <2> QED BY <1>2, <2>1 DEF ReadOf
<1>7. line.n # 0 => ReadOf(b) = line.n - 1
  BY <1>4 DEF ReadOf
<1>8. ASSUME NEW c \in DOMAIN reply \ {b} PROVE LinesOf(c)' = LinesOf(c) /\ ReadOf(c)' = ReadOf(c)
  <2>1. LinesOf(c)' = LinesOf(c)
    BY <1>5, <1>8 DEF LinesOf
  <2> QED BY <2>1 DEF ReadOf
<1> QED BY <1>1, <1>2, <1>4, <1>5, <1>6, <1>7, <1>8

\* What was collected of other blocks stays, and the fragment follows what was
\* collected of its own.
LEMMA CollectedGrows ==
  ASSUME Inv, LineEnds, line.n # 0, NEW fs \in Seq(Fragments), Collected(fs, line.of)
  PROVE  /\ Append(fs, line) \in Seq(Fragments)
         /\ Len(Append(fs, line)) = line.n
         /\ \A n \in 1..line.n : /\ Append(fs, line)[n].of = line.of
                                 /\ Append(fs, line)[n].n = n
                                 /\ Append(fs, line)[n].torn => Wide
<1>0. PICK b : b = line.of
  OBVIOUS
<1> DEFINE more == Append(fs, line)
           k == Len(fs)
<1>1. /\ line \in Fragments /\ (line.torn => Wide) /\ ReadOf(b) = line.n - 1 /\ line.n \in Nat
  BY <1>0, LineEndsFacts DEF Fragments
<1>2. k = line.n - 1
  BY <1>0, <1>1 DEF Collected
<1>3. /\ more \in Seq(Fragments) /\ Len(more) = k + 1 /\ k \in Nat
      /\ \A n \in 1..k : more[n] = fs[n]
      /\ more[k + 1] = line
      /\ \A n \in 1..(k + 1) : n \in 1..k \/ n = k + 1
  BY <1>1, AppendFragment
<1>4. k + 1 = line.n
  BY <1>1, <1>2
<1>5. \A n \in 1..k : fs[n].of = b /\ fs[n].n = n /\ (fs[n].torn => Wide)
  BY <1>0 DEF Collected
<1> HIDE DEF more, k
<1>6. \A n \in 1..line.n : /\ more[n].of = b /\ more[n].n = n /\ (more[n].torn => Wide)
  BY <1>0, <1>1, <1>3, <1>4, <1>5
<1> QED BY <1>0, <1>3, <1>4, <1>6 DEF more

\* Of a call, its entry changes alone.
LEMMA CallLineStep ==
  ASSUME Inv, LineEnds, reply[line.of].kind = "tool" PROVE Inv'
<1>0. PICK b : b = line.of
  OBVIOUS
<1>1. /\ b \in DOMAIN reply /\ line \in Fragments /\ (line.torn => Wide)
      /\ line' = NoLine
      /\ UNCHANGED <<api, streaming, reply, phase, sent, response>>
      /\ LinesOf(b) = line.n /\ LinesOf(b)' = line.n + 1 /\ ReadOf(b)' = line.n
      /\ line.n # 0 => ReadOf(b) = line.n - 1
      /\ \A c \in DOMAIN reply \ {b} : LinesOf(c)' = LinesOf(c) /\ ReadOf(c)' = ReadOf(c)
  BY <1>0, LineEndsFacts
<1>2. line.n \in Nat /\ b \in Nat \ {0}
  BY <1>1, Facts DEF Fragments
<1>3. UNCHANGED <<text, shown>> /\ phase # "done"
  BY DEF LineEnds, Apply
<1>4. blocks' = IF line.n = 0 THEN [blocks EXCEPT ![b].tool = b]
                ELSE [blocks EXCEPT ![b].json = Append(@, line)]
  BY <1>0, <1>2 DEF LineEnds, Apply
<1>5. blocks \in [DOMAIN reply -> Pending] /\ blocks[b] \in Pending
  BY <1>1 DEF Inv, Types
<1>6. /\ blocks[b].tool = (IF LinesOf(b) > 0 THEN b ELSE 0) /\ blocks[b].text = <<>>
      /\ Collected(blocks[b].json, b) /\ blocks[b].json \in Seq(Fragments)
  BY <1>0, <1>1, <1>5 DEF Inv, Held, CallHeld, Pending
<1> DEFINE new == IF line.n = 0 THEN [blocks[b] EXCEPT !.tool = b]
                  ELSE [blocks[b] EXCEPT !.json = Append(blocks[b].json, line)]
<1>7. blocks' = [blocks EXCEPT ![b] = new]
  BY <1>4
<1>8. /\ new \in Pending /\ new.tool = b /\ new.text = <<>>
      /\ Len(new.json) = line.n
      /\ \A n \in 1..line.n :
           new.json[n].of = b /\ new.json[n].n = n /\ (new.json[n].torn => Wide)
  <2>1. CASE line.n = 0
    <3>1. new = [blocks[b] EXCEPT !.tool = b]
      BY <2>1
    <3>2. Len(blocks[b].json) = 0
      BY <1>1, <1>6, <2>1 DEF Collected, ReadOf
    <3> HIDE DEF new
    <3>3. new.json = blocks[b].json /\ new.tool = b /\ new.text = blocks[b].text
          /\ new \in Pending
      BY <1>2, <1>5, <3>1 DEF Pending
    <3> QED BY <1>6, <2>1, <3>2, <3>3
  <2>2. CASE line.n # 0
    <3> DEFINE more == Append(blocks[b].json, line)
    <3>1. new = [blocks[b] EXCEPT !.json = more]
      BY <2>2
    <3>2. /\ more \in Seq(Fragments) /\ Len(more) = line.n
          /\ \A n \in 1..line.n : more[n].of = b /\ more[n].n = n /\ (more[n].torn => Wide)
      BY <1>0, <1>6, <2>2, CollectedGrows
    <3> HIDE DEF more, new
    <3>3. new.json = more /\ new.tool = blocks[b].tool /\ new.text = blocks[b].text
          /\ new \in Pending
      BY <1>5, <3>1, <3>2 DEF Pending
    <3>4. blocks[b].tool = b
      BY <1>1, <1>2, <1>6, <2>2
    <3> QED BY <1>6, <3>2, <3>3, <3>4
  <2> QED BY <2>1, <2>2
<1> HIDE DEF new
<1>9. blocks' \in [DOMAIN reply -> Pending] /\ blocks'[b] = new
      /\ \A c \in DOMAIN reply : c # b => blocks'[c] = blocks[c]
  BY <1>1, <1>5, <1>7, <1>8
<1>10. Types'
  BY <1>1, <1>3, <1>9 DEF Inv, Types
<1>11. Buffered' /\ SentWithin' /\ Answered' /\ (api = "openai" => OneText)'
  BY <1>1, <1>3 DEF Inv, Buffered, SentWithin, Answered, OneText
<1>12. ShownInOrder'
  <2>1. \A i \in 1..Len(shown) : shown[i].of \in DOMAIN reply \ {b}
    BY <1>0 DEF Inv, ShownInOrder
  <2>2. \A c \in DOMAIN reply : reply[c].kind = "text" => c \in DOMAIN reply \ {b}
    BY <1>0
  <2> QED BY <1>1, <1>3, <2>1, <2>2 DEF Inv, ShownInOrder
<1>13. CallHeld(b)'
  <2>1. LinesOf(b)' > 0
    BY <1>1, <1>2
  <2>2. Collected(blocks[b].json, b)'
    BY <1>1, <1>8, <1>9 DEF Collected
  <2> QED BY <1>8, <1>9, <2>1, <2>2 DEF CallHeld
<1>14. ASSUME NEW c \in DOMAIN reply, c # b
       PROVE  IF reply[c].kind = "tool" THEN CallHeld(c)' ELSE TextHeld(c)'
  <2>1. blocks'[c] = blocks[c] /\ LinesOf(c)' = LinesOf(c) /\ ReadOf(c)' = ReadOf(c)
    BY <1>1, <1>9, <1>14
  <2>2. IF reply[c].kind = "tool" THEN CallHeld(c) ELSE TextHeld(c)
    BY DEF Inv, Held
  <2> QED BY <1>1, <1>3, <2>1, <2>2 DEF CallHeld, TextHeld, Collected
<1>15. Held'
  BY <1>0, <1>1, <1>3, <1>13, <1>14 DEF Inv, Held
<1> QED BY <1>10, <1>11, <1>12, <1>15 DEF Inv

\* A fragment of text that is appended to what is shown keeps it in order.
LEMMA TextLineStep ==
  ASSUME Inv, LineEnds, reply[line.of].kind = "text" PROVE Inv'
<1>0. PICK b : b = line.of
  OBVIOUS
<1>1. /\ b \in DOMAIN reply /\ line \in Fragments /\ (line.torn => Wide)
      /\ line' = NoLine
      /\ UNCHANGED <<api, streaming, reply, phase, sent, response>>
      /\ LinesOf(b) = line.n /\ LinesOf(b)' = line.n + 1 /\ ReadOf(b)' = line.n
      /\ line.n # 0 => ReadOf(b) = line.n - 1
      /\ \A c \in DOMAIN reply \ {b} : LinesOf(c)' = LinesOf(c) /\ ReadOf(c)' = ReadOf(c)
  BY <1>0, LineEndsFacts
<1>2. line.n \in Nat /\ b \in Nat \ {0} /\ \A c \in DOMAIN reply : ReadOf(c) \in Nat
  BY <1>1, Facts DEF Fragments
<1>3. phase # "done" /\ reply[b].kind # "tool"
  BY <1>0 DEF LineEnds
<1>4. Buffered' /\ SentWithin' /\ Answered' /\ (api = "openai" => OneText)'
  BY <1>1, <1>3 DEF Inv, Buffered, SentWithin, Answered, OneText
<1>5. blocks \in [DOMAIN reply -> Pending] /\ blocks[b] \in Pending
      /\ text \in Seq(Fragments) /\ shown \in Seq(Fragments) /\ blocks[b].text \in Seq(Fragments)
  BY <1>1 DEF Inv, Types, Pending
<1>6. text = IF api = "openai" THEN shown ELSE <<>>
  BY DEF Inv, Held
<1>7. /\ blocks[b].tool = 0 /\ blocks[b].json = <<>>
      /\ IF api = "openai" THEN blocks[b].text = <<>>
         ELSE /\ Collected(blocks[b].text, b)
              /\ \A n \in 1..Len(blocks[b].text) :
                   \E i \in 1..Len(shown) : shown[i] = blocks[b].text[n]
  BY <1>1, <1>3 DEF Inv, Held, TextHeld
<1>8. CASE line.n = 0
  <2>1. UNCHANGED <<text, blocks, shown>>
    BY <1>0, <1>3, <1>8 DEF LineEnds, Apply
  <2>2. ReadOf(b) = 0 /\ ReadOf(b)' = 0
    BY <1>1, <1>8 DEF ReadOf
  <2>3. \A c \in DOMAIN reply : ReadOf(c)' = ReadOf(c)
    BY <1>1, <2>2
  <2>4. Types'
    BY <1>1, <2>1 DEF Inv, Types
  <2>5. ShownInOrder'
    <3>1. \A i \in 1..Len(shown) : shown[i].of \in DOMAIN reply
      BY DEF Inv, ShownInOrder
    <3> QED BY <1>1, <2>1, <2>3, <3>1 DEF Inv, ShownInOrder
  <2>6. ASSUME NEW c \in DOMAIN reply
        PROVE  IF reply[c].kind = "tool" THEN CallHeld(c)' ELSE TextHeld(c)'
    <3>1. IF reply[c].kind = "tool" THEN CallHeld(c) ELSE TextHeld(c)
      BY DEF Inv, Held
    <3>2. reply[c].kind = "tool" => LinesOf(c)' = LinesOf(c)
      BY <1>1, <1>3
    <3> QED BY <1>1, <2>1, <2>3, <3>1, <3>2 DEF CallHeld, TextHeld, Collected
  <2>7. Held'
    BY <1>1, <1>6, <2>1, <2>6 DEF Held
  <2> QED BY <1>4, <2>4, <2>5, <2>7 DEF Inv
<1>9. CASE line.n # 0
  <2> DEFINE more == Append(shown, line)
             k == Len(shown)
  <2>1. /\ shown' = more
        /\ IF api = "openai" THEN text' = Append(text, line) /\ UNCHANGED blocks
           ELSE /\ blocks' = [blocks EXCEPT ![b].text = Append(@, line)]
                /\ UNCHANGED text
    BY <1>0, <1>2, <1>3, <1>9 DEF LineEnds, Apply
  <2>2. /\ more \in Seq(Fragments) /\ Len(more) = k + 1 /\ k \in Nat
        /\ \A n \in 1..k : more[n] = shown[n]
        /\ more[k + 1] = line
        /\ \A n \in 1..(k + 1) : n \in 1..k \/ n = k + 1
        /\ \A n \in 1..k : n \in 1..(k + 1)
        /\ k + 1 \in 1..(k + 1)
    BY <1>1, <1>5, AppendFragment
  <2> DEFINE old == blocks[b].text
             new == [blocks[b] EXCEPT !.text = Append(old, line)]
  <2>3. api # "openai" =>
          /\ Append(old, line) \in Seq(Fragments) /\ Len(Append(old, line)) = line.n
          /\ \A n \in 1..line.n : /\ Append(old, line)[n].of = b /\ Append(old, line)[n].n = n
                                  /\ Append(old, line)[n].torn => Wide
    <3> SUFFICES ASSUME api # "openai"
                 PROVE  /\ Append(old, line) \in Seq(Fragments) /\ Len(Append(old, line)) = line.n
                        /\ \A n \in 1..line.n : /\ Append(old, line)[n].of = b
                                                /\ Append(old, line)[n].n = n
                                                /\ Append(old, line)[n].torn => Wide
      OBVIOUS
    <3>1. old \in Seq(Fragments) /\ Collected(old, line.of)
      BY <1>0, <1>5, <1>7
    <3> HIDE DEF old
    <3> QED BY <1>0, <1>9, <3>1, CollectedGrows
  <2>4. \A n \in 1..(Len(old) + 1) : \/ n \in 1..Len(old) /\ Append(old, line)[n] = old[n]
                                     \/ Append(old, line)[n] = line
    BY <1>1, <1>5, AppendFragment
  <2>5. Len(Append(old, line)) = Len(old) + 1
    BY <1>1, <1>5, AppendFragment
  <2> DEFINE longer == Append(old, line)
  <2>6. /\ longer \in Seq(Fragments) /\ new.text = longer /\ new \in Pending
        /\ new.tool = 0 /\ new.json = <<>>
    <3>1. longer \in Seq(Fragments)
      BY <1>1, <1>5, AppendFragment
    <3> HIDE DEF longer
    <3>2. new = [blocks[b] EXCEPT !.text = longer]
      BY DEF longer
    <3> HIDE DEF new
    <3> QED BY <1>5, <1>7, <3>1, <3>2 DEF Pending
  <2> HIDE DEF more, k
  <2>7. blocks' = IF api = "openai" THEN blocks ELSE [blocks EXCEPT ![b] = new]
    BY <2>1
  <2> HIDE DEF new
  <2>8. /\ blocks' \in [DOMAIN reply -> Pending]
        /\ \A c \in DOMAIN reply : c # b => blocks'[c] = blocks[c]
        /\ blocks'[b] = IF api = "openai" THEN blocks[b] ELSE new
    BY <1>1, <1>5, <2>6, <2>7
  <2>9. text' = IF api = "openai" THEN shown' ELSE <<>>
    BY <1>6, <2>1 DEF more
  <2>10. Types'
    <3>1. shown' \in Seq(Fragments) /\ text' \in Seq(Fragments)
      BY <1>5, <2>1, <2>2, <2>9
    <3> QED BY <1>1, <2>8, <3>1 DEF Inv, Types
  <2>11. \A c \in DOMAIN reply : ReadOf(c) <= ReadOf(c)'
    BY <1>1, <1>2, <1>9
  <2>12. ShownInOrder'
    <3>1. /\ \A i \in 1..k : /\ shown[i].of \in DOMAIN reply /\ reply[shown[i].of].kind = "text"
                             /\ shown[i].n \in 1..ReadOf(shown[i].of)
                             /\ shown[i].torn => Wide
          /\ \A i, j \in 1..k :
               i < j /\ shown[i].of = shown[j].of => shown[i].n < shown[j].n
          /\ \A c \in DOMAIN reply : reply[c].kind = "text" =>
               \A n \in 1..ReadOf(c) : \E i \in 1..k : shown[i].of = c /\ shown[i].n = n
      BY DEF Inv, ShownInOrder, k
    <3>2. line.n \in 1..line.n
      BY <1>2, <1>9
    <3>3. \A m, r, q \in Nat : m \in 1..r /\ r <= q => m \in 1..q
      OBVIOUS
    <3>4. \A i \in 1..k : shown[i].n \in Nat
      BY <3>1
    <3>5. ASSUME NEW c \in DOMAIN reply PROVE ReadOf(c)' \in Nat
      BY <1>1, <1>2
    <3>6. ASSUME NEW i \in 1..(k + 1)
          PROVE  /\ more[i].of \in DOMAIN reply /\ reply[more[i].of].kind = "text"
                 /\ \A c : c = more[i].of => more[i].n \in 1..ReadOf(c)'
                 /\ more[i].torn => Wide
      <4>1. CASE i \in 1..k
        <5>1. PICK c \in DOMAIN reply : c = shown[i].of
          BY <3>1, <4>1
        <5>2. shown[i].n \in 1..ReadOf(c)'
          BY <1>2, <2>11, <3>1, <3>3, <3>4, <3>5, <4>1, <5>1
        <5> QED BY <2>2, <3>1, <4>1, <5>1, <5>2
      <4>2. CASE i = k + 1
        BY <1>0, <1>1, <2>2, <3>2, <4>2
      <4> QED BY <2>2, <4>1, <4>2
    <3>7. ASSUME NEW i \in 1..(k + 1), NEW j \in 1..(k + 1), i < j, more[i].of = more[j].of
          PROVE  more[i].n < more[j].n
      <4>1. i \in 1..k
        BY <2>2, <3>7
      <4>2. CASE j \in 1..k
        BY <2>2, <3>1, <3>7, <4>1, <4>2
      <4>3. CASE j = k + 1
        <5>1. shown[i].of = b /\ shown[i].n \in 1..ReadOf(b)
          BY <1>0, <2>2, <3>1, <3>7, <4>1, <4>3
        <5>2. shown[i].n < line.n
          BY <1>1, <1>2, <1>9, <5>1
        <5> QED BY <2>2, <4>1, <4>3, <5>2
      <4> QED BY <2>2, <4>2, <4>3
    <3>8. ASSUME NEW c \in DOMAIN reply, reply[c].kind = "text", NEW n \in 1..ReadOf(c)'
          PROVE  \E i \in 1..(k + 1) : more[i].of = c /\ more[i].n = n
      <4>1. CASE n \in 1..ReadOf(c)
        <5>1. PICK i \in 1..k : shown[i].of = c /\ shown[i].n = n
          BY <3>1, <3>8, <4>1
        <5> QED BY <2>2, <5>1
      <4>2. CASE n \notin 1..ReadOf(c)
        <5>1. c = b
          BY <1>1, <3>8, <4>2
        <5>2. n = line.n
          BY <1>1, <1>2, <1>9, <3>8, <4>2, <5>1
        <5> QED BY <1>0, <2>2, <5>1, <5>2
      <4> QED BY <4>1, <4>2
    <3>9. Len(shown') = k + 1 /\ shown' = more
      BY <2>1, <2>2
    <3>10. ASSUME NEW i \in 1..(k + 1) PROVE shown'[i].n \in 1..ReadOf(shown[i].of)'
      <4>1. PICK c : c = shown'[i].of
        OBVIOUS
      <4>2. shown'[i].n \in 1..ReadOf(c)'
        BY <3>6, <3>9, <4>1
      <4> QED BY <4>1, <4>2 DEF ReadOf, LinesOf
    <3> HIDE DEF more, k
    <3>11. \A i \in 1..Len(shown') : /\ shown'[i].of \in DOMAIN reply
                                     /\ reply[shown'[i].of].kind = "text"
                                     /\ shown'[i].n \in 1..ReadOf(shown[i].of)'
                                     /\ shown'[i].torn => Wide
      BY <3>6, <3>9, <3>10
    <3>12. \A i, j \in 1..Len(shown') :
             i < j /\ shown'[i].of = shown'[j].of => shown'[i].n < shown'[j].n
      BY <3>7, <3>9
    <3>13. \A c \in DOMAIN reply : reply[c].kind = "text" =>
             \A n \in 1..ReadOf(c)' : \E i \in 1..Len(shown') : shown'[i].of = c /\ shown'[i].n = n
      BY <3>8, <3>9
    <3>14. reply' = reply
      BY <1>1
    <3> QED BY <3>11, <3>12, <3>13, <3>14, Zenon DEF ShownInOrder
  <2>13. TextHeld(b)'
    <3>1. CASE api = "openai"
      BY <1>1, <1>7, <2>8, <3>1 DEF TextHeld
    <3>2. CASE api # "openai"
      <4>1. blocks'[b].text = longer /\ blocks'[b].tool = 0 /\ blocks'[b].json = <<>>
        BY <2>6, <2>8, <3>2
      <4>2. Collected(blocks[b].text, b)'
        BY <1>1, <2>3, <3>2, <4>1 DEF Collected
      <4>3. ASSUME NEW n \in 1..Len(longer) PROVE \E i \in 1..Len(shown') : shown'[i] = longer[n]
        <5>1. CASE n \in 1..Len(old) /\ longer[n] = old[n]
          <6>1. PICK i \in 1..k : shown[i] = old[n]
            BY <1>7, <3>2, <5>1 DEF k
          <6> QED BY <2>1, <2>2, <5>1, <6>1
        <5>2. CASE longer[n] = line
          BY <2>1, <2>2, <5>2
        <5> QED BY <2>4, <2>5, <5>1, <5>2
      <4> QED BY <1>1, <3>2, <4>1, <4>2, <4>3 DEF TextHeld
    <3> QED BY <3>1, <3>2
  <2>14. ASSUME NEW c \in DOMAIN reply, c # b
         PROVE  IF reply[c].kind = "tool" THEN CallHeld(c)' ELSE TextHeld(c)'
    <3>1. blocks'[c] = blocks[c] /\ LinesOf(c)' = LinesOf(c) /\ ReadOf(c)' = ReadOf(c)
      BY <1>1, <2>8, <2>14
    <3>2. IF reply[c].kind = "tool" THEN CallHeld(c) ELSE TextHeld(c)
      BY DEF Inv, Held
    <3>3. CASE reply[c].kind = "tool"
      BY <1>1, <3>1, <3>2, <3>3 DEF CallHeld, Collected
    <3>4. CASE reply[c].kind # "tool"
      <4>1. TextHeld(c)
        BY <3>2, <3>4
      <4>2. \A f : (\E i \in 1..Len(shown) : shown[i] = f)
                     => \E i \in 1..Len(shown') : shown'[i] = f
        BY <2>1, <2>2 DEF k
      <4>3. Collected(blocks[c].text, c) => Collected(blocks[c].text, c)'
        BY <3>1 DEF Collected
      <4>4. CASE api = "openai"
        BY <1>1, <3>1, <3>4, <4>1, <4>4 DEF TextHeld
      <4>5. CASE api # "openai"
        <5>1. Collected(blocks[c].text, c)'
          BY <3>1, <4>1, <4>3, <4>5 DEF TextHeld, Collected
        <5>2. \A n \in 1..Len(blocks[c].text) :
                \E i \in 1..Len(shown') : shown'[i] = blocks[c].text[n]
          BY <4>1, <4>2, <4>5 DEF TextHeld
        <5> QED BY <1>1, <3>1, <3>4, <4>1, <4>5, <5>1, <5>2 DEF TextHeld
      <4> QED BY <4>4, <4>5
    <3> QED BY <3>3, <3>4
  <2>15. Held'
    BY <1>1, <1>3, <2>9, <2>13, <2>14 DEF Held
  <2> QED BY <1>4, <2>10, <2>12, <2>15 DEF Inv
<1> QED BY <1>8, <1>9

LEMMA InvStep == Inv /\ [Next]_vars => Inv'
<1> SUFFICES ASSUME Inv, [Next]_vars PROVE Inv'
  OBVIOUS
<1>1. CASE Send \/ TransientFailure \/ Refused \/ Accepted \/ BodyFails
  BY <1>1, OtherStep
<1>2. CASE ReadWhole \/ StreamEnds
  BY <1>2, EndStep
<1>3. CASE \E b \in DOMAIN reply, cut \in BOOLEAN : LineBegins(b, cut)
  BY <1>3, BeginStep
<1>4. CASE LineEnds
  <2>1. line.of \in DOMAIN reply
    BY <1>4, Facts DEF LineEnds
  <2>2. reply[line.of] \in Blocks
    BY <2>1, Facts
  <2>3. reply[line.of].kind \in {"text", "tool"}
    BY <2>2 DEF Blocks
  <2> QED BY <1>4, <2>3, CallLineStep, TextLineStep
<1>5. CASE UNCHANGED vars
  BY <1>5, StutterStep
<1> QED BY <1>1, <1>2, <1>3, <1>4, <1>5 DEF Next, Read

-----------------------------------------------------------------------------
(* What is shown.                                                           *)

LEMMA ShownExact ==
  ASSUME Inv, ~Wide PROVE StreamIsExact
<1>1. shown \in Seq(Fragments) /\ DOMAIN shown = 1..Len(shown)
  BY DEF Inv, Types
<1>2. ASSUME NEW i \in 1..Len(shown)
      PROVE  /\ shown[i] = Fragment(shown[i].of, shown[i].n)
             /\ shown[i].of \in DOMAIN reply /\ reply[shown[i].of].kind = "text"
             /\ shown[i].n \in 1..ReadOf(shown[i].of)
  <2>1. shown[i] \in Fragments /\ shown[i].torn = FALSE
    <3>1. shown[i] \in Fragments
      BY <1>1
    <3>2. shown[i].torn \in BOOLEAN
      BY <3>1 DEF Fragments
    <3>3. shown[i].torn => Wide
      BY DEF Inv, ShownInOrder
    <3> QED BY <3>1, <3>2, <3>3, Zenon
  <2> QED BY <2>1 DEF Inv, ShownInOrder, Fragments, Fragment
<1>3. \A i \in 1..Len(shown) : \E b \in DOMAIN reply :
        reply[b].kind = "text" /\ \E n \in 1..ReadOf(b) : shown[i] = Fragment(b, n)
  BY <1>2
<1>4. ASSUME NEW b \in DOMAIN reply, reply[b].kind = "text", NEW n \in 1..ReadOf(b)
      PROVE  \E i \in 1..Len(shown) : shown[i] = Fragment(b, n)
  <2>1. PICK i \in 1..Len(shown) : shown[i].of = b /\ shown[i].n = n
    BY <1>4 DEF Inv, ShownInOrder
  <2> QED BY <1>2, <2>1
<1>5. \A i, j \in 1..Len(shown) :
        i < j /\ shown[i].of = shown[j].of => shown[i].n < shown[j].n
  BY DEF Inv, ShownInOrder
<1> QED BY <1>1, <1>3, <1>4, <1>5 DEF StreamIsExact

-----------------------------------------------------------------------------
(* The blocks of a response.                                                *)

\* The inputs of calls and the blocks of a response.
Inputs    == [is : {"json", "fallback", "none"}, of : Seq(Fragments)]
Responses == [kind : {"text"}, text : Seq(Fragments)]
               \cup [kind : {"tool"}, tool : Nat, input : Inputs]

LEMMA WholeIs ==
  ASSUME Inv, NEW b \in DOMAIN reply
  PROVE  /\ Whole(b) \in Seq(Fragments) /\ Len(Whole(b)) = reply[b].fragments
         /\ \A n \in 1..reply[b].fragments : Whole(b)[n] = Fragment(b, n)
         /\ \A n \in 1..Len(Whole(b)) : Whole(b)[n].of = b /\ Whole(b)[n].n = n
<1>1. b \in Nat /\ reply[b].fragments \in Nat
  BY Facts
<1>2. \A n \in 1..reply[b].fragments : Fragment(b, n) \in Fragments
  BY <1>1 DEF Fragment, Fragments
<1>3. /\ Whole(b) \in Seq(Fragments) /\ Len(Whole(b)) = reply[b].fragments
      /\ \A n \in 1..reply[b].fragments : Whole(b)[n] = Fragment(b, n)
  BY <1>1, <1>2 DEF Whole
<1>4. \A n : Fragment(b, n).of = b /\ Fragment(b, n).n = n
  BY DEF Fragment
<1> QED BY <1>3, <1>4

LEMMA TextBlocksIs ==
  ASSUME NEW t \in Seq(Fragments)
  PROVE  /\ TextBlock(t) \in Responses /\ TextBlock(t).kind = "text" /\ TextBlock(t).text = t
         /\ TextBlocks(t) \in Seq(Responses) /\ Len(TextBlocks(t)) <= 1
         /\ \A i \in 1..Len(TextBlocks(t)) : TextBlocks(t)[i] = TextBlock(t)
         /\ TextBlocks(t) = <<>> \/ TextBlocks(t) = <<TextBlock(t)>>
         /\ TextBlocks(t) # <<>> <=> \E i \in 1..Len(t) : ~reply[t[i].of].blank
<1>1. TextBlock(t) \in Responses /\ TextBlock(t).kind = "text" /\ TextBlock(t).text = t
  BY DEF TextBlock, Responses
<1> DEFINE r == TextBlock(t)
<1>2. DOMAIN t = 1..Len(t)
  OBVIOUS
<1>3. TextBlocks(t) = IF \A i \in 1..Len(t) : reply[t[i].of].blank THEN <<>> ELSE <<r>>
  BY <1>2 DEF TextBlocks
<1> HIDE DEF r
<1>4. r \in Responses
  BY <1>1 DEF r
<1>5. /\ <<r>> \in Seq(Responses) /\ Len(<<r>>) = 1 /\ <<r>>[1] = r
      /\ <<>> \in Seq(Responses) /\ Len(<<>>) = 0 /\ <<r>> # <<>>
  BY <1>4
<1>6. \A i \in 1..1 : i = 1
  OBVIOUS
<1>7. /\ TextBlocks(t) \in Seq(Responses) /\ Len(TextBlocks(t)) <= 1
      /\ \A i \in 1..Len(TextBlocks(t)) : TextBlocks(t)[i] = r
      /\ TextBlocks(t) = <<>> \/ TextBlocks(t) = <<r>>
      /\ TextBlocks(t) # <<>> <=> \E i \in 1..Len(t) : ~reply[t[i].of].blank
  <2>1. CASE \A i \in 1..Len(t) : reply[t[i].of].blank
    <3>1. TextBlocks(t) = <<>>
      BY <1>3, <2>1
    <3> QED BY <1>5, <2>1, <3>1
  <2>2. CASE ~\A i \in 1..Len(t) : reply[t[i].of].blank
    <3> DEFINE one == <<r>>
    <3>1. TextBlocks(t) = one
      BY <1>3, <2>2
    <3>2. one \in Seq(Responses) /\ Len(one) = 1 /\ one[1] = r /\ one # <<>>
      BY <1>5
    <3> HIDE DEF one
    <3>3. \A i \in 1..Len(one) : one[i] = r
      BY <1>6, <3>2
    <3> QED BY <2>2, <3>1, <3>2, <3>3 DEF one
  <2> QED BY <2>1, <2>2
<1> QED BY <1>1, <1>7 DEF r

\* Arguments are JSON just when they are whole.
LEMMA ParsedIs ==
  ASSUME Inv, NEW b \in DOMAIN reply, NEW json \in Seq(Fragments),
         \A n \in 1..Len(json) : json[n].of = b /\ json[n].n = n
  PROVE  /\ Parsed(json) \in Inputs
         /\ IF reply[b].fragments > 0 /\ Len(json) = reply[b].fragments
              THEN Parsed(json).is = "json" /\ Parsed(json).of = json
              ELSE Parsed(json).is = "fallback"
<1> DEFINE calm == [i \in DOMAIN json |-> [json[i] EXCEPT !.torn = FALSE]]
           k == Len(json)
<1>1. DOMAIN json = 1..k /\ k \in Nat /\ (json # <<>> <=> k > 0)
  OBVIOUS
<1>2. /\ Parsed(json) = IF json # <<>> /\ \E c \in DOMAIN reply : calm = Whole(c)
                          THEN [is |-> "json", of |-> json]
                          ELSE [is |-> "fallback", of |-> IF api = "openai" THEN json ELSE <<>>]
  BY DEF Parsed
<1>3. Parsed(json) \in Inputs
  <2>1. <<>> \in Seq(Fragments)
    OBVIOUS
  <2> QED BY <1>2, <2>1 DEF Inputs
<1>4. \A n \in 1..k : calm[n] = Fragment(b, n)
  <2> TAKE n \in 1..k
  <2>1. json[n] \in Fragments /\ json[n].of = b /\ json[n].n = n
    OBVIOUS
  <2>2. calm[n] = [json[n] EXCEPT !.torn = FALSE]
    BY <1>1
  <2> HIDE DEF calm
  <2> QED BY <2>1, <2>2 DEF Fragments, Fragment
<1>5. DOMAIN calm = 1..k /\ calm = [n \in 1..k |-> calm[n]]
  BY <1>1
<1> HIDE DEF calm
<1>6. reply[b].fragments \in Nat /\ Whole(b) = [n \in 1..reply[b].fragments |-> Fragment(b, n)]
  BY Facts DEF Whole
<1>7. ASSUME NEW c \in DOMAIN reply, calm = Whole(c), k > 0
      PROVE  c = b /\ k = reply[b].fragments
  <2>1. reply[c].fragments \in Nat
    BY Facts
  <2>2. DOMAIN Whole(c) = 1..reply[c].fragments
    BY DEF Whole
  <2>3. 1..k = 1..reply[c].fragments
    BY <1>5, <1>7, <2>2
  <2>4. k = reply[c].fragments
    <3>1. k \in 1..k
      BY <1>1, <1>7
    <3>2. k \in 1..reply[c].fragments
      BY <2>3, <3>1
    <3>3. reply[c].fragments \in 1..reply[c].fragments
      BY <2>1, <3>2
    <3>4. reply[c].fragments \in 1..k
      BY <2>3, <3>3
    <3> DEFINE m == reply[c].fragments
    <3>5. m \in Nat /\ k \in Nat /\ k \in 1..m /\ m \in 1..k
      BY <1>1, <2>1, <3>2, <3>4
    <3> HIDE DEF m, k
    <3>6. k = m
      BY <3>5
    <3> QED BY <3>6 DEF m
  <2>5. Whole(c)[1] = Fragment(c, 1) /\ calm[1] = Fragment(b, 1)
    <3>1. 1 \in 1..k /\ 1 \in 1..reply[c].fragments
      BY <1>1, <1>7, <2>4
    <3> QED BY <1>4, <3>1 DEF Whole
  <2>6. c = b
    BY <1>7, <2>5 DEF Fragment
  <2> QED BY <2>4, <2>6
<1>8. CASE reply[b].fragments > 0 /\ k = reply[b].fragments
  <2>1. calm = Whole(b)
    BY <1>4, <1>5, <1>6, <1>8
  <2>2. json # <<>>
    BY <1>1, <1>8
  <2>3. Parsed(json) = [is |-> "json", of |-> json]
    BY <1>2, <2>1, <2>2
  <2> QED BY <1>3, <1>8, <2>3
<1>9. CASE ~(reply[b].fragments > 0 /\ k = reply[b].fragments)
  <2>1. ~(json # <<>> /\ \E c \in DOMAIN reply : calm = Whole(c))
    BY <1>1, <1>7, <1>9
  <2>2. Parsed(json).is = "fallback"
    BY <1>2, <2>1
  <2> QED BY <1>3, <1>9, <2>2
<1> QED BY <1>8, <1>9

-----------------------------------------------------------------------------
(* The calls of a response: those of the blocks in T, in their order, with  *)
(* the inputs J.                                                            *)

CallsOf(rs, T, J) ==
  /\ \A i \in 1..Len(rs) : rs[i].kind = "tool" =>
       rs[i].tool \in T /\ rs[i] = ToolBlock(rs[i].tool, J[rs[i].tool])
  /\ \A i, j \in 1..Len(rs) :
       i < j /\ rs[i].kind = "tool" /\ rs[j].kind = "tool" => rs[i].tool < rs[j].tool
  /\ \A b \in T : \E i \in 1..Len(rs) : rs[i] = ToolBlock(b, J[b])

LEMMA ToolBlockIs ==
  ASSUME NEW b, NEW input
  PROVE  /\ ToolBlock(b, input).kind = "tool" /\ ToolBlock(b, input).tool = b
         /\ ToolBlock(b, input).input = input
BY DEF ToolBlock

LEMMA FlatCalls ==
  ASSUME NEW ss \in Seq(Seq(Responses)), Singles(ss), NEW T \in SUBSET (1..Len(ss)), NEW J,
         \A b \in 1..Len(ss) : IF b \in T THEN ss[b] = <<ToolBlock(b, J[b])>>
                               ELSE \A r : ss[b] = <<r>> => r.kind = "text"
  PROVE  CallsOf(Lists!FlattenSeq(ss), T, J)
<1> DEFINE rs == Lists!FlattenSeq(ss)
<1>1. PICK at : Picks(ss, rs, at)
  BY FlattenPicks
<1> HIDE DEF rs
<1>2. /\ \A m \in 1..Len(rs) : at[m] \in 1..Len(ss) /\ ss[at[m]] = <<rs[m]>>
      /\ \A m, l \in 1..Len(rs) : m < l => at[m] < at[l]
      /\ \A i \in 1..Len(ss) : ss[i] # <<>> => \E m \in 1..Len(rs) : at[m] = i
  BY <1>1 DEF Picks
<1>3. \A x, y : <<x>> = <<y>> => x = y
  OBVIOUS
<1>4. ASSUME NEW m \in 1..Len(rs)
      PROVE  IF at[m] \in T THEN rs[m] = ToolBlock(at[m], J[at[m]]) /\ rs[m].tool = at[m]
             ELSE rs[m].kind = "text"
  <2>1. CASE at[m] \in T
    <3>1. ss[at[m]] = <<ToolBlock(at[m], J[at[m]])>> /\ ss[at[m]] = <<rs[m]>>
      BY <1>2, <2>1
    <3>2. rs[m] = ToolBlock(at[m], J[at[m]])
      BY <1>3, <3>1
    <3> QED BY <2>1, <3>2, ToolBlockIs
  <2>2. CASE at[m] \notin T
    <3>1. at[m] \in 1..Len(ss) /\ ss[at[m]] = <<rs[m]>>
      BY <1>2
    <3>2. PICK b \in 1..Len(ss) : b = at[m]
      BY <3>1
    <3>3. b \notin T /\ ss[b] = <<rs[m]>>
      BY <2>2, <3>1, <3>2
    <3>4. \A r : ss[b] = <<r>> => r.kind = "text"
      BY <3>3
    <3>5. rs[m].kind = "text"
      BY <3>3, <3>4
    <3> QED BY <2>2, <3>5
  <2> QED BY <2>1, <2>2
<1>5. \A m \in 1..Len(rs) : rs[m].kind = "tool" =>
        at[m] \in T /\ rs[m] = ToolBlock(at[m], J[at[m]]) /\ rs[m].tool = at[m]
  BY <1>4
<1>6. ASSUME NEW b \in T PROVE \E i \in 1..Len(rs) : rs[i] = ToolBlock(b, J[b])
  <2>1. ss[b] = <<ToolBlock(b, J[b])>> /\ b \in 1..Len(ss)
    OBVIOUS
  <2>2. ss[b] # <<>>
    BY <2>1
  <2>3. PICK m \in 1..Len(rs) : at[m] = b
    BY <1>2, <2>1, <2>2
  <2> QED BY <1>4, <2>3
<1>7. \A m \in 1..Len(rs) : rs[m].kind = "tool" =>
        rs[m].tool \in T /\ rs[m] = ToolBlock(rs[m].tool, J[rs[m].tool])
  BY <1>5
<1>8. \A i, j \in 1..Len(rs) :
        i < j /\ rs[i].kind = "tool" /\ rs[j].kind = "tool" => rs[i].tool < rs[j].tool
  BY <1>2, <1>5
<1>9. CallsOf(rs, T, J)
  BY <1>6, <1>7, <1>8 DEF CallsOf
<1> QED BY <1>9 DEF rs

\* A text in front.
LEMMA FrontCalls ==
  ASSUME NEW first \in Seq(Responses), \A i \in 1..Len(first) : first[i].kind = "text",
         NEW rest \in Seq(Responses), NEW T, NEW J, CallsOf(rest, T, J)
  PROVE  first \o rest \in Seq(Responses) /\ CallsOf(first \o rest, T, J)
<1> DEFINE rs == first \o rest
           k == Len(first)
           l == Len(rest)
<1>1. /\ rs \in Seq(Responses) /\ Len(rs) = k + l /\ k \in Nat /\ l \in Nat
      /\ \A i \in 1..(k + l) : rs[i] = IF i <= k THEN first[i] ELSE rest[i - k]
  BY ConcatProperties
<1>2. /\ \A i \in 1..l : rest[i].kind = "tool" =>
           rest[i].tool \in T /\ rest[i] = ToolBlock(rest[i].tool, J[rest[i].tool])
      /\ \A i, j \in 1..l :
           i < j /\ rest[i].kind = "tool" /\ rest[j].kind = "tool" => rest[i].tool < rest[j].tool
      /\ \A b \in T : \E i \in 1..l : rest[i] = ToolBlock(b, J[b])
  BY DEF CallsOf
<1> HIDE DEF rs, k, l
<1>3. \A i \in 1..(k + l) : i <= k => i \in 1..k
  BY <1>1
<1>4. ASSUME NEW i \in 1..(k + l), rs[i].kind = "tool"
      PROVE  i - k \in 1..l /\ rs[i] = rest[i - k] /\ i > k
  <2>1. ~(i <= k)
    BY <1>1, <1>3, <1>4 DEF k
  <2> QED BY <1>1, <2>1
<1>5. ASSUME NEW b \in T PROVE \E i \in 1..(k + l) : rs[i] = ToolBlock(b, J[b])
  <2>1. PICK i \in 1..l : rest[i] = ToolBlock(b, J[b])
    BY <1>2
  <2>2. k + i \in 1..(k + l) /\ ~(k + i <= k) /\ (k + i) - k = i
    BY <1>1
  <2>3. rs[k + i] = rest[i]
    BY <1>1, <2>2
  <2> QED BY <2>1, <2>2, <2>3
<1>6. ASSUME NEW i \in 1..(k + l), NEW j \in 1..(k + l), i < j,
             rs[i].kind = "tool", rs[j].kind = "tool"
      PROVE  rs[i].tool < rs[j].tool
  <2>1. i - k \in 1..l /\ rs[i] = rest[i - k] /\ j - k \in 1..l /\ rs[j] = rest[j - k]
    BY <1>4, <1>6
  <2>2. i - k < j - k
    BY <1>1, <1>6
  <2> QED BY <1>2, <1>6, <2>1, <2>2
<1>7. \A i \in 1..(k + l) : rs[i].kind = "tool" =>
        rs[i].tool \in T /\ rs[i] = ToolBlock(rs[i].tool, J[rs[i].tool])
  BY <1>2, <1>4
<1> QED BY <1>1, <1>5, <1>6, <1>7 DEF CallsOf, rs

\* What was held at the end of a stream.
Started == {b \in DOMAIN reply : reply[b].kind = "tool" /\ LinesOf(b) > 0}
Held1(b) == IF blocks[b].tool # 0 THEN <<ToolBlock(blocks[b].tool, Parsed(blocks[b].json))>>
            ELSE TextBlocks(blocks[b].text)
HeldList == [b \in DOMAIN reply |-> Held1(b)]

LEMMA FlattensAlike == \A ss : Seqs!FlattenSeq(ss) = Lists!FlattenSeq(ss)
BY DEF Seqs!FlattenSeq, Lists!FlattenSeq

LEMMA HeldListIs ==
  ASSUME Inv
  PROVE  /\ Len(HeldList) = Len(reply) /\ DOMAIN reply = 1..Len(reply)
         /\ HeldList \in Seq(Seq(Responses)) /\ Singles(HeldList)
         /\ \A b \in DOMAIN reply :
              HeldList[b] = IF b \in Started THEN <<ToolBlock(b, Parsed(blocks[b].json))>>
                            ELSE TextBlocks(blocks[b].text)
<1>1. DOMAIN reply = 1..Len(reply) /\ Len(reply) \in Nat
  BY DEF Inv, Types
<1>2. ASSUME NEW b \in DOMAIN reply
      PROVE  /\ Held1(b) = IF b \in Started THEN <<ToolBlock(b, Parsed(blocks[b].json))>>
                           ELSE TextBlocks(blocks[b].text)
             /\ Held1(b) \in Seq(Responses) /\ Len(Held1(b)) <= 1
  <2>1. blocks[b] \in Pending /\ b \in Nat \ {0}
    BY Facts DEF Inv, Types
  <2>2. blocks[b].text \in Seq(Fragments) /\ blocks[b].json \in Seq(Fragments)
    BY <2>1 DEF Pending
  <2>3. IF reply[b].kind = "tool" THEN CallHeld(b) ELSE TextHeld(b)
    BY DEF Inv, Held
  <2>4. blocks[b].tool = IF b \in Started THEN b ELSE 0
    BY <2>3 DEF CallHeld, TextHeld, Started
  <2>5. CASE b \in Started
    <3> DEFINE r == ToolBlock(b, Parsed(blocks[b].json))
    <3>1. Held1(b) = <<r>>
      BY <2>1, <2>4, <2>5 DEF Held1
    <3>2. Collected(blocks[b].json, b)
      BY <2>3, <2>5 DEF Started, CallHeld
    <3>3. Parsed(blocks[b].json) \in Inputs
      BY <2>2, <3>2, ParsedIs DEF Collected
    <3>4. r \in Responses
      BY <2>1, <3>3 DEF ToolBlock, Responses
    <3> HIDE DEF r
    <3>5. <<r>> \in Seq(Responses) /\ Len(<<r>>) <= 1
      BY <3>4
    <3> QED BY <2>5, <3>1, <3>5 DEF r
  <2>6. CASE b \notin Started
    <3>1. Held1(b) = TextBlocks(blocks[b].text)
      BY <2>4, <2>6 DEF Held1
    <3> QED BY <2>2, <2>6, <3>1, TextBlocksIs
  <2> QED BY <2>5, <2>6
<1>3. HeldList \in [1..Len(reply) -> Seq(Responses)]
  BY <1>1, <1>2 DEF HeldList
<1>4. HeldList \in Seq(Seq(Responses)) /\ Len(HeldList) = Len(reply)
  BY <1>1, <1>3
<1>5. \A b \in DOMAIN reply : HeldList[b] = Held1(b)
  BY DEF HeldList
<1> QED BY <1>1, <1>2, <1>4, <1>5 DEF Singles

LEMMA AssembledIs == Assembled = TextBlocks(text) \o Lists!FlattenSeq(HeldList)
BY FlattensAlike DEF Assembled, HeldList, Held1

HeldInputs == [b \in DOMAIN reply |-> Parsed(blocks[b].json)]

LEMMA StreamedCalls ==
  ASSUME Inv
  PROVE  Assembled \in Seq(Responses) /\ CallsOf(Assembled, Started, HeldInputs)
<1> DEFINE J == HeldInputs
           flat == Lists!FlattenSeq(HeldList)
           first == TextBlocks(text)
<1>1. /\ Len(HeldList) = Len(reply) /\ DOMAIN reply = 1..Len(reply)
      /\ HeldList \in Seq(Seq(Responses)) /\ Singles(HeldList)
      /\ \A b \in DOMAIN reply :
           HeldList[b] = IF b \in Started THEN <<ToolBlock(b, Parsed(blocks[b].json))>>
                         ELSE TextBlocks(blocks[b].text)
  BY HeldListIs
<1>2. Started \in SUBSET (1..Len(HeldList))
  BY <1>1 DEF Started
<1>3. \A b \in 1..Len(HeldList) :
        IF b \in Started THEN HeldList[b] = <<ToolBlock(b, J[b])>>
        ELSE \A r : HeldList[b] = <<r>> => r.kind = "text"
  <2> TAKE b \in 1..Len(HeldList)
  <2>1. CASE b \in Started
    BY <1>1, <2>1 DEF HeldInputs
  <2>2. CASE b \notin Started
    <3> DEFINE t == blocks[b].text
    <3>1. blocks[b] \in Pending
      BY <1>1 DEF Inv, Types
    <3>2. t \in Seq(Fragments)
      BY <3>1 DEF Pending
    <3>3. HeldList[b] = TextBlocks(t)
      BY <1>1, <2>2
    <3> HIDE DEF t
    <3>4. TextBlocks(t) = <<>> \/ (TextBlocks(t) = <<TextBlock(t)>> /\ TextBlock(t).kind = "text")
      BY <3>2, TextBlocksIs
    <3>5. \A r : <<>> # <<r>>
      OBVIOUS
    <3>6. \A r, q : <<q>> = <<r>> => q = r
      OBVIOUS
    <3> QED BY <2>2, <3>3, <3>4, <3>5, <3>6
  <2> QED BY <2>1, <2>2
<1>4. flat \in Seq(Responses)
  BY <1>1, FlattenType
<1> HIDE DEF J
<1>5. CallsOf(flat, Started, J)
  BY <1>1, <1>2, <1>3, FlatCalls
<1>6. first \in Seq(Responses) /\ \A i \in 1..Len(first) : first[i].kind = "text"
  <2>1. text \in Seq(Fragments)
    BY DEF Inv, Types
  <2> QED BY <2>1, TextBlocksIs
<1> HIDE DEF flat, first
<1>7. first \o flat \in Seq(Responses) /\ CallsOf(first \o flat, Started, J)
  BY <1>4, <1>5, <1>6, FrontCalls
<1>8. Assembled = first \o flat
  BY AssembledIs DEF first, flat
<1> QED BY <1>7, <1>8 DEF J

\* What the other method makes of the whole reply, when the calls have the
\* inputs I.
Tools == {b \in DOMAIN reply : reply[b].kind = "tool"}
WholeText(b) == IF reply[b].kind = "text" THEN TextBlocks(Whole(b)) ELSE <<>>
WholeCall(I, b) == IF reply[b].kind = "tool" THEN <<ToolBlock(b, I[b])>> ELSE <<>>
WholeTexts == [b \in DOMAIN reply |-> WholeText(b)]
WholeCalls(I) == [b \in DOMAIN reply |-> WholeCall(I, b)]
Fit(I) == \A b \in DOMAIN reply : I[b] \in Inputs

\* The inputs of a stream that was read to its end, and those of a body.
LEMMA InputsFit ==
  ASSUME Inv
  PROVE  /\ Fit(StreamInputs) /\ Fit(BodyInputs)
         /\ \A b \in DOMAIN reply :
              /\ StreamInputs[b] = Parsed(Whole(b))
              /\ BodyInputs[b] = IF reply[b].absent THEN NoInput ELSE Parsed(Whole(b))
<1>1. ASSUME NEW b \in DOMAIN reply PROVE Parsed(Whole(b)) \in Inputs
  <2>1. /\ Whole(b) \in Seq(Fragments)
        /\ \A n \in 1..Len(Whole(b)) : Whole(b)[n].of = b /\ Whole(b)[n].n = n
    BY WholeIs
  <2> QED BY <2>1, ParsedIs
<1>2. NoInput \in Inputs
  <2>1. <<>> \in Seq(Fragments)
    OBVIOUS
  <2> QED BY <2>1 DEF NoInput, Inputs
<1> QED BY <1>1, <1>2 DEF Fit, StreamInputs, BodyInputs

LEMMA WholeToolIs ==
  ASSUME Inv, NEW I, Fit(I), NEW b \in DOMAIN reply
  PROVE  ToolBlock(b, I[b]) \in Responses
<1>2. I[b] \in Inputs
  BY DEF Fit
<1>3. b \in Nat
  BY Facts
<1> QED BY <1>2, <1>3 DEF ToolBlock, Responses

LEMMA WholeListsAre ==
  ASSUME Inv, NEW I, Fit(I)
  PROVE  /\ DOMAIN reply = 1..Len(reply) /\ Len(reply) \in Nat
         /\ WholeTexts \in Seq(Seq(Responses)) /\ Len(WholeTexts) = Len(reply)
         /\ Singles(WholeTexts)
         /\ WholeCalls(I) \in Seq(Seq(Responses)) /\ Len(WholeCalls(I)) = Len(reply)
         /\ Singles(WholeCalls(I))
         /\ \A b \in DOMAIN reply :
              WholeTexts[b] = WholeText(b) /\ WholeCalls(I)[b] = WholeCall(I, b)
<1>1. DOMAIN reply = 1..Len(reply) /\ Len(reply) \in Nat
  BY DEF Inv, Types
<1>2. <<>> \in Seq(Responses) /\ Len(<<>>) <= 1
  OBVIOUS
<1>3. ASSUME NEW b \in DOMAIN reply
      PROVE  WholeText(b) \in Seq(Responses) /\ Len(WholeText(b)) <= 1
  <2>1. Whole(b) \in Seq(Fragments)
    BY WholeIs
  <2> QED BY <1>2, <2>1, TextBlocksIs DEF WholeText
<1>4. ASSUME NEW b \in DOMAIN reply
      PROVE  WholeCall(I, b) \in Seq(Responses) /\ Len(WholeCall(I, b)) <= 1
  <2> DEFINE r == ToolBlock(b, I[b])
  <2>1. r \in Responses
    BY WholeToolIs
  <2> HIDE DEF r
  <2>2. <<r>> \in Seq(Responses) /\ Len(<<r>>) <= 1
    BY <2>1
  <2> QED BY <1>2, <2>2 DEF WholeCall, r
<1>5. WholeTexts \in [1..Len(reply) -> Seq(Responses)]
  BY <1>1, <1>3 DEF WholeTexts
<1>6. WholeCalls(I) \in [1..Len(reply) -> Seq(Responses)]
  BY <1>1, <1>4 DEF WholeCalls
<1>7. /\ WholeTexts \in Seq(Seq(Responses)) /\ Len(WholeTexts) = Len(reply)
      /\ WholeCalls(I) \in Seq(Seq(Responses)) /\ Len(WholeCalls(I)) = Len(reply)
  <2> DEFINE ts == WholeTexts
             cs == WholeCalls(I)
             R  == Seq(Responses)
             n  == Len(reply)
  <2>1. n \in Nat /\ ts \in [1..n -> R] /\ cs \in [1..n -> R]
    BY <1>1, <1>5, <1>6
  <2> HIDE DEF ts, cs, R, n
  <2>2. ts \in Seq(R) /\ Len(ts) = n /\ cs \in Seq(R) /\ Len(cs) = n
    BY <2>1
  <2> QED BY <2>2 DEF ts, cs, R, n
<1>8. \A b \in DOMAIN reply : WholeTexts[b] = WholeText(b) /\ WholeCalls(I)[b] = WholeCall(I, b)
  BY DEF WholeTexts, WholeCalls
<1>9. Singles(WholeTexts)
  BY <1>1, <1>3, <1>7, <1>8 DEF Singles
<1>10. Singles(WholeCalls(I))
  BY <1>1, <1>4, <1>7, <1>8 DEF Singles
<1> QED BY <1>1, <1>7, <1>8, <1>9, <1>10

LEMMA ReplyIs ==
  ASSUME NEW I
  PROVE  ReplyWith(I) =
                IF api = "openai"
                  THEN Lists!FlattenSeq(WholeTexts) \o Lists!FlattenSeq(WholeCalls(I))
                  ELSE [b \in DOMAIN reply |-> IF reply[b].kind = "text" THEN TextBlock(Whole(b))
                                               ELSE ToolBlock(b, I[b])]
BY FlattensAlike DEF ReplyWith, WholeTexts, WholeCalls, WholeText, WholeCall

\* The texts of the whole reply are texts.
LEMMA FlatTexts ==
  ASSUME Inv
  PROVE  LET first == Lists!FlattenSeq(WholeTexts)
         IN  /\ first \in Seq(Responses) /\ \A i \in 1..Len(first) : first[i].kind = "text"
             /\ \A i \in 1..Len(first) : \E b \in DOMAIN reply :
                  first[i] = TextBlock(Whole(b)) /\ TextBlocks(Whole(b)) = <<TextBlock(Whole(b))>>
<1> DEFINE first == Lists!FlattenSeq(WholeTexts)
<1>1. /\ DOMAIN reply = 1..Len(reply)
      /\ WholeTexts \in Seq(Seq(Responses)) /\ Len(WholeTexts) = Len(reply)
      /\ Singles(WholeTexts)
      /\ \A b \in DOMAIN reply : WholeTexts[b] = WholeText(b)
  BY InputsFit, WholeListsAre
<1>2. PICK at : Picks(WholeTexts, first, at)
  BY <1>1, FlattenPicks
<1>3. first \in Seq(Responses)
  BY <1>1, FlattenType
<1> HIDE DEF first
<1>4. ASSUME NEW i \in 1..Len(first)
      PROVE  /\ first[i].kind = "text"
             /\ \E b \in DOMAIN reply :
                  first[i] = TextBlock(Whole(b)) /\ TextBlocks(Whole(b)) = <<TextBlock(Whole(b))>>
  <2>1. at[i] \in DOMAIN reply /\ WholeTexts[at[i]] = <<first[i]>>
    BY <1>1, <1>2 DEF Picks
  <2>2. PICK b \in DOMAIN reply : WholeText(b) = <<first[i]>>
    BY <1>1, <2>1
  <2>3. \A x, y : <<x>> # <<>> /\ (<<x>> = <<y>> => x = y)
    OBVIOUS
  <2>4. TextBlocks(Whole(b)) = <<first[i]>>
    BY <2>2, <2>3 DEF WholeText
  <2>5. Whole(b) \in Seq(Fragments)
    BY WholeIs
  <2>6. /\ TextBlocks(Whole(b)) = <<>> \/ TextBlocks(Whole(b)) = <<TextBlock(Whole(b))>>
        /\ TextBlock(Whole(b)).kind = "text"
    BY <2>5, TextBlocksIs
  <2> QED BY <2>3, <2>4, <2>6
<1> QED BY <1>3, <1>4 DEF first

LEMMA WholeReplyCalls ==
  ASSUME Inv
  PROVE  ParsedReply \in Seq(Responses) /\ CallsOf(ParsedReply, Tools, BodyInputs)
<1> DEFINE J == BodyInputs
<1>0. Fit(J) /\ ParsedReply = ReplyWith(J)
  BY InputsFit DEF ParsedReply
<1>1. /\ DOMAIN reply = 1..Len(reply) /\ Len(reply) \in Nat
      /\ WholeCalls(J) \in Seq(Seq(Responses)) /\ Len(WholeCalls(J)) = Len(reply)
      /\ Singles(WholeCalls(J))
      /\ \A b \in DOMAIN reply : WholeCalls(J)[b] = WholeCall(J, b)
  BY <1>0, WholeListsAre
<1>2. CASE api = "openai"
  <2> DEFINE first == Lists!FlattenSeq(WholeTexts)
             rest == Lists!FlattenSeq(WholeCalls(J))
  <2>1. first \in Seq(Responses) /\ \A i \in 1..Len(first) : first[i].kind = "text"
    BY FlatTexts
  <2>2. rest \in Seq(Responses)
    BY <1>1, FlattenType
  <2>3. \A b \in 1..Len(WholeCalls(J)) :
          IF b \in Tools THEN WholeCalls(J)[b] = <<ToolBlock(b, J[b])>>
          ELSE \A r : WholeCalls(J)[b] = <<r>> => r.kind = "text"
    <3> TAKE b \in 1..Len(WholeCalls(J))
    <3>1. b \in DOMAIN reply /\ WholeCalls(J)[b] = WholeCall(J, b)
      BY <1>1
    <3>2. \A r : <<>> # <<r>>
      OBVIOUS
    <3> HIDE DEF J
    <3> QED BY <3>1, <3>2 DEF WholeCall, Tools
  <2>4. Tools \in SUBSET (1..Len(WholeCalls(J)))
    BY <1>1 DEF Tools
  <2> HIDE DEF J
  <2>5. CallsOf(rest, Tools, J)
    BY <1>1, <2>3, <2>4, FlatCalls
  <2>6. ParsedReply = first \o rest
    BY <1>0, <1>2, ReplyIs
  <2> HIDE DEF first, rest
  <2> QED BY <2>1, <2>2, <2>5, <2>6, FrontCalls DEF J
<1>3. CASE api # "openai"
  <2> DEFINE One(b) == IF reply[b].kind = "text" THEN TextBlock(Whole(b))
                       ELSE ToolBlock(b, J[b])
             rs == [b \in DOMAIN reply |-> One(b)]
  <2>1. ParsedReply = rs
    BY <1>0, <1>3, ReplyIs
  <2>2. ASSUME NEW b \in DOMAIN reply
        PROVE  /\ One(b) \in Responses
               /\ IF b \in Tools THEN One(b) = ToolBlock(b, J[b]) /\ One(b).tool = b
                                                                /\ One(b).kind = "tool"
                  ELSE One(b).kind = "text"
    <3>1. reply[b].kind \in {"text", "tool"}
      <4>1. reply[b] \in Blocks
        BY Facts
      <4> QED BY <4>1 DEF Blocks
    <3>2. CASE reply[b].kind = "text"
      <4>1. Whole(b) \in Seq(Fragments)
        BY WholeIs
      <4>2. TextBlock(Whole(b)) \in Responses /\ TextBlock(Whole(b)).kind = "text"
        BY <4>1, TextBlocksIs
      <4> QED BY <3>2, <4>2 DEF Tools
    <3>3. CASE reply[b].kind = "tool"
      BY <1>0, <3>3, WholeToolIs, ToolBlockIs DEF Tools
    <3> QED BY <3>1, <3>2, <3>3
  <2> HIDE DEF One
  <2>3. rs \in Seq(Responses) /\ Len(rs) = Len(reply) /\ \A b \in DOMAIN reply : rs[b] = One(b)
    <3>1. rs \in [1..Len(reply) -> Responses]
      BY <1>1, <2>2
    <3> QED BY <1>1, <3>1
  <2> HIDE DEF rs, J
  <2>5. \A i \in 1..Len(rs) : rs[i].kind = "tool" =>
          rs[i].tool \in Tools /\ rs[i].tool = i /\ rs[i] = ToolBlock(rs[i].tool, J[rs[i].tool])
    <3> SUFFICES ASSUME NEW i \in 1..Len(rs), rs[i].kind = "tool"
                 PROVE  rs[i].tool \in Tools /\ rs[i].tool = i
                          /\ rs[i] = ToolBlock(rs[i].tool, J[rs[i].tool])
      OBVIOUS
    <3>1. i \in DOMAIN reply /\ rs[i] = One(i)
      BY <1>1, <2>3
    <3>2. i \in Tools
      BY <2>2, <3>1
    <3> QED BY <2>2, <3>1, <3>2
  <2>6. \A i, j \in 1..Len(rs) :
          i < j /\ rs[i].kind = "tool" /\ rs[j].kind = "tool" => rs[i].tool < rs[j].tool
    BY <2>5
  <2>7. \A b \in Tools : \E i \in 1..Len(rs) : rs[i] = ToolBlock(b, J[b])
    BY <1>1, <2>2, <2>3 DEF Tools
  <2> QED BY <2>1, <2>3, <2>5, <2>6, <2>7 DEF CallsOf, J
<1> QED BY <1>2, <1>3

\* The arguments of the calls of either response.
LEMMA CallsMean ==
  ASSUME Inv PROVE CallsAreMeant
<1>1. CASE phase # "done"
  <2>1. response = <<>>
    BY <1>1 DEF Inv, Answered
  <2>2. DOMAIN response = {}
    BY <2>1
  <2> QED BY <1>1, <2>2 DEF CallsAreMeant
<1>2. CASE phase = "done"
  <2> DEFINE T == IF streaming THEN Started ELSE Tools
             J == [b \in DOMAIN reply |-> IF streaming THEN blocks[b].json ELSE Whole(b)]
             I == IF streaming THEN HeldInputs ELSE BodyInputs
  <2>1. response \in Seq(Responses) /\ CallsOf(response, T, I)
    <3>1. CASE streaming
      BY <1>2, <3>1, StreamedCalls DEF Inv, Answered
    <3>2. CASE ~streaming
      BY <1>2, <3>2, WholeReplyCalls DEF Inv, Answered
    <3> QED BY <3>1, <3>2
  <2>2. ASSUME NEW b \in T
        PROVE  /\ b \in DOMAIN reply /\ reply[b].kind = "tool"
               /\ J[b] \in Seq(Fragments)
               /\ \A n \in 1..Len(J[b]) : J[b][n].of = b /\ J[b][n].n = n
               /\ Len(J[b]) = IF streaming THEN ReadOf(b) ELSE reply[b].fragments
    <3>1. b \in DOMAIN reply /\ reply[b].kind = "tool"
      BY DEF Started, Tools
    <3>2. CASE streaming
      <4>1. J[b] = blocks[b].json
        BY <3>1, <3>2
      <4>2. Collected(blocks[b].json, b)
        BY <3>1 DEF Inv, Held, CallHeld
      <4>3. blocks[b] \in Pending
        BY <3>1 DEF Inv, Types
      <4>4. blocks[b].json \in Seq(Fragments)
        BY <4>3 DEF Pending
      <4> HIDE DEF J
      <4> QED BY <3>1, <3>2, <4>1, <4>2, <4>4 DEF Collected
    <3>3. CASE ~streaming
      <4>1. J[b] = Whole(b)
        BY <3>1, <3>3
      <4>2. /\ Whole(b) \in Seq(Fragments) /\ Len(Whole(b)) = reply[b].fragments
            /\ \A n \in 1..Len(Whole(b)) : Whole(b)[n].of = b /\ Whole(b)[n].n = n
        BY <3>1, WholeIs
      <4> HIDE DEF J
      <4> QED BY <3>1, <3>3, <4>1, <4>2
    <3> QED BY <3>2, <3>3
  <2>3. DOMAIN response = 1..Len(response)
    BY <2>1
  <2>4. T = {b \in DOMAIN reply : reply[b].kind = "tool" /\ (streaming => LinesOf(b) > 0)}
    BY DEF Started, Tools
  <2>8. ASSUME NEW b \in T
        PROVE  I[b] = IF reply[b].absent /\ ~streaming THEN NoInput ELSE Parsed(J[b])
    <3>1. b \in DOMAIN reply
      BY <2>2
    <3> QED BY <3>1, InputsFit DEF HeldInputs
  <2> HIDE DEF T, J, I
  <2>5. /\ \A i \in 1..Len(response) : response[i].kind = "tool" =>
             response[i].tool \in T
             /\ response[i] = ToolBlock(response[i].tool, I[response[i].tool])
        /\ \A i, j \in 1..Len(response) :
             i < j /\ response[i].kind = "tool" /\ response[j].kind = "tool"
               => response[i].tool < response[j].tool
        /\ \A b \in T : \E i \in 1..Len(response) : response[i] = ToolBlock(b, I[b])
    BY <2>1 DEF CallsOf
  <2>6. ASSUME NEW i \in 1..Len(response), response[i].kind = "tool"
        PROVE  LET b == response[i].tool
               IN  /\ b \in DOMAIN reply /\ reply[b].kind = "tool"
                   /\ \A j \in 1..(i - 1) : response[j].kind = "tool" => response[j].tool < b
                   /\ IF reply[b].fragments > 0 /\ (~streaming \/ ReadOf(b) = reply[b].fragments)
                        THEN /\ response[i].input.is = "json"
                             /\ Len(response[i].input.of) = reply[b].fragments
                             /\ \A n \in DOMAIN response[i].input.of :
                                  response[i].input.of[n].of = b /\ response[i].input.of[n].n = n
                        ELSE response[i].input.is =
                               IF reply[b].absent /\ ~streaming THEN "none" ELSE "fallback"
    <3>1. PICK b \in T : b = response[i].tool
      BY <2>5, <2>6
    <3>2. /\ response[i].input = IF reply[b].absent /\ ~streaming THEN NoInput ELSE Parsed(J[b])
          /\ reply[b].absent => reply[b].fragments = 0
      <4>1. response[i].input = I[b]
        BY <2>5, <2>6, <3>1, ToolBlockIs
      <4> QED BY <2>2, <2>8, <4>1 DEF Inv, Types
    <3>3. /\ b \in DOMAIN reply /\ reply[b].kind = "tool" /\ J[b] \in Seq(Fragments)
          /\ \A n \in 1..Len(J[b]) : J[b][n].of = b /\ J[b][n].n = n
          /\ Len(J[b]) = IF streaming THEN ReadOf(b) ELSE reply[b].fragments
      BY <2>2
    <3>4. IF reply[b].fragments > 0 /\ Len(J[b]) = reply[b].fragments
            THEN Parsed(J[b]).is = "json" /\ Parsed(J[b]).of = J[b]
            ELSE Parsed(J[b]).is = "fallback"
      BY <3>3, ParsedIs
    <3>5. DOMAIN J[b] = 1..Len(J[b])
      BY <3>3
    <3>6. ASSUME NEW j \in 1..(i - 1), response[j].kind = "tool" PROVE response[j].tool < b
      <4>1. j \in 1..Len(response) /\ j < i
        BY <2>1
      <4> QED BY <2>5, <2>6, <3>1, <3>6, <4>1
    <3> DEFINE in == response[i].input
    <3>7. IF reply[b].fragments > 0 /\ (~streaming \/ ReadOf(b) = reply[b].fragments)
            THEN in.is = "json" /\ in.of = J[b] /\ Len(J[b]) = reply[b].fragments
            ELSE in.is = IF reply[b].absent /\ ~streaming THEN "none" ELSE "fallback"
      <4> DEFINE ended == reply[b].fragments > 0 /\ (~streaming \/ ReadOf(b) = reply[b].fragments)
      <4>1. ended <=> reply[b].fragments > 0 /\ Len(J[b]) = reply[b].fragments
        BY <3>3
      <4>2. CASE reply[b].absent /\ ~streaming
        <5>1. in.is = "none" /\ ~(reply[b].fragments > 0)
          BY <3>2, <4>2 DEF NoInput
        <5> QED BY <4>2, <5>1
      <4>3. CASE ~(reply[b].absent /\ ~streaming)
        <5>1. in = Parsed(J[b])
          BY <3>2, <4>3
        <5> QED BY <3>4, <4>1, <4>3, <5>1
      <4> QED BY <4>2, <4>3
    <3> HIDE DEF in
    <3>8. IF reply[b].fragments > 0 /\ (~streaming \/ ReadOf(b) = reply[b].fragments)
            THEN /\ in.is = "json" /\ Len(in.of) = reply[b].fragments
                 /\ \A n \in DOMAIN in.of : in.of[n].of = b /\ in.of[n].n = n
            ELSE in.is = IF reply[b].absent /\ ~streaming THEN "none" ELSE "fallback"
      BY <3>3, <3>5, <3>7
    <3> QED BY <3>1, <3>3, <3>6, <3>8 DEF in
  <2>7. ASSUME NEW b \in T
        PROVE  \E i \in 1..Len(response) : response[i].kind = "tool" /\ response[i].tool = b
    BY <2>5, ToolBlockIs
  <2> QED BY <2>3, <2>4, <2>6, <2>7 DEF CallsAreMeant
<1> QED BY <1>1, <1>2

-----------------------------------------------------------------------------
(* The texts of a streamed response.                                        *)

\* What was held of a text is what was shown of it.
LEMMA HeldWasShown ==
  ASSUME Inv, NEW b \in DOMAIN reply, NEW t \in Seq(Fragments), Collected(t, b),
         \A n \in 1..Len(t) : \E i \in 1..Len(shown) : shown[i] = t[n]
  PROVE  WhatWasShown(t, b)
<1>1. /\ DOMAIN t = 1..Len(t) /\ DOMAIN shown = 1..Len(shown) /\ Len(t) \in Nat
      /\ Len(shown) \in Nat
  BY DEF Inv, Types
<1>2. /\ Len(t) = ReadOf(b) /\ \A n \in 1..Len(t) : t[n].of = b /\ t[n].n = n
  BY DEF Collected
<1>3. ASSUME NEW p \in 1..Len(shown), shown[p].of = b
      PROVE  shown[p].n \in 1..Len(t) /\ t[shown[p].n] = shown[p]
  <2> DEFINE n == shown[p].n
  <2>1. n \in 1..Len(t)
    BY <1>2, <1>3 DEF Inv, ShownInOrder
  <2>2. PICK i \in 1..Len(shown) : shown[i] = t[n]
    BY <2>1
  <2>3. shown[i].of = b /\ shown[i].n = n
    BY <1>2, <2>1, <2>2
  <2>4. \A q, r \in 1..Len(shown) :
          q < r /\ shown[q].of = shown[r].of => shown[q].n < shown[r].n
    BY DEF Inv, ShownInOrder
  <2>5. ~(i < p) /\ ~(p < i)
    <3>1. n \in Nat /\ ~(n < n)
      BY <1>1, <2>1
    <3> QED BY <1>3, <2>3, <2>4, <3>1
  <2>6. i = p
    BY <1>1, <2>5
  <2> QED BY <2>1, <2>2, <2>6
<1>4. {t[k] : k \in DOMAIN t} = {shown[p] : p \in {q \in DOMAIN shown : shown[q].of = b}}
  <2>1. ASSUME NEW k \in DOMAIN t
        PROVE  \E p \in {q \in DOMAIN shown : shown[q].of = b} : t[k] = shown[p]
    <3>1. PICK i \in 1..Len(shown) : shown[i] = t[k]
      BY <1>1
    <3> QED BY <1>1, <1>2, <3>1
  <2>2. ASSUME NEW p \in {q \in DOMAIN shown : shown[q].of = b}
        PROVE  \E k \in DOMAIN t : shown[p] = t[k]
    BY <1>1, <1>3
  <2> QED BY <2>1, <2>2
<1>5. \A k, l \in DOMAIN t : k < l => t[k].n < t[l].n
  BY <1>1, <1>2
<1> QED BY <1>4, <1>5 DEF WhatWasShown

\* TextsAgree, by positions that are known.
TextsGood(rs) ==
  /\ \A i \in 1..Len(rs) : rs[i].kind = "text" =>
       /\ rs[i].text # <<>>
       /\ \E b \in DOMAIN reply : ~reply[b].blank /\ WhatWasShown(rs[i].text, b)
       /\ \A j \in 1..Len(rs) : j < i /\ rs[j].kind = "text" =>
            rs[j].text[1].of < rs[i].text[1].of
  /\ \A p \in 1..Len(shown) : ~reply[shown[p].of].blank =>
       \E i \in 1..Len(rs) : rs[i].kind = "text" /\ WhatWasShown(rs[i].text, shown[p].of)

\* A text of the response: the text held of block b, which is not of white
\* space.
HeldText(r, b) ==
  /\ b \in DOMAIN reply /\ ~reply[b].blank
  /\ r = TextBlock(blocks[b].text) /\ blocks[b].text \in Seq(Fragments)
  /\ blocks[b].text # <<>> /\ Collected(blocks[b].text, b)
  /\ WhatWasShown(blocks[b].text, b)

LEMMA AnthropicHolds ==
  ASSUME Inv, api # "openai", NEW b \in DOMAIN reply
  PROVE  LET t == blocks[b].text
         IN  /\ t \in Seq(Fragments)
             /\ TextBlocks(t) # <<>> => HeldText(TextBlock(t), b)
             /\ b \in Started => t = <<>>
             /\ b \notin Started /\ ~reply[b].blank /\ ReadOf(b) > 0 /\ reply[b].kind # "tool"
                  => TextBlocks(t) = <<TextBlock(t)>> /\ HeldText(TextBlock(t), b)
<1> DEFINE t == blocks[b].text
<1>1. blocks[b] \in Pending
  BY DEF Inv, Types
<1>2. t \in Seq(Fragments)
  BY <1>1 DEF Pending
<1>3. IF reply[b].kind = "tool" THEN CallHeld(b) ELSE TextHeld(b)
  BY DEF Inv, Held
<1>4. reply[b].kind = "tool" => t = <<>>
  BY <1>3 DEF CallHeld
<1>5. reply[b].kind # "tool" =>
        /\ Collected(t, b)
        /\ \A n \in 1..Len(t) : \E i \in 1..Len(shown) : shown[i] = t[n]
  BY <1>3 DEF TextHeld
<1> HIDE DEF t
<1>6. reply[b].kind # "tool" => WhatWasShown(t, b)
  BY <1>2, <1>5, HeldWasShown
<1>7. /\ TextBlocks(t) = <<>> \/ TextBlocks(t) = <<TextBlock(t)>>
      /\ TextBlocks(t) # <<>> <=> \E i \in 1..Len(t) : ~reply[t[i].of].blank
  BY <1>2, TextBlocksIs
<1>8. ASSUME \E i \in 1..Len(t) : ~reply[t[i].of].blank PROVE HeldText(TextBlock(t), b)
  <2>1. PICK i \in 1..Len(t) : ~reply[t[i].of].blank
    BY <1>8
  <2>2. t # <<>>
    BY <2>1
  <2>3. reply[b].kind # "tool"
    BY <1>4, <2>2
  <2>4. t[i].of = b
    BY <1>5, <2>1, <2>3 DEF Collected
  <2> QED BY <1>2, <1>5, <1>6, <2>1, <2>2, <2>3, <2>4 DEF HeldText, t
<1>9. ASSUME ~reply[b].blank, ReadOf(b) > 0, reply[b].kind # "tool"
      PROVE  \E i \in 1..Len(t) : ~reply[t[i].of].blank
  <2>1. Len(t) = ReadOf(b) /\ \A n \in 1..Len(t) : t[n].of = b
    BY <1>5, <1>9 DEF Collected
  <2>2. 1 \in 1..Len(t)
    <3>1. Len(t) \in Nat
      BY <1>2
    <3> QED BY <1>9, <2>1, <3>1
  <2> QED BY <1>9, <2>1, <2>2
<1> QED BY <1>2, <1>4, <1>7, <1>8, <1>9 DEF Started, t

LEMMA AnthropicTexts ==
  ASSUME Inv, api # "openai" PROVE TextsGood(Assembled)
<1> DEFINE rs == Lists!FlattenSeq(HeldList)
<1>1. Assembled = rs
  <2>1. text = <<>>
    BY DEF Inv, Held
  <2>2. TextBlocks(text) = <<>>
    BY <2>1 DEF TextBlocks
  <2>3. rs \in Seq(Responses)
    BY HeldListIs, FlattenType
  <2> HIDE DEF rs
  <2>4. <<>> \o rs = rs
    BY <2>3, ConcatEmptySeq
  <2> QED BY <2>2, <2>4, AssembledIs DEF rs
<1>2. /\ Len(HeldList) = Len(reply) /\ DOMAIN reply = 1..Len(reply)
      /\ HeldList \in Seq(Seq(Responses)) /\ Singles(HeldList)
      /\ \A b \in DOMAIN reply :
           HeldList[b] = IF b \in Started THEN <<ToolBlock(b, Parsed(blocks[b].json))>>
                         ELSE TextBlocks(blocks[b].text)
  BY HeldListIs
<1>3. PICK at : Picks(HeldList, rs, at)
  BY <1>2, FlattenPicks
<1> HIDE DEF rs
<1>4. /\ \A m \in 1..Len(rs) : at[m] \in DOMAIN reply /\ HeldList[at[m]] = <<rs[m]>>
      /\ \A m, l \in 1..Len(rs) : m < l => at[m] < at[l]
      /\ \A i \in DOMAIN reply : HeldList[i] # <<>> => \E m \in 1..Len(rs) : at[m] = i
  BY <1>2, <1>3 DEF Picks
<1>5. \A x, y : <<x>> # <<>> /\ (<<x>> = <<y>> => x = y)
  OBVIOUS
<1>6. ASSUME NEW m \in 1..Len(rs), rs[m].kind = "text" PROVE HeldText(rs[m], at[m])
  <2>1. PICK b \in DOMAIN reply : b = at[m]
    BY <1>4
  <2>2. HeldList[b] = <<rs[m]>>
    BY <1>4, <2>1
  <2>3. b \notin Started
    <3> SUFFICES ASSUME b \in Started PROVE FALSE
      OBVIOUS
    <3>1. rs[m] = ToolBlock(b, Parsed(blocks[b].json))
      BY <1>2, <1>5, <2>2
    <3> QED BY <1>6, <3>1, ToolBlockIs
  <2>4. TextBlocks(blocks[b].text) = <<rs[m]>>
    BY <1>2, <2>2, <2>3
  <2>5. blocks[b].text \in Seq(Fragments) /\ HeldText(TextBlock(blocks[b].text), b)
    BY <1>5, <2>4, AnthropicHolds
  <2>6. rs[m] = TextBlock(blocks[b].text)
    <3> DEFINE t == blocks[b].text
    <3>1. TextBlocks(t) = <<>> \/ TextBlocks(t) = <<TextBlock(t)>>
      BY <2>5, TextBlocksIs
    <3> HIDE DEF t
    <3> QED BY <1>5, <2>4, <3>1 DEF t
  <2> QED BY <2>1, <2>5, <2>6
<1>7. \A t : TextBlock(t).text = t /\ TextBlock(t).kind = "text"
  BY DEF TextBlock
<1>8. ASSUME NEW m \in 1..Len(rs), rs[m].kind = "text"
      PROVE  /\ rs[m].text # <<>> /\ rs[m].text[1].of = at[m]
             /\ \E b \in DOMAIN reply : ~reply[b].blank /\ WhatWasShown(rs[m].text, b)
  <2>1. HeldText(rs[m], at[m])
    BY <1>6, <1>8
  <2>2. PICK b : b = at[m]
    OBVIOUS
  <2> DEFINE t == blocks[b].text
  <2>3. /\ rs[m].text = t /\ t # <<>> /\ t \in Seq(Fragments) /\ Collected(t, b)
        /\ b \in DOMAIN reply /\ ~reply[b].blank /\ WhatWasShown(t, b)
    BY <1>7, <2>1, <2>2 DEF HeldText
  <2> HIDE DEF t
  <2>4. 1 \in 1..Len(t)
    BY <2>3
  <2>5. t[1].of = b
    BY <2>3, <2>4 DEF Collected
  <2> QED BY <2>2, <2>3, <2>5
<1>9. ASSUME NEW p \in 1..Len(shown), ~reply[shown[p].of].blank
      PROVE  \E i \in 1..Len(rs) : rs[i].kind = "text" /\ WhatWasShown(rs[i].text, shown[p].of)
  <2>1. PICK b \in DOMAIN reply : b = shown[p].of
    BY DEF Inv, ShownInOrder
  <2>2. reply[b].kind = "text" /\ shown[p].n \in 1..ReadOf(b)
    BY <2>1 DEF Inv, ShownInOrder
  <2>3. ReadOf(b) > 0 /\ reply[b].kind # "tool" /\ b \notin Started
    <3>1. ReadOf(b) \in Nat
      BY Facts
    <3> QED BY <2>2, <3>1 DEF Started
  <2> DEFINE t == blocks[b].text
  <2>4. TextBlocks(t) = <<TextBlock(t)>> /\ HeldText(TextBlock(t), b)
    BY <1>9, <2>1, <2>2, <2>3, AnthropicHolds
  <2>5. HeldList[b] = <<TextBlock(t)>>
    BY <1>2, <2>3, <2>4
  <2> HIDE DEF t
  <2>6. PICK m \in 1..Len(rs) : at[m] = b
    BY <1>4, <1>5, <2>5
  <2>7. rs[m] = TextBlock(t)
    BY <1>4, <1>5, <2>5, <2>6
  <2>8. WhatWasShown(t, b)
    BY <2>4 DEF HeldText, t
  <2> QED BY <1>7, <2>1, <2>7, <2>8
<1>10. \A i, j \in 1..Len(rs) :
         j < i /\ rs[i].kind = "text" /\ rs[j].kind = "text" => rs[j].text[1].of < rs[i].text[1].of
  BY <1>4, <1>8
<1>11. TextsGood(rs)
  BY <1>8, <1>9, <1>10 DEF TextsGood
<1> QED BY <1>1, <1>11

\* A message of openai has one text: all that is shown is of it.
LEMMA OpenAiShown ==
  ASSUME Inv, api = "openai", NEW b \in DOMAIN reply, reply[b].kind = "text"
  PROVE  /\ \A p \in 1..Len(shown) : shown[p].of = b
         /\ WhatWasShown(shown, b)
<1>1. \A p \in 1..Len(shown) : shown[p].of = b
  BY DEF Inv, ShownInOrder, OneText
<1>2. DOMAIN shown = 1..Len(shown)
  BY DEF Inv, Types
<1>3. {shown[k] : k \in DOMAIN shown} = {shown[p] : p \in {q \in DOMAIN shown : shown[q].of = b}}
  BY <1>1, <1>2
<1>4. \A k, l \in DOMAIN shown : k < l => shown[k].n < shown[l].n
  BY <1>1, <1>2 DEF Inv, ShownInOrder
<1> QED BY <1>1, <1>3, <1>4 DEF WhatWasShown

\* Its map holds calls alone.
LEMMA OpenAiHolds ==
  ASSUME Inv, api = "openai"
  PROVE  LET flat == Lists!FlattenSeq(HeldList)
         IN  /\ flat \in Seq(Responses) /\ \A i \in 1..Len(flat) : flat[i].kind = "tool"
             /\ \A b \in DOMAIN reply \ Started : HeldList[b] = <<>>
<1> DEFINE flat == Lists!FlattenSeq(HeldList)
<1>1. /\ Len(HeldList) = Len(reply) /\ DOMAIN reply = 1..Len(reply)
      /\ HeldList \in Seq(Seq(Responses)) /\ Singles(HeldList)
      /\ \A b \in DOMAIN reply :
           HeldList[b] = IF b \in Started THEN <<ToolBlock(b, Parsed(blocks[b].json))>>
                         ELSE TextBlocks(blocks[b].text)
  BY HeldListIs
<1>2. PICK at : Picks(HeldList, flat, at)
  BY <1>1, FlattenPicks
<1>3. flat \in Seq(Responses)
  BY <1>1, FlattenType
<1> HIDE DEF flat
<1>4. TextBlocks(<<>>) = <<>>
  BY DEF TextBlocks
<1>5. \A b \in DOMAIN reply : blocks[b].text = <<>>
  BY DEF Inv, Held, CallHeld, TextHeld
<1>6. \A b \in DOMAIN reply \ Started : HeldList[b] = <<>>
  BY <1>1, <1>4, <1>5
<1>7. ASSUME NEW i \in 1..Len(flat) PROVE flat[i].kind = "tool"
  <2>1. at[i] \in DOMAIN reply /\ HeldList[at[i]] = <<flat[i]>>
    BY <1>1, <1>2 DEF Picks
  <2>2. PICK b \in DOMAIN reply : HeldList[b] = <<flat[i]>>
    BY <2>1
  <2>3. \A x, y : <<x>> # <<>> /\ (<<x>> = <<y>> => x = y)
    OBVIOUS
  <2>4. b \in Started
    BY <1>6, <2>2, <2>3
  <2>5. flat[i] = ToolBlock(b, Parsed(blocks[b].json))
    BY <1>1, <2>2, <2>3, <2>4
  <2> QED BY <2>5, ToolBlockIs
<1> QED BY <1>3, <1>6, <1>7 DEF flat

LEMMA OpenAiTexts ==
  ASSUME Inv, api = "openai" PROVE TextsGood(Assembled)
<1> DEFINE first == TextBlocks(shown)
           rest == Lists!FlattenSeq(HeldList)
           rs == first \o rest
           one == TextBlock(shown)
<1>1. Assembled = rs
  <2>1. text = shown
    BY DEF Inv, Held
  <2> QED BY <2>1, AssembledIs
<1>2. shown \in Seq(Fragments) /\ DOMAIN shown = 1..Len(shown)
  BY DEF Inv, Types
<1>3. /\ first \in Seq(Responses) /\ Len(first) <= 1
      /\ \A i \in 1..Len(first) : first[i] = one
      /\ first = <<>> \/ first = <<one>>
      /\ first # <<>> <=> \E i \in 1..Len(shown) : ~reply[shown[i].of].blank
      /\ one.kind = "text" /\ one.text = shown
  BY <1>2, TextBlocksIs
<1>4. rest \in Seq(Responses) /\ \A i \in 1..Len(rest) : rest[i].kind = "tool"
  BY OpenAiHolds
<1> HIDE DEF first, rest, one
<1>5. /\ rs \in Seq(Responses) /\ Len(rs) = Len(first) + Len(rest)
      /\ \A i \in 1..(Len(first) + Len(rest)) :
           rs[i] = IF i <= Len(first) THEN first[i] ELSE rest[i - Len(first)]
  BY <1>3, <1>4, ConcatProperties
<1> DEFINE k == Len(first)
           l == Len(rest)
<1>6. k \in Nat /\ l \in Nat /\ k <= 1 /\ Len(rs) = k + l
  BY <1>3, <1>4, <1>5
<1>7. /\ \A i \in 1..(k + l) : rs[i] = IF i <= k THEN first[i] ELSE rest[i - k]
      /\ \A i \in 1..k : first[i] = one
      /\ \A i \in 1..l : rest[i].kind = "tool"
      /\ first = <<>> => k = 0
      /\ first = <<one>> => k = 1
  <2>1. Len(<<>>) = 0 /\ Len(<<one>>) = 1
    OBVIOUS
  <2> QED BY <1>3, <1>4, <1>5, <2>1
<1> HIDE DEF rs, k, l
<1>8. ASSUME NEW i \in 1..(k + l), rs[i].kind = "text"
      PROVE  i = 1 /\ k = 1 /\ rs[i] = one /\ first # <<>>
  <2>1. i <= k
    <3> SUFFICES ASSUME ~(i <= k) PROVE FALSE
      OBVIOUS
    <3>1. i - k \in 1..l /\ rs[i] = rest[i - k]
      BY <1>6, <1>7
    <3> QED BY <1>7, <1>8, <3>1
  <2>2. i = 1 /\ k = 1
    BY <1>6, <2>1
  <2> QED BY <1>6, <1>7, <2>2
<1>9. \A p \in 1..Len(shown) :
        \E b \in DOMAIN reply : shown[p].of = b /\ WhatWasShown(shown, b)
  <2> TAKE p \in 1..Len(shown)
  <2>1. PICK b \in DOMAIN reply : b = shown[p].of /\ reply[b].kind = "text"
    BY DEF Inv, ShownInOrder
  <2> QED BY <2>1, OpenAiShown
<1>10. ASSUME NEW i \in 1..(k + l), rs[i].kind = "text"
       PROVE  /\ rs[i].text # <<>>
              /\ \E b \in DOMAIN reply : ~reply[b].blank /\ WhatWasShown(rs[i].text, b)
              /\ \A j \in 1..(k + l) : j < i /\ rs[j].kind = "text" =>
                   rs[j].text[1].of < rs[i].text[1].of
  <2>1. rs[i].text = shown /\ first # <<>> /\ i = 1
    BY <1>3, <1>8, <1>10
  <2>2. PICK p \in 1..Len(shown) : ~reply[shown[p].of].blank
    BY <1>3, <2>1
  <2>3. shown # <<>>
    BY <2>2
  <2>4. \A j \in 1..(k + l) : ~(j < 1)
    BY <1>6
  <2> QED BY <1>9, <2>1, <2>2, <2>3, <2>4
<1>11. ASSUME NEW p \in 1..Len(shown), ~reply[shown[p].of].blank
       PROVE  \E i \in 1..(k + l) : rs[i].kind = "text" /\ WhatWasShown(rs[i].text, shown[p].of)
  <2>1. k = 1
    BY <1>3, <1>7, <1>11
  <2>2. 1 \in 1..(k + l) /\ 1 <= k /\ 1 \in 1..k
    BY <1>6, <2>1
  <2>3. rs[1] = one
    BY <1>7, <2>2
  <2>4. WhatWasShown(shown, shown[p].of)
    BY <1>9
  <2> QED BY <1>3, <2>2, <2>3, <2>4
<1>12. TextsGood(rs)
  BY <1>6, <1>10, <1>11 DEF TextsGood
<1> QED BY <1>1, <1>12

LEMMA StreamedTexts ==
  ASSUME Inv, phase = "done", streaming PROVE TextsAgree
<1>1. response = Assembled
  BY DEF Inv, Answered
<1>2. TextsGood(response) /\ response \in Seq(Responses)
  <2>1. TextsGood(Assembled) /\ Assembled \in Seq(Responses)
    BY AnthropicTexts, OpenAiTexts, StreamedCalls
  <2> QED BY <1>1, <2>1
<1>3. /\ DOMAIN response = 1..Len(response) /\ Len(response) \in Nat
      /\ DOMAIN shown = 1..Len(shown)
  BY <1>2 DEF Inv, Types
<1>4. \A i \in 1..Len(response) : \A j \in 1..(i - 1) : j \in 1..Len(response) /\ j < i
  BY <1>3
<1> QED BY <1>2, <1>3, <1>4 DEF TextsGood, TextsAgree

-----------------------------------------------------------------------------
(* A reply that was read to its end.                                        *)

\* What was collected of a block is the block.
LEMMA CollectedWhole ==
  ASSUME Inv, ~Wide, AllRead, NEW b \in DOMAIN reply, NEW fs \in Seq(Fragments), Collected(fs, b)
  PROVE  fs = Whole(b)
<1>1. /\ Whole(b) \in Seq(Fragments) /\ Len(Whole(b)) = reply[b].fragments
      /\ \A n \in 1..reply[b].fragments : Whole(b)[n] = Fragment(b, n)
  BY WholeIs
<1>2. ReadOf(b) = reply[b].fragments
  <2>1. sent[b] = reply[b].fragments + 1 /\ line = NoLine /\ b # 0
    BY Facts DEF AllRead
  <2>2. LinesOf(b) = reply[b].fragments + 1 /\ reply[b].fragments \in Nat
    BY <2>1, Facts DEF LinesOf, NoLine
  <2> QED BY <2>2 DEF ReadOf
<1>3. Len(fs) = reply[b].fragments
  BY <1>2 DEF Collected
<1>4. ASSUME NEW n \in 1..Len(fs) PROVE fs[n] = Fragment(b, n)
  <2>1. fs[n] \in Fragments /\ fs[n].of = b /\ fs[n].n = n /\ (fs[n].torn => Wide)
    BY DEF Collected
  <2>2. fs[n].torn \in BOOLEAN
    BY <2>1 DEF Fragments
  <2>3. fs[n].torn = FALSE
    BY <2>1, <2>2, Zenon
  <2> QED BY <2>1, <2>3 DEF Fragments, Fragment
<1> DEFINE w == Whole(b)
<1>5. w \in Seq(Fragments) /\ Len(w) = Len(fs) /\ \A n \in 1..Len(fs) : fs[n] = w[n]
  BY <1>1, <1>3, <1>4
<1> HIDE DEF w
<1>6. fs = w
  BY <1>5, SeqEqual
<1> QED BY <1>6 DEF w

LEMMA AllStarted ==
  ASSUME Inv, AllRead
  PROVE  /\ Started = Tools
         /\ \A b \in DOMAIN reply : ReadOf(b) = reply[b].fragments
<1>1. ASSUME NEW b \in DOMAIN reply PROVE LinesOf(b) > 0 /\ ReadOf(b) = reply[b].fragments
  <2>1. sent[b] = reply[b].fragments + 1 /\ line = NoLine /\ b # 0 /\ reply[b].fragments \in Nat
    BY Facts DEF AllRead
  <2>2. LinesOf(b) = reply[b].fragments + 1
    BY <2>1 DEF LinesOf, NoLine
  <2> QED BY <2>1, <2>2 DEF ReadOf
<1> QED BY <1>1 DEF Started, Tools

\* What is held of a call is the call, and anthropic's map holds its texts.
LEMMA WholeHeld ==
  ASSUME Inv, ~Wide, AllRead, NEW b \in DOMAIN reply
  PROVE  /\ reply[b].kind = "tool" => blocks[b].json = Whole(b)
         /\ reply[b].kind = "text" /\ api # "openai" => blocks[b].text = Whole(b)
<1>1. blocks[b] \in Pending
  BY DEF Inv, Types
<1>2. blocks[b].json \in Seq(Fragments) /\ blocks[b].text \in Seq(Fragments)
  BY <1>1 DEF Pending
<1>3. IF reply[b].kind = "tool" THEN CallHeld(b) ELSE TextHeld(b)
  BY DEF Inv, Held
<1>4. ASSUME reply[b].kind = "tool" PROVE blocks[b].json = Whole(b)
  <2>1. Collected(blocks[b].json, b)
    BY <1>3, <1>4 DEF CallHeld
  <2> QED BY <1>2, <2>1, CollectedWhole
<1>5. ASSUME reply[b].kind = "text", api # "openai" PROVE blocks[b].text = Whole(b)
  <2>1. Collected(blocks[b].text, b)
    BY <1>3, <1>5 DEF TextHeld
  <2> QED BY <1>2, <2>1, CollectedWhole
<1> QED BY <1>4, <1>5

\* The text of openai.
LEMMA ShownWhole ==
  ASSUME Inv, ~Wide, AllRead, api = "openai", NEW b \in DOMAIN reply, reply[b].kind = "text"
  PROVE  shown = Whole(b)
<1>1. /\ \A p \in 1..Len(shown) : shown[p].of = b
      /\ \A p \in 1..Len(shown) : shown[p].torn => Wide
  BY OpenAiShown DEF Inv, ShownInOrder
<1>2. /\ shown \in Seq(Fragments) /\ Len(shown) \in Nat
      /\ \A p \in 1..Len(shown) : shown[p] \in Fragments /\ shown[p].n \in Nat
  <2>1. shown \in Seq(Fragments)
    BY DEF Inv, Types
  <2>2. \A p \in 1..Len(shown) : shown[p] \in Fragments
    BY <2>1
  <2>3. \A r \in Fragments : r.n \in Nat
    BY DEF Fragments
  <2> QED BY <2>1, <2>2, <2>3
<1> DEFINE f == ReadOf(b)
           k == Len(shown)
           num == [p \in 1..Len(shown) |-> shown[p].n]
<1>3. f \in Nat
  BY Facts
<1>4. /\ \A p \in 1..Len(shown) : num[p] \in 1..f
      /\ \A p, q \in 1..Len(shown) : p < q => num[p] < num[q]
      /\ \A n \in 1..f : \E p \in 1..Len(shown) : num[p] = n
  BY <1>1 DEF Inv, ShownInOrder
<1>5. k \in Nat /\ \A p \in 1..k : num[p] = shown[p].n
  BY <1>2
<1>6. Grows(num, k, f)
  BY <1>4 DEF Grows
<1> HIDE DEF f, num, k
<1>7. k = f /\ \A p \in 1..k : num[p] = p
  BY <1>3, <1>5, <1>6, Counting
<1>8. Collected(shown, b)
  BY <1>1, <1>5, <1>7 DEF Collected, f, k
<1> QED BY <1>2, <1>8, CollectedWhole

\* A list of at most one element.
LEMMA OneOrNone ==
  ASSUME NEW S, NEW s \in Seq(S), NEW r \in S
  PROVE  /\ Len(s) = 0 => s = <<>>
         /\ Len(s) = 1 /\ s[1] = r => s = <<r>>
OBVIOUS

\* The text that was collected is the text of the whole reply.
LEMMA WholeTextShown ==
  ASSUME Inv, ~Wide, AllRead, api = "openai"
  PROVE  Lists!FlattenSeq(WholeTexts) = TextBlocks(shown)
<1> DEFINE rs == Lists!FlattenSeq(WholeTexts)
           one == TextBlock(shown)
           some == TextBlocks(shown)
<1>1. /\ DOMAIN reply = 1..Len(reply) /\ Len(reply) \in Nat
      /\ WholeTexts \in Seq(Seq(Responses)) /\ Len(WholeTexts) = Len(reply)
      /\ Singles(WholeTexts)
      /\ \A b \in DOMAIN reply : WholeTexts[b] = WholeText(b)
  BY InputsFit, WholeListsAre
<1>2. PICK at : Picks(WholeTexts, rs, at)
  BY <1>1, FlattenPicks
<1>3. rs \in Seq(Responses)
  BY <1>1, FlattenType
<1>4. shown \in Seq(Fragments) /\ DOMAIN shown = 1..Len(shown)
  BY DEF Inv, Types
<1>5. one \in Responses /\ (some = <<>> \/ some = <<one>>)
  BY <1>4, TextBlocksIs
<1> HIDE DEF rs, one
<1>6. /\ \A m \in 1..Len(rs) : at[m] \in DOMAIN reply /\ WholeText(at[m]) = <<rs[m]>>
      /\ \A m, l \in 1..Len(rs) : m < l => at[m] < at[l]
      /\ \A i \in DOMAIN reply : WholeText(i) # <<>> => \E m \in 1..Len(rs) : at[m] = i
  BY <1>1, <1>2 DEF Picks
<1>7. \A x, y : <<x>> # <<>> /\ (<<x>> = <<y>> => x = y)
  OBVIOUS
<1>8. \A m \in 1..Len(rs) : reply[at[m]].kind = "text"
  BY <1>6, <1>7 DEF WholeText
<1>9. Len(rs) \in Nat
  BY <1>3
<1>10. CASE \A b \in DOMAIN reply : reply[b].kind # "text"
  <2>1. \A m \in 1..Len(rs) : FALSE
    BY <1>6, <1>8, <1>10
  <2>2. Len(rs) = 0
    <3>1. Len(rs) # 0 => 1 \in 1..Len(rs)
      BY <1>9
    <3> QED BY <2>1, <3>1
  <2>3. \A p \in 1..Len(shown) : FALSE
    BY <1>10 DEF Inv, ShownInOrder
  <2>4. some = <<>>
    BY <2>3, <1>4, TextBlocksIs
  <2>5. rs = <<>>
    BY <1>3, <1>5, <2>2, OneOrNone
  <2> QED BY <2>4, <2>5 DEF rs
<1>11. CASE \E b \in DOMAIN reply : reply[b].kind = "text"
  <2>1. PICK b \in DOMAIN reply : reply[b].kind = "text"
    BY <1>11
  <2>2. WholeText(b) = some
    <3>1. shown = Whole(b)
      BY <2>1, ShownWhole
    <3> QED BY <2>1, <3>1 DEF WholeText
  <2>3. \A m \in 1..Len(rs) : at[m] = b
    BY <1>6, <1>8, <2>1 DEF Inv, OneText
  <2>4. \A m \in 1..Len(rs) : <<rs[m]>> = some
    BY <1>6, <2>2, <2>3
  <2>5. ~(1 < Len(rs))
    <3> SUFFICES ASSUME 1 < Len(rs) PROVE FALSE
      OBVIOUS
    <3>1. 1 \in 1..Len(rs) /\ 2 \in 1..Len(rs)
      BY <1>9
    <3>2. at[1] < at[2] /\ at[1] = b /\ at[2] = b
      BY <1>6, <2>3, <3>1
    <3>3. b \in Nat
      BY Facts
    <3> QED BY <3>2, <3>3
  <2> HIDE DEF some
  <2>6. CASE some = <<>>
    <3>1. \A m \in 1..Len(rs) : FALSE
      BY <1>7, <2>4, <2>6
    <3>2. Len(rs) # 0 => 1 \in 1..Len(rs)
      BY <1>9
    <3>3. rs = <<>>
      BY <1>3, <1>5, <3>1, <3>2, OneOrNone
    <3> QED BY <2>6, <3>3 DEF rs, some
  <2>7. CASE some = <<one>>
    <3>1. WholeText(b) # <<>>
      BY <1>7, <2>2, <2>7
    <3>2. PICK m \in 1..Len(rs) : at[m] = b
      BY <1>6, <3>1
    <3>3. Len(rs) = 1
      <4>1. \A l \in Nat : \A i \in 1..l : ~(1 < l) => l = 1
        OBVIOUS
      <4> QED BY <1>9, <2>5, <3>2, <4>1
    <3>4. rs[1] = one
      <4>1. 1 \in 1..Len(rs)
        BY <3>3
      <4> QED BY <1>7, <2>4, <2>7, <4>1
    <3>5. rs = <<one>>
      BY <1>3, <1>5, <3>3, <3>4, OneOrNone
    <3> QED BY <2>7, <3>5 DEF rs, some
  <2> QED BY <1>5, <2>6, <2>7 DEF some
<1> QED BY <1>10, <1>11

\* A response without texts of white space is solid.
LEMMA SolidIs ==
  ASSUME NEW rs \in Seq(Responses),
         \A i \in 1..Len(rs) : rs[i].kind = "text" => TextBlocks(rs[i].text) = <<rs[i]>>
  PROVE  Solid(rs) = rs
<1>1. DOMAIN rs = 1..Len(rs)
  OBVIOUS
<1>2. [i \in DOMAIN rs |-> IF rs[i].kind = "text" THEN TextBlocks(rs[i].text) ELSE <<rs[i]>>]
        = [i \in 1..Len(rs) |-> <<rs[i]>>]
  BY <1>1
<1>3. Solid(rs) = Lists!FlattenSeq([i \in 1..Len(rs) |-> <<rs[i]>>])
  BY <1>2, FlattensAlike DEF Solid
<1> QED BY <1>3, FlattenOnes

\* The calls that are held are those of the whole reply, and for anthropic
\* its texts are too.
LEMMA HeldWhole ==
  ASSUME Inv, ~Wide, AllRead, NEW b \in DOMAIN reply
  PROVE  /\ reply[b].kind = "tool" => HeldList[b] = <<ToolBlock(b, StreamInputs[b])>>
         /\ reply[b].kind # "tool" =>
              HeldList[b] = IF api = "openai" THEN <<>> ELSE TextBlocks(Whole(b))
<1>1. /\ HeldList[b] = IF b \in Started THEN <<ToolBlock(b, Parsed(blocks[b].json))>>
                       ELSE TextBlocks(blocks[b].text)
      /\ b \in Started <=> reply[b].kind = "tool"
  BY HeldListIs, AllStarted DEF Tools
<1>2. ASSUME reply[b].kind = "tool" PROVE HeldList[b] = <<ToolBlock(b, StreamInputs[b])>>
  <2>1. blocks[b].json = Whole(b)
    BY <1>2, WholeHeld
  <2>2. StreamInputs[b] = Parsed(Whole(b))
    BY DEF StreamInputs
  <2> QED BY <1>1, <1>2, <2>1, <2>2
<1>3. ASSUME reply[b].kind # "tool", api # "openai" PROVE HeldList[b] = TextBlocks(Whole(b))
  <2>1. reply[b].kind = "text"
    <3>1. reply[b] \in Blocks
      BY Facts
    <3> QED BY <1>3, <3>1 DEF Blocks
  <2> QED BY <1>1, <1>3, <2>1, WholeHeld
<1>4. ASSUME reply[b].kind # "tool", api = "openai" PROVE HeldList[b] = <<>>
  BY <1>1, <1>4, OpenAiHolds
<1> QED BY <1>2, <1>3, <1>4

LEMMA OpenAiAgrees ==
  ASSUME Inv, ~Wide, AllRead, api = "openai"
  PROVE  Assembled = Solid(ReplyWith(StreamInputs))
<1> DEFINE first == Lists!FlattenSeq(WholeTexts)
           rest == Lists!FlattenSeq(WholeCalls(StreamInputs))
           rs == first \o rest
<1>1. HeldList = WholeCalls(StreamInputs)
  <2>1. \A b \in DOMAIN reply : HeldList[b] = WholeCall(StreamInputs, b)
    BY HeldWhole DEF WholeCall
  <2>2. HeldList = [b \in DOMAIN reply |-> HeldList[b]]
    BY DEF HeldList
  <2> QED BY <2>1, <2>2 DEF WholeCalls
<1>2. Assembled = rs
  <2>1. text = shown
    BY DEF Inv, Held
  <2> QED BY <1>1, <2>1, AssembledIs, WholeTextShown
<1>3. ReplyWith(StreamInputs) = rs
  BY ReplyIs
<1>4. /\ first \in Seq(Responses)
      /\ \A i \in 1..Len(first) : \E b \in DOMAIN reply :
           first[i] = TextBlock(Whole(b)) /\ TextBlocks(Whole(b)) = <<TextBlock(Whole(b))>>
  BY FlatTexts
<1>5. rest \in Seq(Responses) /\ \A i \in 1..Len(rest) : rest[i].kind = "tool"
  <2>1. rest = Lists!FlattenSeq(HeldList)
    BY <1>1
  <2>2. LET flat == Lists!FlattenSeq(HeldList)
        IN  flat \in Seq(Responses) /\ \A i \in 1..Len(flat) : flat[i].kind = "tool"
    BY OpenAiHolds
  <2> QED BY <2>1, <2>2
<1> HIDE DEF first, rest
<1>6. /\ rs \in Seq(Responses) /\ Len(rs) = Len(first) + Len(rest)
      /\ \A i \in 1..(Len(first) + Len(rest)) :
           rs[i] = IF i <= Len(first) THEN first[i] ELSE rest[i - Len(first)]
      /\ Len(first) \in Nat /\ Len(rest) \in Nat
  BY <1>4, <1>5, ConcatProperties
<1> HIDE DEF rs
<1>7. ASSUME NEW i \in 1..Len(rs), rs[i].kind = "text"
      PROVE  TextBlocks(rs[i].text) = <<rs[i]>>
  <2>1. i <= Len(first)
    <3> SUFFICES ASSUME ~(i <= Len(first)) PROVE FALSE
      OBVIOUS
    <3>1. i - Len(first) \in 1..Len(rest) /\ i \in 1..(Len(first) + Len(rest))
      BY <1>6
    <3>2. rs[i] = rest[i - Len(first)]
      BY <1>6, <3>1
    <3> QED BY <1>5, <1>7, <3>1, <3>2
  <2>2. i \in 1..Len(first) /\ rs[i] = first[i]
    BY <1>6, <2>1
  <2>3. PICK b \in DOMAIN reply :
          first[i] = TextBlock(Whole(b)) /\ TextBlocks(Whole(b)) = <<TextBlock(Whole(b))>>
    BY <1>4, <2>2
  <2>4. rs[i].text = Whole(b)
    BY <2>2, <2>3 DEF TextBlock
  <2> QED BY <2>2, <2>3, <2>4
<1>8. Solid(rs) = rs
  BY <1>6, <1>7, SolidIs
<1> QED BY <1>2, <1>3, <1>8

LEMMA AnthropicAgrees ==
  ASSUME Inv, ~Wide, AllRead, api # "openai"
  PROVE  Assembled = Solid(ReplyWith(StreamInputs))
<1> DEFINE One(b) == IF reply[b].kind = "text" THEN TextBlock(Whole(b))
                         ELSE ToolBlock(b, StreamInputs[b])
           rs == [b \in DOMAIN reply |-> One(b)]
           Kept(r) == IF r.kind = "text" THEN TextBlocks(r.text) ELSE <<r>>
<1>1. ReplyWith(StreamInputs) = rs
  BY ReplyIs
<1>2. Assembled = Lists!FlattenSeq(HeldList)
  <2>1. text = <<>>
    BY DEF Inv, Held
  <2>2. TextBlocks(text) = <<>>
    BY <2>1 DEF TextBlocks
  <2> DEFINE flat == Lists!FlattenSeq(HeldList)
  <2>3. flat \in Seq(Responses)
    BY HeldListIs, FlattenType
  <2> HIDE DEF flat
  <2>4. <<>> \o flat = flat
    BY <2>3, ConcatEmptySeq
  <2> QED BY <2>2, <2>4, AssembledIs DEF flat
<1>3. ASSUME NEW b \in DOMAIN reply PROVE HeldList[b] = Kept(One(b))
  <2>1. reply[b].kind \in {"text", "tool"}
    <3>1. reply[b] \in Blocks
      BY Facts
    <3> QED BY <3>1 DEF Blocks
  <2>2. \A t : TextBlock(t).kind = "text" /\ TextBlock(t).text = t
    BY DEF TextBlock
  <2>3. CASE reply[b].kind = "text"
    <3>1. HeldList[b] = TextBlocks(Whole(b))
      BY <2>3, HeldWhole
    <3> QED BY <2>2, <2>3, <3>1
  <2>4. CASE reply[b].kind = "tool"
    <3>1. HeldList[b] = <<ToolBlock(b, StreamInputs[b])>>
      BY <2>4, HeldWhole
    <3>2. ToolBlock(b, StreamInputs[b]).kind = "tool"
      BY ToolBlockIs
    <3> QED BY <2>4, <3>1, <3>2
  <2> QED BY <2>1, <2>3, <2>4
<1> HIDE DEF One, Kept
<1>4. [i \in DOMAIN rs |-> Kept(rs[i])] = HeldList
  <2>1. DOMAIN rs = DOMAIN reply /\ \A b \in DOMAIN reply : rs[b] = One(b)
    OBVIOUS
  <2>2. HeldList = [b \in DOMAIN reply |-> HeldList[b]]
    BY DEF HeldList
  <2> HIDE DEF rs
  <2> QED BY <1>3, <2>1, <2>2
<1>5. Solid(rs) = Lists!FlattenSeq([i \in DOMAIN rs |-> Kept(rs[i])])
  <2> HIDE DEF rs
  <2> QED BY FlattensAlike DEF Solid, Kept
<1> QED BY <1>1, <1>2, <1>4, <1>5

LEMMA StreamsMatch ==
  ASSUME Inv PROVE StreamAgrees
<1>1. ASSUME phase = "done", streaming, ~Wide, AllRead
      PROVE  response = Solid(ReplyWith(StreamInputs))
  <2>1. response = Assembled
    BY <1>1 DEF Inv, Answered
  <2> QED BY <1>1, <2>1, OpenAiAgrees, AnthropicAgrees
<1>2. ASSUME \A b \in DOMAIN reply : ~reply[b].absent PROVE ParsedReply = ReplyWith(StreamInputs)
  <2>1. BodyInputs = StreamInputs
    BY <1>2 DEF BodyInputs, StreamInputs
  <2> QED BY <2>1 DEF ParsedReply
<1> QED BY <1>1, <1>2, StreamedTexts DEF StreamAgrees

-----------------------------------------------------------------------------
(* The theorems.                                                            *)

\* What is collected, held and shown of a reply is what was read of it.
THEOREM InvHolds == Spec => []Inv
<1> QED BY InvInit, InvStep, PTL DEF Spec

\* Without wide characters, the user is shown the fragments of the reply's
\* text that were read, once, in order and as they were sent, however the
\* reply was cut, wherever it ended, whatever failed before it came (sse.rs,
\* for_each_data; llm.rs, retry_request).  With them a character may be torn.
THEOREM ShownIsExact ==
  ASSUME ~Wide PROVE Spec => []StreamIsExact
<1>1. Inv => StreamIsExact
  BY ShownExact
<1> QED BY <1>1, InvHolds, PTL

\* A response calls the tools that the server called, all whose start was
\* read, each once, in its order and with its own arguments (apply_event,
\* apply_stream_delta, finish_stream, parse_response).
THEOREM CallsStayMeant == Spec => []CallsAreMeant
<1>1. Inv => CallsAreMeant
  BY CallsMean
<1> QED BY <1>1, InvHolds, PTL

\* The texts of a streamed response are those that were shown, and when the
\* reply was read to its end it is the response that the other method would
\* have given, but for the calls whose arguments are absent
\* (finish_stream against parse_response).
THEOREM StreamsAgree == Spec => []StreamAgrees
<1>1. Inv => StreamAgrees
  BY StreamsMatch
<1> QED BY <1>1, InvHolds, PTL

=============================================================================
