--------------------------- MODULE BashToolProofs ---------------------------
(***************************************************************************)
(* Theorems about BashTool, for any number of background processes, any    *)
(* capacities, any widths of the characters and any behaviour of the       *)
(* processes.                                                              *)
(***************************************************************************)
EXTENDS BashTool, SequenceTheorems, TLAPS

Events == [kind : {"call"}] \cup [kind : {"output"}, chunk : Chunk]
            \cup [kind : {"result"}, ok : BOOLEAN]

-----------------------------------------------------------------------------
(* Lemmas about the operators.                                              *)

\* Emitted events come behind the others, which stay where they are.
LEMMA EmitBehind ==
  ASSUME NEW es \in Seq(Events), events \in Seq(Events), Emit(es)
  PROVE  /\ events' \in Seq(Events) /\ Len(events') = Len(events) + Len(es)
         /\ Len(events) \in Nat /\ Len(es) \in Nat
         /\ \A i \in 1..Len(events) : events'[i] = events[i]
         /\ \A i \in 1..Len(es) : events'[Len(events) + i] = es[i]
<1> DEFINE n == Len(events)
<1>1. n \in Nat /\ Len(es) \in Nat
  BY LenProperties
<1>2. /\ events' \in Seq(Events) /\ Len(events') = n + Len(es)
      /\ \A i \in 1..(n + Len(es)) :
           events'[i] = IF i <= n THEN events[i] ELSE es[i - n]
  BY ConcatProperties DEF Emit
<1> HIDE DEF n
<1>3. \A i \in 1..n : events'[i] = events[i]
  BY <1>1, <1>2
<1>4. ASSUME NEW i \in 1..Len(es) PROVE events'[n + i] = es[i]
  <2>1. n + i \in 1..(n + Len(es)) /\ ~(n + i <= n) /\ n + i - n = i
    BY <1>1
  <2>2. events'[n + i] = IF n + i <= n THEN events[n + i] ELSE es[n + i - n]
    BY <1>1, <1>2, <2>1
  <2> QED BY <2>1, <2>2
<1> QED BY <1>1, <1>2, <1>3, <1>4 DEF n

\* Event i says that the call has succeeded.
Success(i) == events[i].kind = "result" /\ events[i].ok

\* Events that are neither output nor a success add none.
LEMMA EmitQuietly ==
  ASSUME NEW es \in Seq(Events), events \in Seq(Events), Emit(es),
         \A k \in 1..Len(es) : /\ es[k].kind # "output"
                               /\ ~(es[k].kind = "result" /\ es[k].ok)
  PROVE  /\ events' \in Seq(Events) /\ Len(events') \in Nat /\ Len(events) \in Nat
         /\ Len(events) <= Len(events')
         /\ \A i \in 1..Len(events) : events'[i] = events[i]
         /\ \A i \in 1..Len(events') : events'[i].kind = "output" => i \in 1..Len(events)
         /\ \A i \in 1..Len(events') : Success(i)' => i \in 1..Len(events)
<1>1. /\ events' \in Seq(Events) /\ Len(events') = Len(events) + Len(es)
      /\ Len(events) \in Nat /\ Len(es) \in Nat
      /\ \A i \in 1..Len(events) : events'[i] = events[i]
      /\ \A i \in 1..Len(es) : events'[Len(events) + i] = es[i]
  BY EmitBehind
<1>2. ASSUME NEW i \in 1..Len(events'), i \notin 1..Len(events)
      PROVE  events'[i].kind # "output" /\ ~Success(i)'
  <2>1. i - Len(events) \in 1..Len(es) /\ Len(events) + (i - Len(events)) = i
    BY <1>1, <1>2
  <2>2. events'[i] = es[i - Len(events)]
    BY <1>1, <2>1
  <2> QED BY <2>1, <2>2 DEF Success
<1> QED BY <1>1, <1>2

\* A text that is cut says so, and what is left of it is bounded by the cap.
LEMMA CapIsBounded ==
  ASSUME NEW cs \in Seq(Chunk), NEW max \in Nat, Cap(cs, max) # cs
  PROVE  /\ \E i \in DOMAIN Cap(cs, max) : Cap(cs, max)[i] = Marker
         /\ Len(Cap(cs, max)) <= max + 1
<1> DEFINE half == max \div 2
           head == SubSeq(cs, 1, IF Len(cs) < half THEN Len(cs) ELSE half)
           tail == IF Len(cs) < half THEN <<>> ELSE SubSeq(cs, Len(cs) - half + 1, Len(cs))
           M == Chunk \cup {Marker}
           mark == <<Marker>>
<1>1. half \in Nat /\ half + half <= max
  OBVIOUS
<1>2. Len(cs) \in Nat /\ \A i \in 1..Len(cs) : cs[i] \in M
  <2>1. \A i \in 1..Len(cs) : cs[i] \in Chunk
    OBVIOUS
  <2> QED BY <2>1, LenProperties
<1>3. Cap(cs, max) = head \o mark \o tail
  BY DEF Cap
<1> HIDE DEF half
<1>4. cs \in Seq(M)
  BY <1>2, SeqMonotonic
<1>5. head \in Seq(M) /\ Len(head) \in Nat /\ Len(head) <= half
  <2>1. CASE Len(cs) < half
    <3>1. head = SubSeq(cs, 1, Len(cs))
      BY <2>1
    <3>2. SubSeq(cs, 1, Len(cs)) \in Seq(M) /\ Len(SubSeq(cs, 1, Len(cs))) = Len(cs)
      BY <1>2, <1>4, SubSeqProperties
    <3> QED BY <1>1, <1>2, <2>1, <3>1, <3>2
  <2>2. CASE ~(Len(cs) < half)
    <3>1. head = SubSeq(cs, 1, half)
      BY <2>2
    <3>2. \A i \in 1..half : cs[i] \in M
      BY <1>1, <1>2, <2>2
    <3>3. SubSeq(cs, 1, half) \in Seq(M) /\ Len(SubSeq(cs, 1, half)) = half
      BY <1>1, <1>4, <3>2, SubSeqProperties
    <3> QED BY <1>1, <3>1, <3>3
  <2> QED BY <2>1, <2>2
<1>6. tail \in Seq(M) /\ Len(tail) \in Nat /\ Len(tail) <= half
  <2>1. CASE Len(cs) < half
    BY <1>1, <2>1
  <2>2. CASE ~(Len(cs) < half)
    <3>1. tail = SubSeq(cs, Len(cs) - half + 1, Len(cs))
      BY <2>2
    <3>2. \A i \in (Len(cs) - half + 1)..Len(cs) : cs[i] \in M
      BY <1>1, <1>2, <2>2
    <3>3. Len(cs) - half + 1 \in Int /\ Len(cs) \in Int
      BY <1>1, <1>2
    <3>4. /\ SubSeq(cs, Len(cs) - half + 1, Len(cs)) \in Seq(M)
          /\ Len(SubSeq(cs, Len(cs) - half + 1, Len(cs)))
               = IF Len(cs) - half + 1 <= Len(cs) THEN Len(cs) - (Len(cs) - half + 1) + 1 ELSE 0
      BY <1>4, <3>2, <3>3, SubSeqProperties
    <3> QED BY <1>1, <1>2, <3>1, <3>4
  <2> QED BY <2>1, <2>2
<1>7. mark \in Seq(M) /\ Len(mark) = 1 /\ mark[1] = Marker
  OBVIOUS
<1> HIDE DEF head, tail, mark, M
<1> DEFINE front == head \o mark
<1>8. /\ front \in Seq(M) /\ Len(front) = Len(head) + 1
      /\ front[Len(head) + 1] = Marker
  <2>1. /\ front \in Seq(M) /\ Len(front) = Len(head) + Len(mark)
        /\ \A i \in 1..(Len(head) + Len(mark)) :
             front[i] = IF i <= Len(head) THEN head[i] ELSE mark[i - Len(head)]
    BY <1>5, <1>7, ConcatProperties
  <2>2. /\ Len(head) + 1 \in 1..(Len(head) + 1) /\ ~(Len(head) + 1 <= Len(head))
        /\ Len(head) + 1 - Len(head) = 1
    BY <1>5
  <2> HIDE DEF front
  <2> QED BY <1>7, <2>1, <2>2
<1> HIDE DEF front
<1> DEFINE whole == front \o tail
<1>9. /\ whole \in Seq(M) /\ Len(whole) = Len(front) + Len(tail)
      /\ \A i \in 1..(Len(front) + Len(tail)) :
           whole[i] = IF i <= Len(front) THEN front[i] ELSE tail[i - Len(front)]
  BY <1>6, <1>8, ConcatProperties
<1> HIDE DEF whole
<1>10. Cap(cs, max) = whole
  BY <1>3 DEF whole, front
<1>11. Len(head) + 1 \in 1..Len(whole) /\ Len(whole) <= max + 1
  BY <1>1, <1>5, <1>6, <1>8, <1>9
<1>12. DOMAIN whole = 1..Len(whole)
  BY <1>9, LenProperties
<1>13. whole[Len(head) + 1] = Marker
  BY <1>5, <1>6, <1>8, <1>9, <1>11
<1> QED BY <1>10, <1>11, <1>12, <1>13

-----------------------------------------------------------------------------
(* The inductive invariant.                                                 *)

Codes == {"none", "0", "1", "killed"}

Types ==
  /\ pc \in {"idle", "loop", "reap", "done", "gone"}
  /\ why \in {"none", "exited", "interrupted", "timed out"}
  /\ proc \in [Procs -> {"none", "group", "away", "dead"}]
  /\ holds \in [Procs -> SUBSET Streams]
  /\ code \in Codes /\ status \in Codes
  /\ written \in [Streams -> Nat] /\ taken \in [Streams -> Nat]
  /\ reading \in SUBSET Streams /\ failed \in SUBSET Streams
  /\ chan \in Seq(Chunk) /\ acc \in Seq(Chunk)
  /\ pipes_open \in BOOLEAN /\ truncated \in BOOLEAN
  /\ events \in Seq(Events)

\* Before the call there is nothing.
Unstarted ==
  pc = "idle" =>
    /\ \A p \in Procs : proc[p] = "none" /\ holds[p] = {}
    /\ \A s \in Streams : written[s] = 0 /\ taken[s] = 0
    /\ chan = <<>> /\ events = <<>> /\ acc = <<>> /\ content = <<>>
    /\ reading = {} /\ pipes_open /\ status = "none" /\ why = "none"

\* A reader ends only behind the end of its pipe, unless a read fails, and the
\* loop sees the channel end only behind both.
Drained ==
  /\ \A s \in Streams : taken[s] <= written[s]
  /\ pc \in {"loop", "reap"} => \A s \in Streams \ (reading \cup failed) : AtEnd(s)
  /\ ~pipes_open => reading = {} /\ chan = <<>>

\* A dead shell has left a code; a status is that code, and a loop that ended by itself has one
\* and has seen the end of the channel.
Reaped ==
  /\ proc[Shell] = "dead" => code # "none"
  /\ status # "none" => status = code /\ proc[Shell] = "dead"
  /\ why = "exited" => ~pipes_open /\ status # "none"

\* A chunk is taken from its stream, and torn only where characters are wide.
Fits(c, upto) ==
  /\ c.from < c.to /\ c.to <= upto[c.stream]
  /\ c.torn => Width[c.stream] > 1

\* The chunks of a stream are in order, first those shown, then those in the
\* channel ...
InOrder ==
  /\ \A k \in 1..Len(chan) : Fits(chan[k], taken)
  /\ \A k, l \in 1..Len(chan) :
       k < l /\ chan[k].stream = chan[l].stream => chan[k].to <= chan[l].from
  /\ \A i \in 1..Len(events) : events[i].kind = "output" =>
       /\ Fits(events[i].chunk, taken)
       /\ \A k \in 1..Len(chan) :
            chan[k].stream = events[i].chunk.stream => events[i].chunk.to <= chan[k].from

\* ... and while the call goes on none that a reader took is missing.
Complete ==
  pc \in {"idle", "loop", "reap"} =>
    \A s \in Streams : \A n \in 1..taken[s] :
      \/ \E i \in 1..Len(events) : Shows(i, s, n)
      \/ \E k \in 1..Len(chan) : Covers(chan[k], s, n)

\* Behind a success nobody reads any more, and everything was shown.
Successful ==
  \A i \in 1..Len(events) : Success(i) =>
    /\ pc = "done" /\ code = "0" /\ proc[Shell] = "dead" /\ reading = {}
    /\ \A s \in Streams \ failed : \A n \in 1..written[s] :
         \E j \in 1..Len(events) : Shows(j, s, n)

Inv == /\ Types /\ Unstarted /\ GroupIsDead /\ Drained /\ Reaped /\ InOrder /\ Complete
       /\ OutputIsFaithful /\ Successful /\ CutIsTold

LEMMA InvInit == Init => Inv
<1> SUFFICES ASSUME Init PROVE Inv
  OBVIOUS
<1> USE DEF Init
<1>1. Types
  <2>1. /\ <<>> \in Seq(Chunk) /\ <<>> \in Seq(Events)
    OBVIOUS
  <2>2. /\ [p \in Procs |-> "none"] \in [Procs -> {"none", "group", "away", "dead"}]
        /\ [p \in Procs |-> {}] \in [Procs -> SUBSET Streams]
        /\ [s \in Streams |-> 0] \in [Streams -> Nat]
    OBVIOUS
  <2> QED BY <2>1, <2>2 DEF Types, Codes
<1>2. Unstarted /\ GroupIsDead /\ Drained /\ Reaped
  BY BashAssumption DEF Unstarted, GroupIsDead, Over, Drained, Reaped, Procs
<1>3. InOrder /\ Complete
  BY DEF InOrder, Complete
<1>4. OutputIsFaithful /\ Successful /\ CutIsTold
  BY DEF OutputIsFaithful, Successful, CutIsTold
<1> QED BY <1>1, <1>2, <1>3, <1>4 DEF Inv

-----------------------------------------------------------------------------
(* What steps that show no output and no success leave as it was.           *)

NoOutput ==
  /\ events' \in Seq(Events) /\ Len(events) <= Len(events')
  /\ \A i \in 1..Len(events) : events'[i] = events[i]
  /\ \A i \in 1..Len(events') : events'[i].kind = "output" => i \in 1..Len(events)

NothingNew == NoOutput /\ \A i \in 1..Len(events') : Success(i)' => i \in 1..Len(events)

LEMMA NoEvent == ASSUME events \in Seq(Events), UNCHANGED events PROVE NothingNew
<1>1. Len(events) \in Nat
  BY LenProperties
<1> QED BY <1>1 DEF NothingNew, NoOutput

LEMMA QuietEvents ==
  ASSUME NEW es \in Seq(Events), events \in Seq(Events), Emit(es),
         \A k \in 1..Len(es) : /\ es[k].kind # "output"
                               /\ ~(es[k].kind = "result" /\ es[k].ok)
  PROVE  NothingNew
BY EmitQuietly DEF NothingNew, NoOutput

\* Shows, of a given sequence of events.
ShownIn(es, i, s, n) == es[i].kind = "output" /\ Covers(es[i].chunk, s, n)

LEMMA FaithfulKept ==
  ASSUME Types, OutputIsFaithful, NoOutput, UNCHANGED <<acc, truncated>>,
         written' \in [Streams -> Nat], \A s \in Streams : written[s] <= written'[s]
  PROVE  OutputIsFaithful'
<1>0. events \in Seq(Events) /\ events' \in Seq(Events) /\ written \in [Streams -> Nat]
  BY DEF NoOutput, Types
<1>1. /\ Len(events) \in Nat /\ Len(events') \in Nat /\ Len(events) <= Len(events')
      /\ DOMAIN events = 1..Len(events) /\ DOMAIN events' = 1..Len(events')
  BY <1>0, LenProperties DEF NoOutput
<1>2. ASSUME NEW j \in 1..Len(events), NEW s, NEW m
      PROVE  ShownIn(events', j, s, m) <=> Shows(j, s, m)
  BY DEF NoOutput, Shows, ShownIn
<1>3. ASSUME NEW i \in 1..Len(events'), events'[i].kind = "output", NEW c, c = events'[i].chunk
      PROVE  /\ c.to \in 1..written'[c.stream] /\ c.from < c.to
             /\ \A m \in 1..c.from : \E j \in 1..(i - 1) : ShownIn(events', j, c.stream, m)
             /\ \A m \in (c.from + 1)..written'[c.stream], j \in 1..(i - 1) :
                  ~ShownIn(events', j, c.stream, m)
             /\ c.torn => Width[c.stream] > 1
             /\ truncated \/ \E k \in DOMAIN acc : acc[k] = c
  <2>1. i \in 1..Len(events) /\ events'[i] = events[i] /\ c = events[i].chunk
    BY <1>3 DEF NoOutput
  <2>2. events[i] \in Events
    BY <1>0, <2>1
  <2>3. c.from \in Nat /\ c.to \in Nat /\ c.stream \in Streams
    BY <1>3, <2>1, <2>2 DEF Events, Chunk
  <2>4. /\ c.to \in 1..written[c.stream] /\ c.from < c.to
        /\ \A m \in 1..c.from : \E j \in 1..(i - 1) : Shows(j, c.stream, m)
        /\ \A m \in (c.from + 1)..written[c.stream], j \in 1..(i - 1) : ~Shows(j, c.stream, m)
        /\ c.torn => Width[c.stream] > 1
        /\ truncated \/ \E k \in DOMAIN acc : acc[k] = c
    BY <1>1, <1>3, <2>1 DEF OutputIsFaithful
  <2>5. written[c.stream] \in Nat /\ written'[c.stream] \in Nat
        /\ written[c.stream] <= written'[c.stream]
    BY <1>0, <2>3
  <2>6. \A j \in 1..(i - 1) : j \in 1..Len(events)
    BY <1>1, <2>1
  <2>7. c.to \in 1..written'[c.stream]
    BY <2>3, <2>4, <2>5
  <2>8. ASSUME NEW m \in 1..c.from
        PROVE  \E j \in 1..(i - 1) : ShownIn(events', j, c.stream, m)
    <3>1. PICK j \in 1..(i - 1) : Shows(j, c.stream, m)
      BY <2>4
    <3>2. j \in 1..Len(events)
      BY <2>6
    <3>3. ShownIn(events', j, c.stream, m)
      BY <1>2, <3>1, <3>2
    <3> QED BY <3>3
  <2>9. ASSUME NEW m \in (c.from + 1)..written'[c.stream], NEW j \in 1..(i - 1),
               Shows(j, c.stream, m)
        PROVE  FALSE
    <3>1. /\ events[j].kind = "output" /\ events[j].chunk.stream = c.stream
          /\ m \in (events[j].chunk.from + 1)..events[j].chunk.to
      BY <2>9 DEF Shows, Covers
    <3>2. j \in 1..Len(events) /\ events[j] \in Events
      BY <1>0, <2>6
    <3>3. events[j].chunk.to \in 1..written[c.stream] /\ events[j].chunk.from \in Nat
      BY <1>1, <3>1, <3>2 DEF OutputIsFaithful, Events, Chunk
    <3>4. m \in (c.from + 1)..written[c.stream]
      BY <2>3, <2>5, <3>1, <3>3
    <3> QED BY <2>4, <2>9, <3>4
  <2>10. ASSUME NEW m \in (c.from + 1)..written'[c.stream], NEW j \in 1..(i - 1)
         PROVE  ~ShownIn(events', j, c.stream, m)
    BY <1>2, <2>6, <2>9
  <2> QED BY <2>4, <2>7, <2>8, <2>10
<1>4. ASSUME NEW k \in DOMAIN acc
      PROVE  \E i \in 1..Len(events') : events'[i].kind = "output" /\ events'[i].chunk = acc[k]
  <2>1. PICK i \in 1..Len(events) : events[i].kind = "output" /\ events[i].chunk = acc[k]
    BY <1>1 DEF OutputIsFaithful
  <2>2. i \in 1..Len(events') /\ events'[i] = events[i]
    BY <1>1 DEF NoOutput
  <2> QED BY <2>1, <2>2
<1>5. ASSUME NEW i \in DOMAIN events', events'[i].kind = "output"
      PROVE  LET c == events'[i].chunk
             IN  /\ c.to \in 1..written'[c.stream] /\ c.from < c.to
                 /\ \A m \in 1..c.from : \E j \in 1..(i - 1) : ShownIn(events', j, c.stream, m)
                 /\ \A m \in (c.from + 1)..written'[c.stream], j \in 1..(i - 1) :
                      ~ShownIn(events', j, c.stream, m)
                 /\ c.torn => Width[c.stream] > 1
                 /\ truncated' \/ \E k \in DOMAIN acc' : acc'[k] = c
  <2> DEFINE c == events'[i].chunk
  <2>1. i \in 1..Len(events') /\ c = events'[i].chunk
    BY <1>1
  <2> HIDE DEF c
  <2>2. /\ c.to \in 1..written'[c.stream] /\ c.from < c.to
        /\ \A m \in 1..c.from : \E j \in 1..(i - 1) : ShownIn(events', j, c.stream, m)
        /\ \A m \in (c.from + 1)..written'[c.stream], j \in 1..(i - 1) :
             ~ShownIn(events', j, c.stream, m)
        /\ c.torn => Width[c.stream] > 1
        /\ truncated \/ \E k \in DOMAIN acc : acc[k] = c
    BY ONLY <1>3, <1>5, <2>1
  <2> QED BY <2>2, Zenon DEF c
<1>6. \A k \in DOMAIN acc' : \E i \in DOMAIN events' :
        events'[i].kind = "output" /\ events'[i].chunk = acc'[k]
  BY <1>1, <1>4
<1> QED BY <1>5, <1>6, Zenon DEF OutputIsFaithful, Shows, ShownIn

\* Pipes that nobody touches stay drained.
LEMMA DrainedKept ==
  ASSUME Drained, UNCHANGED <<taken, written, reading, failed, chan, pipes_open>>,
         pc' \in {"loop", "reap"} => pc \in {"loop", "reap"},
         \A s \in Streams : AtEnd(s) => AtEnd(s)'
  PROVE  Drained'
BY DEF Drained

\* What fits fits when more has been taken.
LEMMA FitsMore ==
  ASSUME NEW c \in Chunk, NEW t \in [Streams -> Nat], NEW u \in [Streams -> Nat],
         Fits(c, t), \A s \in Streams : t[s] <= u[s]
  PROVE  Fits(c, u)
<1>1. c.to \in Nat /\ c.from \in Nat /\ c.stream \in Streams
  BY DEF Chunk
<1>2. t[c.stream] \in Nat /\ u[c.stream] \in Nat /\ t[c.stream] <= u[c.stream]
  BY <1>1
<1> QED BY <1>1, <1>2 DEF Fits

LEMMA OrderKept ==
  ASSUME Types, InOrder, NoOutput, chan' \in {chan, <<>>},
         taken' \in [Streams -> Nat], \A s \in Streams : taken[s] <= taken'[s]
  PROVE  InOrder'
<1>0. /\ events \in Seq(Events) /\ chan \in Seq(Chunk) /\ Len(chan) \in Nat
      /\ taken \in [Streams -> Nat]
  BY LenProperties DEF Types
<1>1. \A c \in Chunk : Fits(c, taken) => Fits(c, taken')
  BY <1>0, FitsMore
<1>2. \A k \in 1..Len(chan') : k \in 1..Len(chan) /\ chan'[k] = chan[k] /\ chan[k] \in Chunk
  BY <1>0
<1>4. ASSUME NEW i \in 1..Len(events'), events'[i].kind = "output"
      PROVE  /\ i \in 1..Len(events) /\ events'[i] = events[i]
             /\ events[i].chunk \in Chunk
  <2>1. i \in 1..Len(events) /\ events'[i] = events[i]
    BY <1>4 DEF NoOutput
  <2>2. events[i] \in Events
    BY <1>0, <2>1
  <2> QED BY <1>4, <2>1, <2>2 DEF Events
<1>5. \A k \in 1..Len(chan') : Fits(chan'[k], taken')
  BY <1>1, <1>2 DEF InOrder
<1>6. \A k, l \in 1..Len(chan') :
        k < l /\ chan'[k].stream = chan'[l].stream => chan'[k].to <= chan'[l].from
  BY <1>2 DEF InOrder
<1>7. ASSUME NEW i \in 1..Len(events'), events'[i].kind = "output"
      PROVE  /\ Fits(events'[i].chunk, taken')
             /\ \A k \in 1..Len(chan') :
                  chan'[k].stream = events'[i].chunk.stream => events'[i].chunk.to <= chan'[k].from
  BY <1>1, <1>2, <1>4, <1>7 DEF InOrder
<1> QED BY <1>5, <1>6, <1>7 DEF InOrder

LEMMA SuccessKept ==
  ASSUME Types, Successful, NothingNew,
         (\E i \in 1..Len(events) : Success(i)) =>
            /\ UNCHANGED <<pc, code, written, failed, reading>>
            /\ proc'[Shell] = "dead"
  PROVE  Successful'
<1> SUFFICES ASSUME NEW i \in 1..Len(events'), Success(i)'
             PROVE  (/\ pc = "done" /\ code = "0" /\ proc[Shell] = "dead"
                     /\ reading = {}
                     /\ \A s \in Streams \ failed : \A n \in 1..written[s] :
                          \E j \in 1..Len(events) : Shows(j, s, n))'
  BY DEF Successful
<1>1. i \in 1..Len(events) /\ events'[i] = events[i]
  BY DEF NothingNew, NoOutput
<1>2. Success(i)
  BY <1>1 DEF Success
<1>3. \A j \in 1..Len(events) : j \in 1..Len(events') /\ events'[j] = events[j]
  <2>1. Len(events) \in Nat /\ Len(events') \in Nat /\ Len(events) <= Len(events')
    BY LenProperties DEF Types, NothingNew, NoOutput
  <2> QED BY <2>1 DEF NothingNew, NoOutput
<1>4. /\ pc = "done" /\ code = "0" /\ reading = {} /\ UNCHANGED <<pc, code, written, failed, reading>>
      /\ proc'[Shell] = "dead"
  BY <1>1, <1>2 DEF Successful
<1>5. \A s \in Streams \ failed : \A n \in 1..written[s] : \E j \in 1..Len(events) : Shows(j, s, n)
  BY <1>1, <1>2 DEF Successful
<1> QED BY <1>3, <1>4, <1>5 DEF Shows

-----------------------------------------------------------------------------
\* Every step preserves the invariant.
LEMMA InvStep == Inv /\ [Next]_vars => Inv'
<1> SUFFICES ASSUME Inv, [Next]_vars PROVE Inv'
  OBVIOUS
<1> USE DEF Inv, world, procs, pipes, loop
<1> Shell \in Procs /\ Shell \notin Kids /\ Kids \subseteq Procs
  BY BashAssumption DEF Procs
<1> /\ written \in [Streams -> Nat] /\ taken \in [Streams -> Nat]
    /\ chan \in Seq(Chunk) /\ acc \in Seq(Chunk) /\ events \in Seq(Events)
    /\ proc \in [Procs -> {"none", "group", "away", "dead"}]
    /\ holds \in [Procs -> SUBSET Streams]
  BY DEF Types
<1> /\ \A t \in Streams : written[t] \in Nat /\ written[t] <= written[t]
    /\ \A t \in Streams : taken[t] \in Nat /\ taken[t] <= taken[t]
    /\ Len(chan) \in Nat /\ Len(events) \in Nat /\ Len(acc) \in Nat
  BY LenProperties
<1>1. CASE Start
  <2>1. NothingNew
    <3> DEFINE es == <<CallEvent>>
    <3>1. CallEvent \in Events /\ ResultEvent(FALSE) \in Events
      BY DEF CallEvent, ResultEvent, Events
    <3>2. es \in Seq(Events) /\ Len(es) = 1
          /\ \A k \in 1..1 : es[k].kind # "output" /\ ~(es[k].kind = "result" /\ es[k].ok)
      BY <3>1 DEF CallEvent, ResultEvent
    <3>3. Emit(es)
      BY <1>1 DEF Start
    <3> HIDE DEF es
    <3> QED BY <3>2, <3>3, QuietEvents
  <2>2. Types'
    <3>1. events' \in Seq(Events)
      BY <2>1 DEF NothingNew, NoOutput
    <3> QED BY <1>1, <3>1 DEF Start, Types, Codes
  <2>3. Unstarted'
    BY <1>1, <2>1 DEF Start, Types, Unstarted
  <2>4. GroupIsDead'
    BY <1>1, <2>1 DEF Start, Types, GroupIsDead, Over, Group
  <2>5. Drained'
    BY <1>1 DEF Start, Unstarted, Drained
  <2>6. Reaped'
    BY <1>1 DEF Start, Unstarted, Reaped
  <2>7. InOrder'
    <3>1. UNCHANGED taken /\ chan' \in {chan, <<>>} /\ \A t \in Streams : taken[t] <= taken'[t]
      BY <1>1 DEF Start
    <3> QED BY <2>1, <3>1, OrderKept DEF NothingNew
  <2>8. Complete'
    <3>1. \A t \in Streams : 1..taken'[t] = {}
      BY <1>1 DEF Start, Unstarted
    <3> QED BY <3>1 DEF Complete
  <2>9. OutputIsFaithful'
    <3>1. UNCHANGED <<acc, truncated, written>> /\ \A t \in Streams : written[t] <= written'[t]
      BY <1>1 DEF Start
    <3> QED BY <2>1, <3>1, FaithfulKept DEF NothingNew
  <2>10. Successful'
    <3>1. ~\E i \in 1..Len(events) : Success(i)
      BY <1>1 DEF Start, Successful
    <3> QED BY <2>1, <3>1, SuccessKept
  <2>11. CutIsTold'
    BY <1>1, <2>1 DEF Start, Types, CutIsTold
  <2> QED BY <2>2, <2>3, <2>4, <2>5, <2>6, <2>7, <2>8, <2>9, <2>10, <2>11
<1>2. CASE StartFails
  <2>1. NothingNew
    <3> DEFINE es == <<CallEvent, ResultEvent(FALSE)>>
    <3>1. CallEvent \in Events /\ ResultEvent(FALSE) \in Events
      BY DEF CallEvent, ResultEvent, Events
    <3>2. es \in Seq(Events) /\ Len(es) = 2
          /\ \A k \in 1..2 : es[k].kind # "output" /\ ~(es[k].kind = "result" /\ es[k].ok)
      BY <3>1 DEF CallEvent, ResultEvent
    <3>3. Emit(es)
      BY <1>2 DEF StartFails
    <3> HIDE DEF es
    <3> QED BY <3>2, <3>3, QuietEvents
  <2>2. Types'
    <3>1. events' \in Seq(Events)
      BY <2>1 DEF NothingNew, NoOutput
    <3> QED BY <1>2, <3>1 DEF StartFails, Types, Codes
  <2>3. Unstarted'
    BY <1>2, <2>1 DEF StartFails, Types, Unstarted
  <2>4. GroupIsDead'
    BY <1>2 DEF StartFails, Unstarted, GroupIsDead, Group
  <2>5. Drained'
    BY <1>2, <2>1 DEF StartFails, Types, Drained, AtEnd
  <2>6. Reaped'
    BY <1>2, <2>1 DEF StartFails, Types, Reaped
  <2>7. InOrder'
    <3>1. UNCHANGED taken /\ chan' \in {chan, <<>>} /\ \A t \in Streams : taken[t] <= taken'[t]
      BY <1>2 DEF StartFails
    <3> QED BY <2>1, <3>1, OrderKept DEF NothingNew
  <2>8. Complete'
    BY <1>2, <2>1 DEF StartFails, Types, Complete, Shows
  <2>9. OutputIsFaithful'
    <3>1. UNCHANGED <<acc, truncated, written>> /\ \A t \in Streams : written[t] <= written'[t]
      BY <1>2 DEF StartFails
    <3> QED BY <2>1, <3>1, FaithfulKept DEF NothingNew
  <2>10. Successful'
    <3>1. ~\E i \in 1..Len(events) : Success(i)
      BY <1>2 DEF StartFails, Successful
    <3> QED BY <2>1, <3>1, SuccessKept
  <2>11. CutIsTold'
    BY <1>2 DEF StartFails, Unstarted, CutIsTold
  <2> QED BY <2>2, <2>3, <2>4, <2>5, <2>6, <2>7, <2>8, <2>9, <2>10, <2>11
<1>3. ASSUME NEW p \in Procs, NEW s \in Streams, Write(p, s) PROVE Inv'
  <2>a. Width[s] \in Nat
    BY BashAssumption
  <2>1. NothingNew
    BY <1>3, NoEvent DEF Write
  <2>2. Types'
    <3>1. written' \in [Streams -> Nat]
      BY <1>3, <2>a DEF Write
    <3> QED BY <1>3, <3>1, ZenonT(40) DEF Write, Types, Codes
  <2>3. Unstarted'
    BY <1>3, <2>1 DEF Write, Types, Unstarted, Alive
  <2>4. GroupIsDead'
    BY <1>3, <2>1 DEF Write, Types, GroupIsDead, Over, Group, Alive
  <2>5. Drained'
    <3>1. ~AtEnd(s)
      BY <1>3 DEF Write, AtEnd
    <3>2. \A t \in Streams : taken'[t] <= written'[t]
      BY <1>3, <2>a DEF Write, Drained
    <3>3. \A t \in Streams : t # s => AtEnd(t)' = AtEnd(t)
      BY <1>3 DEF Write, AtEnd
    <3> QED BY <1>3, <3>1, <3>2, <3>3 DEF Write, Drained
  <2>6. Reaped'
    BY <1>3, <2>1 DEF Write, Types, Reaped, Alive
  <2>7. InOrder'
    <3>1. UNCHANGED <<taken, chan>> /\ \A t \in Streams : taken[t] <= taken'[t]
      BY <1>3 DEF Write
    <3> QED BY <2>1, <3>1, OrderKept DEF NothingNew
  <2>8. Complete'
    BY <1>3, <2>1, ZenonT(40) DEF Write, Types, Complete, Shows, Alive
  <2>9. OutputIsFaithful'
    <3>1. UNCHANGED <<acc, truncated>> /\ written' \in [Streams -> Nat]
          /\ \A t \in Streams : written[t] <= written'[t]
      BY <1>3, <2>a DEF Write
    <3> QED BY <2>1, <3>1, FaithfulKept DEF NothingNew
  <2>10. Successful'
    <3>1. ASSUME NEW i \in 1..Len(events), Success(i)
          PROVE  UNCHANGED <<pc, code, written, failed, reading>> /\ proc'[Shell] = "dead"
      <4>1. pc = "done" /\ proc[Shell] = "dead" /\ reading = {}
        BY <3>1 DEF Successful
      <4> QED BY <1>3, <4>1 DEF Write, Types, Alive
    <3> QED BY <2>1, <3>1, SuccessKept
  <2>11. CutIsTold'
    BY <1>3, <2>1 DEF Write, Types, CutIsTold, Alive
  <2> QED BY <2>2, <2>3, <2>4, <2>5, <2>6, <2>7, <2>8, <2>9, <2>10, <2>11
<1>4. ASSUME NEW p \in Procs, NEW k \in Kids, NEW kept \in SUBSET Streams, Fork(p, k, kept) PROVE Inv'
  <2>1. NothingNew
    BY <1>4, NoEvent DEF Fork
  <2>2. Types'
    BY <1>4, <2>1, ZenonT(40) DEF Fork, Types, Codes, Alive
  <2>3. Unstarted'
    BY <1>4, <2>1 DEF Fork, Types, Unstarted, Alive
  <2>4. GroupIsDead'
    BY <1>4, <2>1 DEF Fork, Types, GroupIsDead, Over, Group, Alive
  <2>5. Drained'
    <3>1. \A t \in Streams : AtEnd(t) => AtEnd(t)'
      BY <1>4 DEF Fork, AtEnd, Types
    <3>2. /\ UNCHANGED <<taken, written, reading, failed, chan, pipes_open>>
          /\ pc' \in {"loop", "reap"} => pc \in {"loop", "reap"}
      BY <1>4 DEF Fork
    <3> QED BY <3>1, <3>2, DrainedKept
  <2>6. Reaped'
    BY <1>4, <2>1 DEF Fork, Types, Reaped, Alive
  <2>7. InOrder'
    <3>1. UNCHANGED <<taken, chan>> /\ \A t \in Streams : taken[t] <= taken'[t]
      BY <1>4 DEF Fork
    <3> QED BY <2>1, <3>1, OrderKept DEF NothingNew
  <2>8. Complete'
    BY <1>4, <2>1, ZenonT(40) DEF Fork, Types, Complete, Shows, Alive
  <2>9. OutputIsFaithful'
    <3>1. UNCHANGED <<acc, truncated, written>> /\ \A t \in Streams : written[t] <= written'[t]
      BY <1>4 DEF Fork
    <3> QED BY <2>1, <3>1, FaithfulKept DEF NothingNew
  <2>10. Successful'
    <3>1. ASSUME NEW i \in 1..Len(events), Success(i)
          PROVE  UNCHANGED <<pc, code, written, failed, reading>> /\ proc'[Shell] = "dead"
      <4>1. pc = "done" /\ proc[Shell] = "dead" /\ reading = {}
        BY <3>1 DEF Successful
      <4> QED BY <1>4, <4>1 DEF Fork, Types, Alive
    <3> QED BY <2>1, <3>1, SuccessKept
  <2>11. CutIsTold'
    BY <1>4, <2>1 DEF Fork, Types, CutIsTold, Alive
  <2> QED BY <2>2, <2>3, <2>4, <2>5, <2>6, <2>7, <2>8, <2>9, <2>10, <2>11
<1>5. ASSUME NEW p \in Procs, Detach(p) PROVE Inv'
  <2>1. NothingNew
    BY <1>5, NoEvent DEF Detach
  <2>2. Types'
    BY <1>5, <2>1 DEF Detach, Types, Codes, Alive
  <2>3. Unstarted'
    BY <1>5, <2>1 DEF Detach, Types, Unstarted, Alive
  <2>4. GroupIsDead'
    BY <1>5, <2>1 DEF Detach, Types, GroupIsDead, Over, Group, Alive
  <2>5. Drained'
    <3>1. \A t \in Streams : AtEnd(t) => AtEnd(t)'
      BY <1>5 DEF Detach, AtEnd
    <3>2. /\ UNCHANGED <<taken, written, reading, failed, chan, pipes_open>>
          /\ pc' \in {"loop", "reap"} => pc \in {"loop", "reap"}
      BY <1>5 DEF Detach
    <3> QED BY <3>1, <3>2, DrainedKept
  <2>6. Reaped'
    BY <1>5, <2>1 DEF Detach, Types, Reaped, Alive
  <2>7. InOrder'
    <3>1. UNCHANGED <<taken, chan>> /\ \A t \in Streams : taken[t] <= taken'[t]
      BY <1>5 DEF Detach
    <3> QED BY <2>1, <3>1, OrderKept DEF NothingNew
  <2>8. Complete'
    BY <1>5, <2>1, ZenonT(40) DEF Detach, Types, Complete, Shows, Alive
  <2>9. OutputIsFaithful'
    <3>1. UNCHANGED <<acc, truncated, written>> /\ \A t \in Streams : written[t] <= written'[t]
      BY <1>5 DEF Detach
    <3> QED BY <2>1, <3>1, FaithfulKept DEF NothingNew
  <2>10. Successful'
    <3>1. ASSUME NEW i \in 1..Len(events), Success(i)
          PROVE  UNCHANGED <<pc, code, written, failed, reading>> /\ proc'[Shell] = "dead"
      <4>1. pc = "done" /\ proc[Shell] = "dead" /\ reading = {}
        BY <3>1 DEF Successful
      <4> QED BY <1>5, <4>1 DEF Detach, Types, Alive
    <3> QED BY <2>1, <3>1, SuccessKept
  <2>11. CutIsTold'
    BY <1>5, <2>1 DEF Detach, Types, CutIsTold, Alive
  <2> QED BY <2>2, <2>3, <2>4, <2>5, <2>6, <2>7, <2>8, <2>9, <2>10, <2>11
<1>6. ASSUME NEW p \in Procs, Exit(p) PROVE Inv'
  <2>1. NothingNew
    BY <1>6, NoEvent DEF Exit
  <2>2. Types'
    <3>1. /\ proc' \in [Procs -> {"none", "group", "away", "dead"}] /\ holds' \in [Procs -> SUBSET Streams]
          /\ code' \in Codes
      BY <1>6 DEF Exit, Types, Codes
    <3> QED BY <1>6, <2>1, <3>1 DEF Exit, Types
  <2>3. Unstarted'
    BY <1>6, <2>1 DEF Exit, Types, Unstarted, Alive
  <2>4. GroupIsDead'
    BY <1>6, <2>1 DEF Exit, Types, GroupIsDead, Over, Group, Alive
  <2>5. Drained'
    <3>1. \A t \in Streams : AtEnd(t) => AtEnd(t)'
      BY <1>6 DEF Exit, AtEnd, Types
    <3>2. /\ UNCHANGED <<taken, written, reading, failed, chan, pipes_open>>
          /\ pc' \in {"loop", "reap"} => pc \in {"loop", "reap"}
      BY <1>6 DEF Exit
    <3> QED BY <3>1, <3>2, DrainedKept
  <2>6. Reaped'
    BY <1>6, <2>1 DEF Exit, Types, Reaped, Alive
  <2>7. InOrder'
    <3>1. UNCHANGED <<taken, chan>> /\ \A t \in Streams : taken[t] <= taken'[t]
      BY <1>6 DEF Exit
    <3> QED BY <2>1, <3>1, OrderKept DEF NothingNew
  <2>8. Complete'
    BY <1>6, <2>1, ZenonT(40) DEF Exit, Types, Complete, Shows, Alive
  <2>9. OutputIsFaithful'
    <3>1. UNCHANGED <<acc, truncated, written>> /\ \A t \in Streams : written[t] <= written'[t]
      BY <1>6 DEF Exit
    <3> QED BY <2>1, <3>1, FaithfulKept DEF NothingNew
  <2>10. Successful'
    <3>1. ASSUME NEW i \in 1..Len(events), Success(i)
          PROVE  UNCHANGED <<pc, code, written, failed, reading>> /\ proc'[Shell] = "dead"
      <4>1. pc = "done" /\ proc[Shell] = "dead" /\ reading = {}
        BY <3>1 DEF Successful
      <4> QED BY <1>6, <4>1 DEF Exit, Types, Alive
    <3> QED BY <2>1, <3>1, SuccessKept
  <2>11. CutIsTold'
    BY <1>6, <2>1 DEF Exit, Types, CutIsTold, Alive
  <2> QED BY <2>2, <2>3, <2>4, <2>5, <2>6, <2>7, <2>8, <2>9, <2>10, <2>11
<1>7. CASE Cancel
  <2>1. NothingNew
    BY <1>7, NoEvent DEF Cancel
  <2>2. Types'
    BY <1>7, <2>1 DEF Cancel, Types, Codes
  <2>3. Unstarted'
    BY <1>7, <2>1 DEF Cancel, Types, Unstarted
  <2>4. GroupIsDead'
    BY <1>7, <2>1 DEF Cancel, Types, GroupIsDead, Over, Group
  <2>5. Drained'
    <3>1. \A t \in Streams : AtEnd(t) => AtEnd(t)'
      BY <1>7 DEF Cancel, AtEnd
    <3>2. /\ UNCHANGED <<taken, written, reading, failed, chan, pipes_open>>
          /\ pc' \in {"loop", "reap"} => pc \in {"loop", "reap"}
      BY <1>7 DEF Cancel
    <3> QED BY <3>1, <3>2, DrainedKept
  <2>6. Reaped'
    BY <1>7, <2>1 DEF Cancel, Types, Reaped
  <2>7. InOrder'
    <3>1. UNCHANGED <<taken, chan>> /\ \A t \in Streams : taken[t] <= taken'[t]
      BY <1>7 DEF Cancel
    <3> QED BY <2>1, <3>1, OrderKept DEF NothingNew
  <2>8. Complete'
    BY <1>7, <2>1 DEF Cancel, Types, Complete, Shows
  <2>9. OutputIsFaithful'
    <3>1. UNCHANGED <<acc, truncated, written>> /\ \A t \in Streams : written[t] <= written'[t]
      BY <1>7 DEF Cancel
    <3> QED BY <2>1, <3>1, FaithfulKept DEF NothingNew
  <2>10. Successful'
    <3>1. ASSUME NEW i \in 1..Len(events), Success(i)
          PROVE  UNCHANGED <<pc, code, written, failed, reading>> /\ proc'[Shell] = "dead"
      <4>1. pc = "done" /\ proc[Shell] = "dead" /\ reading = {}
        BY <3>1 DEF Successful
      <4> QED BY <1>7, <4>1 DEF Cancel, Types, Alive
    <3> QED BY <2>1, <3>1, SuccessKept
  <2>11. CutIsTold'
    BY <1>7, <2>1 DEF Cancel, Types, CutIsTold
  <2> QED BY <2>2, <2>3, <2>4, <2>5, <2>6, <2>7, <2>8, <2>9, <2>10, <2>11
<1>8. CASE DeadlinePasses
  <2>1. NothingNew
    BY <1>8, NoEvent DEF DeadlinePasses
  <2>2. Types'
    BY <1>8, <2>1 DEF DeadlinePasses, Types, Codes
  <2>3. Unstarted'
    BY <1>8, <2>1 DEF DeadlinePasses, Types, Unstarted
  <2>4. GroupIsDead'
    BY <1>8, <2>1 DEF DeadlinePasses, Types, GroupIsDead, Over, Group
  <2>5. Drained'
    <3>1. \A t \in Streams : AtEnd(t) => AtEnd(t)'
      BY <1>8 DEF DeadlinePasses, AtEnd
    <3>2. /\ UNCHANGED <<taken, written, reading, failed, chan, pipes_open>>
          /\ pc' \in {"loop", "reap"} => pc \in {"loop", "reap"}
      BY <1>8 DEF DeadlinePasses
    <3> QED BY <3>1, <3>2, DrainedKept
  <2>6. Reaped'
    BY <1>8, <2>1 DEF DeadlinePasses, Types, Reaped
  <2>7. InOrder'
    <3>1. UNCHANGED <<taken, chan>> /\ \A t \in Streams : taken[t] <= taken'[t]
      BY <1>8 DEF DeadlinePasses
    <3> QED BY <2>1, <3>1, OrderKept DEF NothingNew
  <2>8. Complete'
    BY <1>8, <2>1 DEF DeadlinePasses, Types, Complete, Shows
  <2>9. OutputIsFaithful'
    <3>1. UNCHANGED <<acc, truncated, written>> /\ \A t \in Streams : written[t] <= written'[t]
      BY <1>8 DEF DeadlinePasses
    <3> QED BY <2>1, <3>1, FaithfulKept DEF NothingNew
  <2>10. Successful'
    <3>1. ASSUME NEW i \in 1..Len(events), Success(i)
          PROVE  UNCHANGED <<pc, code, written, failed, reading>> /\ proc'[Shell] = "dead"
      <4>1. pc = "done" /\ proc[Shell] = "dead" /\ reading = {}
        BY <3>1 DEF Successful
      <4> QED BY <1>8, <4>1 DEF DeadlinePasses, Types, Alive
    <3> QED BY <2>1, <3>1, SuccessKept
  <2>11. CutIsTold'
    BY <1>8, <2>1 DEF DeadlinePasses, Types, CutIsTold
  <2> QED BY <2>2, <2>3, <2>4, <2>5, <2>6, <2>7, <2>8, <2>9, <2>10, <2>11
<1>9. ASSUME NEW s \in Streams, NEW len \in Lengths(s), ForwardNext(s, len) PROVE Inv'
  <2>1. NothingNew
    BY <1>9, NoEvent DEF ForwardNext
  <2> DEFINE c == Decoded(s, taken[s], len)
  <2>a. Width[s] \in Nat \ {0} /\ len \in Nat /\ 1 <= len
    BY BashAssumption DEF Lengths
  <2>b. c.torn => Width[s] > 1
    <3> SUFFICES ASSUME Width[s] = 1 PROVE ~c.torn
      BY <2>a
    <3>1. \A x \in Nat : x % 1 = 0
      OBVIOUS
    <3>2. taken[s] % 1 = 0
      BY <3>1
    <3>3. len = 1
      BY DEF Lengths
    <3> QED BY <3>2, <3>3 DEF Decoded
  <2>c. /\ c \in Chunk /\ c.stream = s /\ c.from = taken[s] /\ c.to = taken[s] + len
    BY <2>a DEF Chunk, Decoded
  <2> HIDE DEF c
  <2>d. /\ taken' = [taken EXCEPT ![s] = @ + len]
        /\ chan' = chan \/ chan' = Append(chan, c)
    BY <1>9 DEF ForwardNext, c
  <2>e. /\ taken' \in [Streams -> Nat] /\ taken'[s] = c.to
        /\ \A t \in Streams : /\ taken[t] <= taken'[t]
                              /\ t # s => taken'[t] = taken[t]
    BY <2>a, <2>c, <2>d
  <2>2. Types'
    <3>1. taken' \in [Streams -> Nat]
      BY <2>e
    <3>2. chan' = chan \/ chan' = Append(chan, c)
      BY <2>d
    <3>3. Append(chan, c) \in Seq(Chunk)
      BY <2>c, AppendProperties
    <3>4. chan' \in Seq(Chunk)
      BY <3>2, <3>3
    <3> QED BY <1>9, <3>1, <3>4 DEF ForwardNext, Types, Codes
  <2>3. Unstarted'
    BY <1>9, <2>1 DEF ForwardNext, Types, Unstarted
  <2>4. GroupIsDead'
    BY <1>9, <2>1 DEF ForwardNext, Types, GroupIsDead, Over, Group
  <2>5. Drained'
    <3>1. \A t \in Streams : taken'[t] <= written'[t]
      BY <1>9, <2>a DEF ForwardNext, Drained
    <3>2. \A t \in Streams : t # s => AtEnd(t)' = AtEnd(t)
      BY <1>9 DEF ForwardNext, AtEnd
    <3>3. pipes_open /\ pipes_open'
      BY <1>9 DEF ForwardNext, Drained
    <3>4. pc' \in {"loop", "reap"} => s \in reading' /\ reading' = reading
      BY <1>9 DEF ForwardNext
    <3> QED BY <1>9, <3>1, <3>2, <3>3, <3>4 DEF ForwardNext, Drained
  <2>6. Reaped'
    BY <1>9, <2>1 DEF ForwardNext, Types, Reaped
  <2>7. InOrder'
    <3>1. CASE UNCHANGED chan
      BY <2>1, <2>e, <3>1, OrderKept DEF NothingNew
    <3>2. CASE chan' = Append(chan, c)
      <4>1. /\ Len(chan') = Len(chan) + 1 /\ chan'[Len(chan) + 1] = c
            /\ \A k \in 1..Len(chan) : chan'[k] = chan[k]
        BY <2>c, <3>2, AppendProperties
      <4>2. Fits(c, taken') /\ \A d \in Chunk : Fits(d, taken) => Fits(d, taken')
        <5>1. c.from < c.to /\ c.to <= taken'[c.stream]
          BY <2>a, <2>c, <2>e
        <5> QED BY <2>b, <2>c, <2>e, <5>1, FitsMore DEF Fits
      <4>3. ASSUME NEW d \in Chunk, d.stream = s, Fits(d, taken) PROVE d.to <= c.from
        BY <2>c, <4>3 DEF Fits
      <4>5. \A k \in 1..Len(chan) : chan[k] \in Chunk
        OBVIOUS
      <4>6. \A k \in 1..Len(chan') : k \in 1..Len(chan) \/ k = Len(chan) + 1
        <5>1. \A n \in Nat : \A k \in 1..(n + 1) : k \in 1..n \/ k = n + 1
          OBVIOUS
        <5>2. Len(chan) \in Nat
          OBVIOUS
        <5> QED BY <4>1, <5>1, <5>2
      <4>7. \A k \in 1..Len(chan) : /\ Fits(chan[k], taken')
                                    /\ chan[k].stream = s => chan[k].to <= c.from
        BY <4>2, <4>3, <4>5 DEF InOrder
      <4>8. \A k \in 1..Len(chan') : Fits(chan'[k], taken')
        BY <4>1, <4>2, <4>6, <4>7
      <4>9. ASSUME NEW k \in 1..Len(chan'), NEW l \in 1..Len(chan'),
                   k < l, chan'[k].stream = chan'[l].stream
            PROVE  chan'[k].to <= chan'[l].from
        <5>1. k \in 1..Len(chan)
          BY <4>1, <4>9
        <5>2. CASE l \in 1..Len(chan)
          BY <4>1, <4>9, <5>1, <5>2 DEF InOrder
        <5>3. CASE l = Len(chan) + 1
          BY <2>c, <4>1, <4>7, <4>9, <5>1, <5>3
        <5> QED BY <4>6, <5>2, <5>3
      <4>10. ASSUME NEW i \in 1..Len(events), events[i].kind = "output"
             PROVE  /\ Fits(events[i].chunk, taken')
                    /\ \A k \in 1..Len(chan') :
                         chan'[k].stream = events[i].chunk.stream
                           => events[i].chunk.to <= chan'[k].from
        <5>1. events[i] \in Events
          OBVIOUS
        <5>2. events[i].chunk \in Chunk
          BY <4>10, <5>1 DEF Events
        <5>3. /\ Fits(events[i].chunk, taken')
              /\ events[i].chunk.stream = s => events[i].chunk.to <= c.from
          BY <4>2, <4>3, <4>10, <5>2 DEF InOrder
        <5>4. \A k \in 1..Len(chan) :
                chan'[k].stream = events[i].chunk.stream => events[i].chunk.to <= chan'[k].from
          BY <4>1, <4>10 DEF InOrder
        <5> QED BY <2>c, <4>1, <4>6, <5>3, <5>4
      <4>11. UNCHANGED events
        BY <1>9 DEF ForwardNext
      <4> QED BY <4>8, <4>9, <4>10, <4>11 DEF InOrder
    <3> QED BY <2>d, <3>1, <3>2
  <2>8. Complete'
    <3>1. SUFFICES ASSUME pc' = "loop" PROVE Complete'
      BY <1>9 DEF ForwardNext, Complete
    <3>2. pc = "loop" /\ chan' = Append(chan, c) /\ UNCHANGED events
      BY <1>9, <3>1 DEF ForwardNext, c
    <3>3. /\ Len(chan') = Len(chan) + 1 /\ chan'[Len(chan) + 1] = c
          /\ \A k \in 1..Len(chan) : chan'[k] = chan[k]
      BY <2>c, <3>2, AppendProperties
    <3>4. \A k \in 1..Len(chan) : k \in 1..Len(chan')
      BY <3>3
    <3>5. Len(chan) + 1 \in 1..Len(chan')
      BY <3>3
    <3>6. ASSUME NEW t \in Streams, NEW n \in 1..taken'[t]
          PROVE  \/ \E i \in 1..Len(events') : Shows(i, t, n)'
                 \/ \E k \in 1..Len(chan') : Covers(chan'[k], t, n)
      <4>1. CASE n \in 1..taken[t]
        <5>1. \/ \E i \in 1..Len(events) : Shows(i, t, n)
              \/ \E k \in 1..Len(chan) : Covers(chan[k], t, n)
          BY <3>2, <4>1 DEF Complete
        <5> QED BY <3>2, <3>3, <3>4, <5>1 DEF Shows
      <4>2. CASE n \notin 1..taken[t]
        <5>1. Covers(c, t, n)
          <6>1. t = s
            BY <2>e, <4>2
          <6>2. taken[s] \in Nat /\ n \in 1..(taken[s] + len) /\ n \notin 1..taken[s]
            BY <2>c, <2>e, <4>2, <6>1
          <6>3. n \in (taken[s] + 1)..(taken[s] + len)
            BY <2>a, <6>2
          <6> QED BY <2>c, <6>1, <6>3 DEF Covers
        <5> QED BY <3>3, <3>5, <5>1
      <4> QED BY <4>1, <4>2
    <3> QED BY <3>6 DEF Complete
  <2>9. OutputIsFaithful'
    <3>1. UNCHANGED <<acc, truncated, written>> /\ \A t \in Streams : written[t] <= written'[t]
      BY <1>9 DEF ForwardNext
    <3> QED BY <2>1, <3>1, FaithfulKept DEF NothingNew
  <2>10. Successful'
    <3>1. ASSUME NEW i \in 1..Len(events), Success(i)
          PROVE  UNCHANGED <<pc, code, written, failed, reading>> /\ proc'[Shell] = "dead"
      <4>1. pc = "done" /\ proc[Shell] = "dead" /\ reading = {}
        BY <3>1 DEF Successful
      <4> QED BY <1>9, <4>1 DEF ForwardNext, Types, Alive
    <3> QED BY <2>1, <3>1, SuccessKept
  <2>11. CutIsTold'
    BY <1>9, <2>1 DEF ForwardNext, Types, CutIsTold
  <2> QED BY <2>2, <2>3, <2>4, <2>5, <2>6, <2>7, <2>8, <2>9, <2>10, <2>11
<1>10. ASSUME NEW s \in Streams, ReaderEnds(s) PROVE Inv'
  <2>1. NothingNew
    BY <1>10, NoEvent DEF ReaderEnds
  <2>2. Types'
    BY <1>10, <2>1, ZenonT(40) DEF ReaderEnds, Types, Codes
  <2>3. Unstarted'
    BY <1>10, <2>1 DEF ReaderEnds, Types, Unstarted
  <2>4. GroupIsDead'
    BY <1>10, <2>1 DEF ReaderEnds, Types, GroupIsDead, Over, Group
  <2>5. Drained'
    <3>1. /\ reading' = reading \ {s} /\ AtEnd(s)
          /\ UNCHANGED <<pc, taken, written, holds, failed, pipes_open, chan>>
      BY <1>10 DEF ReaderEnds, world, procs, loop
    <3>2. \A t \in Streams : AtEnd(t)' <=> AtEnd(t)
      BY <3>1 DEF AtEnd
    <3>3. \A t \in Streams \ (reading' \cup failed') :
            t = s \/ t \in Streams \ (reading \cup failed)
      BY <3>1
    <3>4. pc' \in {"loop", "reap"} => \A t \in Streams \ (reading' \cup failed') : AtEnd(t)'
      BY <3>1, <3>2, <3>3 DEF Drained
    <3> QED BY <3>1, <3>4 DEF Drained
  <2>6. Reaped'
    BY <1>10, <2>1 DEF ReaderEnds, Types, Reaped
  <2>7. InOrder'
    <3>1. UNCHANGED <<taken, chan>> /\ \A t \in Streams : taken[t] <= taken'[t]
      BY <1>10 DEF ReaderEnds
    <3> QED BY <2>1, <3>1, OrderKept DEF NothingNew
  <2>8. Complete'
    BY <1>10, <2>1 DEF ReaderEnds, Types, Complete, Shows
  <2>9. OutputIsFaithful'
    <3>1. UNCHANGED <<acc, truncated, written>> /\ \A t \in Streams : written[t] <= written'[t]
      BY <1>10 DEF ReaderEnds
    <3> QED BY <2>1, <3>1, FaithfulKept DEF NothingNew
  <2>10. Successful'
    <3>1. ASSUME NEW i \in 1..Len(events), Success(i)
          PROVE  UNCHANGED <<pc, code, written, failed, reading>> /\ proc'[Shell] = "dead"
      <4>1. pc = "done" /\ proc[Shell] = "dead" /\ reading = {}
        BY <3>1 DEF Successful
      <4> QED BY <1>10, <4>1 DEF ReaderEnds, Types, Alive
    <3> QED BY <2>1, <3>1, SuccessKept
  <2>11. CutIsTold'
    BY <1>10, <2>1 DEF ReaderEnds, Types, CutIsTold
  <2> QED BY <2>2, <2>3, <2>4, <2>5, <2>6, <2>7, <2>8, <2>9, <2>10, <2>11
<1>11. CASE CancelWins
  <2>1. NothingNew
    BY <1>11, NoEvent DEF CancelWins, Kill, Break
  <2>2. Types'
    BY <1>11, <2>1 DEF CancelWins, Kill, Break, Types, Codes, Alive
  <2>3. Unstarted'
    BY <1>11, <2>1 DEF CancelWins, Kill, Break, Types, Unstarted, Alive
  <2>4. GroupIsDead'
    BY <1>11, <2>1 DEF CancelWins, Kill, Break, Types, GroupIsDead, Over, Group, Alive
  <2>5. Drained'
    BY <1>11, <2>1 DEF CancelWins, Kill, Break, Types, Drained, AtEnd, Alive
  <2>6. Reaped'
    BY <1>11, <2>1 DEF CancelWins, Kill, Break, Types, Reaped, Alive
  <2>7. InOrder'
    <3>1. UNCHANGED <<taken, chan>> /\ \A t \in Streams : taken[t] <= taken'[t]
      BY <1>11 DEF CancelWins, Kill, Break
    <3> QED BY <2>1, <3>1, OrderKept DEF NothingNew
  <2>8. Complete'
    BY <1>11, <2>1 DEF CancelWins, Kill, Break, Types, Complete, Shows, Alive
  <2>9. OutputIsFaithful'
    <3>1. UNCHANGED <<acc, truncated, written>> /\ \A t \in Streams : written[t] <= written'[t]
      BY <1>11 DEF CancelWins, Kill, Break
    <3> QED BY <2>1, <3>1, FaithfulKept DEF NothingNew
  <2>10. Successful'
    <3>1. ASSUME NEW i \in 1..Len(events), Success(i)
          PROVE  UNCHANGED <<pc, code, written, failed, reading>> /\ proc'[Shell] = "dead"
      <4>1. pc = "done" /\ proc[Shell] = "dead" /\ reading = {}
        BY <3>1 DEF Successful
      <4> QED BY <1>11, <4>1 DEF CancelWins, Kill, Break, Types, Alive
    <3> QED BY <2>1, <3>1, SuccessKept
  <2>11. CutIsTold'
    BY <1>11, <2>1 DEF CancelWins, Kill, Break, Types, CutIsTold, Alive
  <2> QED BY <2>2, <2>3, <2>4, <2>5, <2>6, <2>7, <2>8, <2>9, <2>10, <2>11
<1>12. CASE DeadlineWins
  <2>1. NothingNew
    BY <1>12, NoEvent DEF DeadlineWins, Kill, Break
  <2>2. Types'
    BY <1>12, <2>1 DEF DeadlineWins, Kill, Break, Types, Codes, Alive
  <2>3. Unstarted'
    BY <1>12, <2>1 DEF DeadlineWins, Kill, Break, Types, Unstarted, Alive
  <2>4. GroupIsDead'
    BY <1>12, <2>1 DEF DeadlineWins, Kill, Break, Types, GroupIsDead, Over, Group, Alive
  <2>5. Drained'
    BY <1>12, <2>1 DEF DeadlineWins, Kill, Break, Types, Drained, AtEnd, Alive
  <2>6. Reaped'
    BY <1>12, <2>1 DEF DeadlineWins, Kill, Break, Types, Reaped, Alive
  <2>7. InOrder'
    <3>1. UNCHANGED <<taken, chan>> /\ \A t \in Streams : taken[t] <= taken'[t]
      BY <1>12 DEF DeadlineWins, Kill, Break
    <3> QED BY <2>1, <3>1, OrderKept DEF NothingNew
  <2>8. Complete'
    BY <1>12, <2>1 DEF DeadlineWins, Kill, Break, Types, Complete, Shows, Alive
  <2>9. OutputIsFaithful'
    <3>1. UNCHANGED <<acc, truncated, written>> /\ \A t \in Streams : written[t] <= written'[t]
      BY <1>12 DEF DeadlineWins, Kill, Break
    <3> QED BY <2>1, <3>1, FaithfulKept DEF NothingNew
  <2>10. Successful'
    <3>1. ASSUME NEW i \in 1..Len(events), Success(i)
          PROVE  UNCHANGED <<pc, code, written, failed, reading>> /\ proc'[Shell] = "dead"
      <4>1. pc = "done" /\ proc[Shell] = "dead" /\ reading = {}
        BY <3>1 DEF Successful
      <4> QED BY <1>12, <4>1 DEF DeadlineWins, Kill, Break, Types, Alive
    <3> QED BY <2>1, <3>1, SuccessKept
  <2>11. CutIsTold'
    BY <1>12, <2>1 DEF DeadlineWins, Kill, Break, Types, CutIsTold, Alive
  <2> QED BY <2>2, <2>3, <2>4, <2>5, <2>6, <2>7, <2>8, <2>9, <2>10, <2>11
<1>13. CASE TakeChunk
  <2> DEFINE h == Head(chan)
             es == <<OutputEvent(h)>>
             L == Len(events)
  <2>a. /\ h \in Chunk /\ h = chan[1] /\ 1 \in 1..Len(chan)
        /\ chan' \in Seq(Chunk) /\ Len(chan') = Len(chan) - 1
        /\ \A k \in 1..Len(chan') : k + 1 \in 1..Len(chan) /\ chan'[k] = chan[k + 1]
    <3>1. chan # <<>> /\ chan' = Tail(chan)
      BY <1>13 DEF TakeChunk
    <3> QED BY <3>1, HeadTailProperties, EmptySeq
  <2>k. /\ \A k, l \in 1..Len(chan') : k < l => k + 1 < l + 1
        /\ \A k \in 1..Len(chan') : 1 < k + 1
    BY <2>a
  <2>b. /\ h.stream \in Streams /\ h.from \in Nat /\ h.to \in Nat
    BY <2>a DEF Chunk
  <2>c. OutputEvent(h) \in Events /\ es \in Seq(Events) /\ Len(es) = 1 /\ es[1] = OutputEvent(h)
    <3>1. OutputEvent(h) \in Events
      BY <2>a DEF OutputEvent, Events
    <3> QED BY <3>1
  <2>d. Emit(es)
    BY <1>13 DEF TakeChunk
  <2> HIDE DEF h, es
  <2>e. /\ events' \in Seq(Events) /\ Len(events') = L + 1
        /\ \A i \in 1..L : events'[i] = events[i] /\ i \in 1..Len(events')
        /\ L + 1 \in 1..Len(events')
        /\ events'[L + 1].kind = "output" /\ events'[L + 1].chunk = h
        /\ \A i \in 1..Len(events') : i \in 1..L \/ i = L + 1
    <3>1. /\ events' \in Seq(Events) /\ Len(events') = L + 1
          /\ \A i \in 1..L : events'[i] = events[i]
          /\ \A i \in 1..Len(es) : events'[L + i] = es[i]
      BY <2>c, <2>d, EmitBehind
    <3>2. events'[L + 1] = OutputEvent(h)
      BY <2>c, <3>1
    <3> QED BY <3>1, <3>2 DEF OutputEvent
  <2>f. /\ UNCHANGED <<pc, why, proc, holds, code, written, taken, reading, failed, pipes_open, status>>
        /\ pc = "loop"
    BY <1>13 DEF TakeChunk
  <2>g. \/ acc' = Append(acc, h) /\ truncated' = truncated
        \/ acc' = acc /\ truncated' = TRUE
    BY <1>13 DEF TakeChunk, h, Types
  <2>h. /\ acc' \in Seq(Chunk) /\ Len(acc) <= Len(acc')
        /\ \A k \in 1..Len(acc) : acc'[k] = acc[k] /\ k \in 1..Len(acc')
        /\ truncated' \/ \E k \in 1..Len(acc') : acc'[k] = h
        /\ \A k \in 1..Len(acc') : k \in 1..Len(acc) \/ acc'[k] = h
        /\ truncated => truncated'
    <3>1. CASE acc' = Append(acc, h) /\ truncated' = truncated
      <4>1. /\ acc' \in Seq(Chunk) /\ Len(acc') = Len(acc) + 1 /\ acc'[Len(acc) + 1] = h
            /\ \A k \in 1..Len(acc) : acc'[k] = acc[k]
        BY <2>a, <3>1, AppendProperties
      <4>2. Len(acc) + 1 \in 1..Len(acc')
        BY <4>1
      <4> QED BY <3>1, <4>1, <4>2
    <3>2. CASE acc' = acc /\ truncated' = TRUE
      BY <3>2
    <3> QED BY <2>g, <3>1, <3>2
  <2> HIDE DEF L
  <2>1. Types'
    <3>1. truncated' \in BOOLEAN
      BY <2>g DEF Types
    <3> QED BY <2>a, <2>e, <2>f, <2>h, <3>1 DEF Types
  <2>2. Unstarted'
    BY <2>f DEF Unstarted
  <2>3. GroupIsDead'
    BY <2>f DEF GroupIsDead, Over, Group
  <2>4. Drained'
    BY <1>13, <2>f DEF TakeChunk, Drained, AtEnd
  <2>5. Reaped'
    BY <2>f DEF Reaped
  <2>6. InOrder'
    <3>1. \A k \in 1..Len(chan') : Fits(chan'[k], taken')
      BY <2>a, <2>f, <2>k DEF InOrder
    <3>2. \A k, l \in 1..Len(chan') :
            k < l /\ chan'[k].stream = chan'[l].stream => chan'[k].to <= chan'[l].from
      <4> SUFFICES ASSUME NEW k \in 1..Len(chan'), NEW l \in 1..Len(chan'), k < l,
                          chan'[k].stream = chan'[l].stream
                   PROVE  chan'[k].to <= chan'[l].from
        OBVIOUS
      <4> DEFINE x == k + 1
                 y == l + 1
      <4>1. /\ x \in 1..Len(chan) /\ y \in 1..Len(chan) /\ x < y
            /\ chan'[k] = chan[x] /\ chan'[l] = chan[y]
        BY <2>a, <2>k
      <4> HIDE DEF x, y
      <4> QED BY <4>1 DEF InOrder
    <3>3. ASSUME NEW i \in 1..L, events[i].kind = "output"
          PROVE  /\ Fits(events[i].chunk, taken)
                 /\ \A k \in 1..Len(chan') :
                      chan'[k].stream = events[i].chunk.stream => events[i].chunk.to <= chan'[k].from
      BY <2>a, <2>k, <3>3 DEF InOrder, L
    <3>4. /\ Fits(h, taken)
          /\ \A k \in 1..Len(chan') : chan'[k].stream = h.stream => h.to <= chan'[k].from
      BY <2>a, <2>k DEF InOrder
    <3>5. ASSUME NEW i \in 1..Len(events'), events'[i].kind = "output"
          PROVE  /\ Fits(events'[i].chunk, taken')
                 /\ \A k \in 1..Len(chan') :
                      chan'[k].stream = events'[i].chunk.stream => events'[i].chunk.to <= chan'[k].from
      BY <2>e, <2>f, <3>3, <3>4, <3>5
    <3> QED BY <3>1, <3>2, <3>5 DEF InOrder
  <2>7. Complete'
    <3>1. ASSUME NEW t \in Streams, NEW n \in 1..taken'[t]
          PROVE  \/ \E i \in 1..Len(events') : ShownIn(events', i, t, n)
                 \/ \E k \in 1..Len(chan') : Covers(chan'[k], t, n)
      <4>1. \/ \E i \in 1..L : Shows(i, t, n)
            \/ \E k \in 1..Len(chan) : Covers(chan[k], t, n)
        BY <2>f DEF Complete, L
      <4>2. CASE \E i \in 1..L : Shows(i, t, n)
        BY <2>e, <4>2 DEF Shows, ShownIn
      <4>3. ASSUME NEW k \in 1..Len(chan), Covers(chan[k], t, n)
            PROVE  \/ \E i \in 1..Len(events') : ShownIn(events', i, t, n)
                   \/ \E l \in 1..Len(chan') : Covers(chan'[l], t, n)
        <5>1. CASE k = 1
          BY <2>a, <2>e, <4>3, <5>1 DEF ShownIn
        <5>2. CASE k # 1
          <6>1. k - 1 \in 1..Len(chan') /\ (k - 1) + 1 = k
            BY <2>a, <5>2
          <6>2. chan'[k - 1] = chan[k]
            BY <2>a, <6>1
          <6> QED BY <4>3, <6>1, <6>2
        <5> QED BY <5>1, <5>2
      <4> QED BY <4>1, <4>2, <4>3
    <3> QED BY <3>1 DEF Complete, Shows, ShownIn
  <2>8. OutputIsFaithful'
    <3> DEFINE Told(i, c) ==
                 /\ c.to \in 1..written[c.stream] /\ c.from < c.to
                 /\ \A m \in 1..c.from : \E j \in 1..(i - 1) : ShownIn(events', j, c.stream, m)
                 /\ \A m \in (c.from + 1)..written[c.stream], j \in 1..(i - 1) :
                      ~ShownIn(events', j, c.stream, m)
                 /\ c.torn => Width[c.stream] > 1
                 /\ truncated' \/ \E k \in 1..Len(acc') : acc'[k] = c
    <3>1. /\ DOMAIN events = 1..L /\ DOMAIN events' = 1..Len(events')
          /\ DOMAIN acc = 1..Len(acc) /\ DOMAIN acc' = 1..Len(acc')
      BY <2>e, <2>h, LenProperties DEF L
    <3>2. ASSUME NEW j \in 1..L, NEW t, NEW m
          PROVE  ShownIn(events', j, t, m) <=> Shows(j, t, m)
      BY <2>e DEF Shows, ShownIn
    <3>3. ASSUME NEW i \in 1..L, events[i].kind = "output", NEW c, c = events[i].chunk
          PROVE  Told(i, c)
      <4>1. /\ c.to \in 1..written[c.stream] /\ c.from < c.to
            /\ \A m \in 1..c.from : \E j \in 1..(i - 1) : Shows(j, c.stream, m)
            /\ \A m \in (c.from + 1)..written[c.stream], j \in 1..(i - 1) :
                 ~Shows(j, c.stream, m)
            /\ c.torn => Width[c.stream] > 1
            /\ truncated \/ \E k \in 1..Len(acc) : acc[k] = c
        BY <3>1, <3>3 DEF OutputIsFaithful
      <4>2. \A j \in 1..(i - 1) : j \in 1..L
        BY DEF L
      <4>3. \A m \in 1..c.from : \E j \in 1..(i - 1) : ShownIn(events', j, c.stream, m)
        BY <3>2, <4>1, <4>2
      <4>4. \A m \in (c.from + 1)..written[c.stream], j \in 1..(i - 1) : ~ShownIn(events', j, c.stream, m)
        BY <3>2, <4>1, <4>2
      <4>5. truncated' \/ \E k \in 1..Len(acc') : acc'[k] = c
        BY <2>h, <4>1
      <4> QED BY <4>1, <4>3, <4>4, <4>5
    <3>4. Told(L + 1, h)
      <4>0. L \in Nat /\ (L + 1) - 1 = L
        BY DEF L
      <4>1. Fits(h, taken) /\ taken[h.stream] <= written[h.stream]
        BY <2>a, <2>b DEF InOrder, Drained
      <4>2. /\ h.to \in 1..written[h.stream] /\ h.from < h.to /\ h.to <= taken[h.stream]
            /\ h.torn => Width[h.stream] > 1
        BY <2>b, <4>1 DEF Fits
      <4>3. ASSUME NEW m \in 1..h.from
            PROVE  \E j \in 1..L : ShownIn(events', j, h.stream, m)
        <5>1. m \in 1..taken[h.stream]
          BY <2>b, <4>2
        <5>2. ASSUME NEW k \in 1..Len(chan), Covers(chan[k], h.stream, m)
              PROVE  FALSE
          <6>1. chan[k].stream = h.stream /\ m \in (chan[k].from + 1)..chan[k].to
            BY <5>2 DEF Covers
          <6>2. chan[k] \in Chunk /\ chan[k].from \in Nat
            <7>1. chan[k] \in Chunk
              OBVIOUS
            <7> QED BY <7>1 DEF Chunk
          <6>3. k # 1
            BY <2>a, <2>b, <6>1
          <6>4. chan[1].to <= chan[k].from
            BY <2>a, <6>1, <6>3 DEF InOrder
          <6> QED BY <2>a, <2>b, <4>2, <6>1, <6>2, <6>4
        <5>3. PICK j \in 1..L : Shows(j, h.stream, m)
          BY <2>b, <2>f, <5>1, <5>2 DEF Complete, L
        <5>4. ShownIn(events', j, h.stream, m)
          BY <3>2, <5>3
        <5> QED BY <5>4
      <4>4. ASSUME NEW m \in (h.from + 1)..written[h.stream], NEW j \in 1..L,
                   Shows(j, h.stream, m)
            PROVE  FALSE
        <5>1. /\ events[j].kind = "output" /\ events[j].chunk.stream = h.stream
              /\ m \in (events[j].chunk.from + 1)..events[j].chunk.to
          BY <4>4 DEF Shows, Covers
        <5>2. events[j].chunk.to <= h.from
          BY <2>a, <5>1 DEF InOrder, L
        <5>3. events[j] \in Events
          BY DEF L
        <5>4. events[j].chunk.to \in Nat /\ events[j].chunk.from \in Nat
          BY <5>1, <5>3 DEF Events, Chunk
        <5> QED BY <2>b, <5>1, <5>2, <5>4
      <4>5. \A m \in (h.from + 1)..written[h.stream], j \in 1..L : ~ShownIn(events', j, h.stream, m)
        BY <3>2, <4>4
      <4>6. truncated' \/ \E k \in 1..Len(acc') : acc'[k] = h
        BY <2>h
      <4>7. \A m \in 1..h.from : \E j \in 1..((L + 1) - 1) : ShownIn(events', j, h.stream, m)
        BY <4>0, <4>3
      <4>8. \A m \in (h.from + 1)..written[h.stream], j \in 1..((L + 1) - 1) :
              ~ShownIn(events', j, h.stream, m)
        BY <4>0, <4>5
      <4> QED BY <4>2, <4>6, <4>7, <4>8, Zenon
    <3> HIDE DEF Told
    <3>5. ASSUME NEW i \in 1..Len(events'), events'[i].kind = "output"
          PROVE  Told(i, events'[i].chunk)
      BY <2>e, <3>3, <3>4, <3>5
    <3>6. ASSUME NEW k \in 1..Len(acc')
          PROVE  \E i \in 1..Len(events') :
                   events'[i].kind = "output" /\ events'[i].chunk = acc'[k]
      <4>1. CASE k \in 1..Len(acc)
        <5>1. PICK i \in 1..L : events[i].kind = "output" /\ events[i].chunk = acc[k]
          BY <3>1, <4>1 DEF OutputIsFaithful
        <5> QED BY <2>e, <2>h, <4>1, <5>1
      <4>2. CASE acc'[k] = h
        BY <2>e, <4>2
      <4> QED BY <2>h, <4>1, <4>2
    <3>7. UNCHANGED written
      BY <2>f
    <3> QED BY ONLY <3>1, <3>5, <3>6, <3>7 DEF OutputIsFaithful, Told, Shows, ShownIn
  <2>9. Successful'
    <3>1. \A i \in 1..L : ~Success(i)
      BY <2>f DEF Successful, L
    <3>2. \A i \in 1..Len(events') : ~Success(i)'
      BY <2>e, <3>1 DEF Success
    <3> QED BY <3>2 DEF Successful
  <2>10. CutIsTold'
    BY <2>f DEF CutIsTold
  <2> QED BY <2>1, <2>2, <2>3, <2>4, <2>5, <2>6, <2>7, <2>8, <2>9, <2>10
<1>14. CASE PipesClose
  <2>1. NothingNew
    BY <1>14, NoEvent DEF PipesClose, Break
  <2>2. Types'
    BY <1>14, <2>1 DEF PipesClose, Break, Types, Codes
  <2>3. Unstarted'
    BY <1>14, <2>1 DEF PipesClose, Break, Types, Unstarted
  <2>4. GroupIsDead'
    BY <1>14, <2>1 DEF PipesClose, Break, Types, GroupIsDead, Over, Group
  <2>5. Drained'
    BY <1>14, <2>1 DEF PipesClose, Break, Types, Drained, AtEnd
  <2>6. Reaped'
    BY <1>14, <2>1 DEF PipesClose, Break, Types, Reaped
  <2>7. InOrder'
    <3>1. UNCHANGED <<taken, chan>> /\ \A t \in Streams : taken[t] <= taken'[t]
      BY <1>14 DEF PipesClose, Break
    <3> QED BY <2>1, <3>1, OrderKept DEF NothingNew
  <2>8. Complete'
    BY <1>14, <2>1 DEF PipesClose, Break, Types, Complete, Shows
  <2>9. OutputIsFaithful'
    <3>1. UNCHANGED <<acc, truncated, written>> /\ \A t \in Streams : written[t] <= written'[t]
      BY <1>14 DEF PipesClose, Break
    <3> QED BY <2>1, <3>1, FaithfulKept DEF NothingNew
  <2>10. Successful'
    <3>1. ASSUME NEW i \in 1..Len(events), Success(i)
          PROVE  UNCHANGED <<pc, code, written, failed, reading>> /\ proc'[Shell] = "dead"
      <4>1. pc = "done" /\ proc[Shell] = "dead" /\ reading = {}
        BY <3>1 DEF Successful
      <4> QED BY <1>14, <4>1 DEF PipesClose, Break, Types, Alive
    <3> QED BY <2>1, <3>1, SuccessKept
  <2>11. CutIsTold'
    BY <1>14, <2>1 DEF PipesClose, Break, Types, CutIsTold
  <2> QED BY <2>2, <2>3, <2>4, <2>5, <2>6, <2>7, <2>8, <2>9, <2>10, <2>11
<1>15. CASE ShellExits
  <2>1. NothingNew
    BY <1>15, NoEvent DEF ShellExits, Break
  <2>2. Types'
    BY <1>15, <2>1 DEF ShellExits, Break, Types, Codes
  <2>3. Unstarted'
    BY <1>15, <2>1 DEF ShellExits, Break, Types, Unstarted
  <2>4. GroupIsDead'
    BY <1>15, <2>1 DEF ShellExits, Break, Types, GroupIsDead, Over, Group
  <2>5. Drained'
    BY <1>15, <2>1 DEF ShellExits, Break, Types, Drained, AtEnd
  <2>6. Reaped'
    BY <1>15 DEF ShellExits, Break, Reaped, Types, Codes
  <2>7. InOrder'
    <3>1. UNCHANGED <<taken, chan>> /\ \A t \in Streams : taken[t] <= taken'[t]
      BY <1>15 DEF ShellExits, Break
    <3> QED BY <2>1, <3>1, OrderKept DEF NothingNew
  <2>8. Complete'
    BY <1>15, <2>1, ZenonT(40) DEF ShellExits, Break, Types, Complete, Shows
  <2>9. OutputIsFaithful'
    <3>1. UNCHANGED <<acc, truncated, written>> /\ \A t \in Streams : written[t] <= written'[t]
      BY <1>15 DEF ShellExits, Break
    <3> QED BY <2>1, <3>1, FaithfulKept DEF NothingNew
  <2>10. Successful'
    <3>1. ASSUME NEW i \in 1..Len(events), Success(i)
          PROVE  UNCHANGED <<pc, code, written, failed, reading>> /\ proc'[Shell] = "dead"
      <4>1. pc = "done" /\ proc[Shell] = "dead" /\ reading = {}
        BY <3>1 DEF Successful
      <4> QED BY <1>15, <4>1 DEF ShellExits, Break, Types, Alive
    <3> QED BY <2>1, <3>1, SuccessKept
  <2>11. CutIsTold'
    BY <1>15, <2>1 DEF ShellExits, Break, Types, CutIsTold
  <2> QED BY <2>2, <2>3, <2>4, <2>5, <2>6, <2>7, <2>8, <2>9, <2>10, <2>11
<1>16. CASE Return
  <2> DEFINE L == Len(events)
  <2>a. PICK ok \in BOOLEAN : ok = Succeeded
    BY DEF Succeeded
  <2>b. /\ events' \in Seq(Events) /\ Len(events') = L + 1
        /\ \A i \in 1..L : events'[i] = events[i] /\ i \in 1..Len(events')
        /\ events'[L + 1].kind = "result" /\ events'[L + 1].ok = ok
        /\ \A i \in 1..Len(events') : i \in 1..L \/ i = L + 1
    <3> DEFINE es == <<ResultEvent(ok)>>
    <3>1. es \in Seq(Events) /\ Len(es) = 1 /\ es[1] = ResultEvent(ok)
      BY DEF ResultEvent, Events
    <3>2. Emit(es)
      BY <1>16, <2>a DEF Return
    <3> HIDE DEF es
    <3>3. /\ events' \in Seq(Events) /\ Len(events') = L + 1
          /\ \A i \in 1..L : events'[i] = events[i]
          /\ \A i \in 1..Len(es) : events'[L + i] = es[i]
      BY <3>1, <3>2, EmitBehind
    <3>4. events'[L + 1] = ResultEvent(ok)
      BY <3>1, <3>3
    <3> QED BY <3>3, <3>4 DEF ResultEvent
  <2>c. NoOutput
    BY <2>b DEF NoOutput
  <2>d. /\ pc = "reap" /\ pc' = "done" /\ UNCHANGED <<why, taken, failed, pipes_open, acc, truncated, written>>
        /\ reading' = {} /\ chan' = <<>> /\ content' = Cap(acc, ResultCap)
        /\ status' = IF status = "none" THEN code ELSE status
        /\ status # "none" \/ proc[Shell] = "dead"
        /\ Kill(Group)
    BY <1>16 DEF Return, Kill
  <2> HIDE DEF L
  <2>1. Types'
    <3>1. /\ proc' \in [Procs -> {"none", "group", "away", "dead"}]
          /\ holds' \in [Procs -> SUBSET Streams]
      BY <2>d DEF Kill
    <3>2. code' \in Codes /\ status' \in Codes
      BY <2>d DEF Kill, Types, Codes
    <3>3. <<>> \in Seq(Chunk)
      OBVIOUS
    <3> QED BY <2>b, <2>d, <3>1, <3>2, <3>3 DEF Types
  <2>2. Unstarted'
    BY <2>d DEF Unstarted
  <2>3. GroupIsDead'
    BY <2>d DEF GroupIsDead, Group, Kill, Alive
  <2>4. Drained'
    BY <2>d DEF Drained
  <2>5. Reaped'
    BY <2>d DEF Reaped, Kill, Alive, Group
  <2>6. InOrder'
    BY <2>c, <2>d, OrderKept
  <2>7. Complete'
    BY <2>d DEF Complete
  <2>8. OutputIsFaithful'
    BY <2>c, <2>d, FaithfulKept
  <2>9. Successful'
    <3>1. \A i \in 1..L : ~Success(i)
      BY <2>d DEF Successful, L
    <3>2. \A i \in 1..Len(events') : Success(i)' => i = L + 1 /\ ok
      BY <2>b, <3>1 DEF Success
    <3>3. ASSUME ok
          PROVE  /\ code' = "0" /\ proc'[Shell] = "dead"
                 /\ \A t \in Streams \ failed' : \A n \in 1..written'[t] :
                      \E j \in 1..Len(events') : ShownIn(events', j, t, n)
      <4>1. status' = "0" /\ why = "exited"
        BY <2>a, <3>3 DEF Succeeded
      <4>2. ~pipes_open /\ status = "0" /\ code = "0" /\ proc[Shell] = "dead"
        BY <2>d, <4>1 DEF Reaped
      <4>3. chan = <<>> /\ \A t \in Streams \ failed : AtEnd(t)
        BY <2>d, <4>2 DEF Drained
      <4>4. \A t \in Streams \ failed : taken[t] = written[t]
        BY <4>3 DEF AtEnd
      <4>5. code' = "0" /\ proc'[Shell] = "dead"
        BY <2>d, <4>2 DEF Kill, Alive
      <4>6. \A t \in Streams \ failed : \A n \in 1..written[t] : \E j \in 1..L : Shows(j, t, n)
        <5>1. 1..Len(chan) = {}
          BY <4>3
        <5> QED BY <2>d, <4>4, <5>1 DEF Complete, L
      <4>7. written' = written /\ failed' = failed
        BY <2>d
      <4>8. \A j \in 1..L : \A t, n : Shows(j, t, n) => ShownIn(events', j, t, n)
        BY <2>b DEF Shows, ShownIn
      <4>9. \A j \in 1..L : j \in 1..Len(events')
        BY <2>b
      <4>10. ASSUME NEW t \in Streams \ failed', NEW n \in 1..written'[t]
             PROVE  \E j \in 1..Len(events') : ShownIn(events', j, t, n)
        <5>1. PICK j \in 1..L : Shows(j, t, n)
          BY <4>6, <4>7
        <5> QED BY <4>8, <4>9, <5>1
      <4> QED BY <4>5, <4>10
    <3> QED BY <2>d, <3>2, <3>3 DEF Successful, Shows, ShownIn
  <2>10. CutIsTold'
    <3>1. ResultCap \in Nat
      BY BashAssumption
    <3>2. Cap(acc, ResultCap) # acc =>
            /\ \E i \in DOMAIN Cap(acc, ResultCap) : Cap(acc, ResultCap)[i] = Marker
            /\ Len(Cap(acc, ResultCap)) <= ResultCap + 1
      BY <3>1, CapIsBounded
    <3> QED BY <2>d, <3>2 DEF CutIsTold
  <2> QED BY <2>1, <2>2, <2>3, <2>4, <2>5, <2>6, <2>7, <2>8, <2>9, <2>10
<1>17. CASE Drop
  <2>1. NothingNew
    <3> DEFINE es == <<ResultEvent(FALSE)>>
    <3>1. CallEvent \in Events /\ ResultEvent(FALSE) \in Events
      BY DEF CallEvent, ResultEvent, Events
    <3>2. es \in Seq(Events) /\ Len(es) = 1
          /\ \A k \in 1..1 : es[k].kind # "output" /\ ~(es[k].kind = "result" /\ es[k].ok)
      BY <3>1 DEF CallEvent, ResultEvent
    <3>3. Emit(es)
      BY <1>17 DEF Drop
    <3> HIDE DEF es
    <3> QED BY <3>2, <3>3, QuietEvents
  <2>2. Types'
    <3>1. events' \in Seq(Events) /\ <<>> \in Seq(Chunk)
      BY <2>1 DEF NothingNew, NoOutput
    <3>2. /\ proc' \in [Procs -> {"none", "group", "away", "dead"}]
          /\ holds' \in [Procs -> SUBSET Streams]
      BY <1>17 DEF Drop, Kill
    <3>3. code' \in Codes
      BY <1>17 DEF Drop, Kill, Types, Codes
    <3> QED BY <1>17, <3>1, <3>2, <3>3 DEF Drop, Kill, Types
  <2>3. Unstarted'
    BY <1>17, <2>1 DEF Drop, Kill, Types, Unstarted, Alive
  <2>4. GroupIsDead'
    BY <1>17, <2>1 DEF Drop, Kill, Types, GroupIsDead, Over, Group, Alive
  <2>5. Drained'
    BY <1>17, <2>1 DEF Drop, Kill, Types, Drained, AtEnd, Alive
  <2>6. Reaped'
    BY <1>17, <2>1 DEF Drop, Kill, Types, Reaped, Alive
  <2>7. InOrder'
    <3>1. UNCHANGED taken /\ chan' \in {chan, <<>>} /\ \A t \in Streams : taken[t] <= taken'[t]
      BY <1>17 DEF Drop, Kill
    <3> QED BY <2>1, <3>1, OrderKept DEF NothingNew
  <2>8. Complete'
    BY <1>17, <2>1 DEF Drop, Kill, Types, Complete, Shows, Alive
  <2>9. OutputIsFaithful'
    <3>1. UNCHANGED <<acc, truncated, written>> /\ \A t \in Streams : written[t] <= written'[t]
      BY <1>17 DEF Drop, Kill
    <3> QED BY <2>1, <3>1, FaithfulKept DEF NothingNew
  <2>10. Successful'
    <3>1. ~\E i \in 1..Len(events) : Success(i)
      BY <1>17 DEF Drop, Successful
    <3> QED BY <2>1, <3>1, SuccessKept
  <2>11. CutIsTold'
    BY <1>17, <2>1 DEF Drop, Kill, Types, CutIsTold, Alive
  <2> QED BY <2>2, <2>3, <2>4, <2>5, <2>6, <2>7, <2>8, <2>9, <2>10, <2>11
<1>18. CASE UNCHANGED vars
  <2>1. NothingNew
    BY <1>18, NoEvent DEF vars
  <2>2. Types'
    BY <1>18, <2>1, ZenonT(40) DEF vars, Types, Codes
  <2>3. Unstarted'
    BY <1>18, <2>1 DEF vars, Types, Unstarted
  <2>4. GroupIsDead'
    BY <1>18, <2>1 DEF vars, Types, GroupIsDead, Over, Group
  <2>5. Drained'
    BY <1>18, <2>1 DEF vars, Types, Drained, AtEnd
  <2>6. Reaped'
    BY <1>18, <2>1 DEF vars, Types, Reaped
  <2>7. InOrder'
    <3>1. UNCHANGED <<taken, chan>> /\ \A t \in Streams : taken[t] <= taken'[t]
      BY <1>18 DEF vars
    <3> QED BY <2>1, <3>1, OrderKept DEF NothingNew
  <2>8. Complete'
    BY <1>18, <2>1 DEF vars, Types, Complete, Shows
  <2>9. OutputIsFaithful'
    <3>1. UNCHANGED <<acc, truncated, written>> /\ \A t \in Streams : written[t] <= written'[t]
      BY <1>18 DEF vars
    <3> QED BY <2>1, <3>1, FaithfulKept DEF NothingNew
  <2>10. Successful'
    <3>1. ASSUME NEW i \in 1..Len(events), Success(i)
          PROVE  UNCHANGED <<pc, code, written, failed, reading>> /\ proc'[Shell] = "dead"
      <4>1. pc = "done" /\ proc[Shell] = "dead" /\ reading = {}
        BY <3>1 DEF Successful
      <4> QED BY <1>18, <4>1 DEF vars, Types, Alive
    <3> QED BY <2>1, <3>1, SuccessKept
  <2>11. CutIsTold'
    BY <1>18, <2>1 DEF vars, Types, CutIsTold
  <2> QED BY <2>2, <2>3, <2>4, <2>5, <2>6, <2>7, <2>8, <2>9, <2>10, <2>11
<1>19. ASSUME NEW s \in Streams, ReaderFails(s) PROVE Inv'
  <2>1. NothingNew
    BY <1>19, NoEvent DEF ReaderFails
  <2>2. Types'
    BY <1>19, <2>1, ZenonT(40) DEF ReaderFails, Types, Codes
  <2>3. Unstarted'
    BY <1>19, <2>1 DEF ReaderFails, Types, Unstarted
  <2>4. GroupIsDead'
    BY <1>19, <2>1 DEF ReaderFails, Types, GroupIsDead, Over, Group
  <2>5. Drained'
    BY <1>19, <2>1 DEF ReaderFails, Types, Drained, AtEnd
  <2>6. Reaped'
    BY <1>19, <2>1 DEF ReaderFails, Types, Reaped
  <2>7. InOrder'
    <3>1. UNCHANGED <<taken, chan>> /\ \A t \in Streams : taken[t] <= taken'[t]
      BY <1>19 DEF ReaderFails
    <3> QED BY <2>1, <3>1, OrderKept DEF NothingNew
  <2>8. Complete'
    BY <1>19, <2>1 DEF ReaderFails, Types, Complete, Shows
  <2>9. OutputIsFaithful'
    <3>1. UNCHANGED <<acc, truncated, written>> /\ \A t \in Streams : written[t] <= written'[t]
      BY <1>19 DEF ReaderFails
    <3> QED BY <2>1, <3>1, FaithfulKept DEF NothingNew
  <2>10. Successful'
    <3>1. ASSUME NEW i \in 1..Len(events), Success(i)
          PROVE  UNCHANGED <<pc, code, written, failed, reading>> /\ proc'[Shell] = "dead"
      <4>1. pc = "done" /\ proc[Shell] = "dead" /\ reading = {}
        BY <3>1 DEF Successful
      <4> QED BY <1>19, <4>1 DEF ReaderFails, Types, Alive
    <3> QED BY <2>1, <3>1, SuccessKept
  <2>11. CutIsTold'
    BY <1>19, <2>1 DEF ReaderFails, Types, CutIsTold
  <2> QED BY <2>2, <2>3, <2>4, <2>5, <2>6, <2>7, <2>8, <2>9, <2>10, <2>11
<1> QED BY <1>1, <1>2, <1>3, <1>4, <1>5, <1>6, <1>7, <1>8, <1>9, <1>10, <1>11, <1>12, <1>13, <1>14, <1>15, <1>16, <1>17, <1>18, <1>19
  DEF Next, Children, Readers, Loop, Forward

-----------------------------------------------------------------------------
(* The theorems.                                                            *)

\* The invariant holds in every state of every behaviour of a call.
THEOREM InvHolds == Spec => []Inv
<1>1. Init => Inv
  BY InvInit
<1>2. Inv /\ [Next]_vars => Inv'
  BY InvStep
<1> QED BY <1>1, <1>2, PTL DEF Spec

\* When a call is over, however it ended, no process of its group is left, for
\* any number of background processes (ProcessGroup, kill_on_drop).
THEOREM GroupStaysDead == Spec => []GroupIsDead
<1>1. Inv => GroupIsDead
  BY DEF Inv
<1> QED BY <1>1, InvHolds, PTL

\* What is shown of a stream comes from what was written to it, in order,
\* without a gap and nothing twice, and the result keeps nothing else, whatever
\* the capacities, however much the processes write and wherever reads end; and
\* text of characters of one byte is never torn (bash, read_pipe).
THEOREM OutputStaysFaithful == Spec => []OutputIsFaithful
<1>1. Inv => OutputIsFaithful
  BY DEF Inv
<1> QED BY <1>1, InvHolds, PTL

\* A call reported as a success has shown everything that was ever written to
\* the streams on which no read failed, whichever of the shell, its children
\* and the readers ends last (bash).
THEOREM SuccessStaysWhole == Spec => []SuccessIsWhole
<1>1. Inv => SuccessIsWhole
  <2> SUFFICES ASSUME Inv PROVE SuccessIsWhole
    OBVIOUS
  <2>1. DOMAIN events = 1..Len(events)
    <3>1. events \in Seq(Events)
      BY DEF Inv, Types
    <3> QED BY <3>1, LenProperties
  <2>2. Successful
    BY DEF Inv
  <2> QED BY <2>1, <2>2 DEF Successful, Success, SuccessIsWhole
<1> QED BY <1>1, InvHolds, PTL

\* A cut of the kept output says that it is one and is bounded in characters,
\* whatever their widths and the cap (diff::cap).
THEOREM CutStaysTold == Spec => []CutIsTold
<1>1. Inv => CutIsTold
  BY DEF Inv
<1> QED BY <1>1, InvHolds, PTL

=============================================================================
