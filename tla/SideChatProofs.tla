--------------------------- MODULE SideChatProofs ---------------------------
(***************************************************************************)
(* Theorems about SideChat: what the side agent answers and remembers, for *)
(* any number of questions, any queue, any memory of an even length and    *)
(* any main agent beside it; and what the panes of the terminal show of    *)
(* the events, for any cap of their items and lines and any widths.        *)
(***************************************************************************)
EXTENDS SideChat, ListLemmas

USE SideAssumption, TerminalAssumption

\* The events of the session, and what the side agent remembers.
Events == [kind : {"side"}, question : Nat, about : Nat]
            \cup [kind : MainKinds \cup {"error"}]
Messages == [role : {"user", "assistant"}, of : Nat]

-----------------------------------------------------------------------------
(* Lemmas about the operators.                                              *)

\* An emitted event is the next one, and the others stay where they are.
LEMMA EmitOne ==
  ASSUME NEW e \in Events, events \in Seq(Events), Emit(<<e>>)
  PROVE  /\ events' \in Seq(Events) /\ Len(events') = Len(events) + 1
         /\ \A i \in 1..Len(events) : events'[i] = events[i]
         /\ events'[Len(events) + 1] = e
<1> DEFINE one == <<e>>
<1>1. one \in Seq(Events) /\ Len(one) = 1 /\ one[1] = e
  OBVIOUS
<1>2. events' = events \o one
  BY DEF Emit
<1> HIDE DEF one
<1>3. /\ events' \in Seq(Events) /\ Len(events') = Len(events) + 1
      /\ \A i \in 1..(Len(events) + 1) :
           events'[i] = IF i <= Len(events) THEN events[i] ELSE one[i - Len(events)]
  <2>1. /\ events \o one \in Seq(Events) /\ Len(events \o one) = Len(events) + Len(one)
        /\ \A i \in 1..(Len(events) + Len(one)) :
             (events \o one)[i] = IF i <= Len(events) THEN events[i] ELSE one[i - Len(events)]
    BY <1>1, ConcatProperties
  <2> QED BY <1>1, <1>2, <2>1
<1>4. Len(events) \in Nat
  BY LenProperties
<1>5. \A i \in 1..Len(events) : events'[i] = events[i]
  BY <1>3, <1>4
<1>6. events'[Len(events) + 1] = one[1]
  <2>1. Len(events) + 1 \in 1..(Len(events) + 1) /\ ~(Len(events) + 1 <= Len(events))
    BY <1>4
  <2>2. Len(events) + 1 - Len(events) = 1
    BY <1>4
  <2> QED BY <1>3, <2>1, <2>2
<1> QED BY <1>1, <1>3, <1>5, <1>6

\* Remembering one exchange more shifts the history by nothing or by two
\* messages, so that it stays even and within its cap.
LEMMA CutShifts ==
  ASSUME history \in Seq(Messages), Len(history) % 2 = 0, Len(history) <= SideHistCap,
         NEW u \in Messages, NEW a \in Messages
  PROVE  LET cut == Cut(history \o <<u, a>>)
         IN  /\ cut \in Seq(Messages)
             /\ Len(cut) % 2 = 0 /\ Len(cut) <= SideHistCap
             /\ \E d \in {0, 2} :
                  /\ Len(cut) = Len(history) + 2 - d
                  /\ \A i \in 1..Len(cut) :
                       cut[i] = IF i + d <= Len(history) THEN history[i + d]
                                ELSE IF i + d = Len(history) + 1 THEN u ELSE a
<1> DEFINE two == <<u, a>>
           all == history \o two
           n == Len(history)
<1>1. two \in Seq(Messages) /\ Len(two) = 2 /\ two[1] = u /\ two[2] = a
  OBVIOUS
<1>2. n \in Nat /\ n % 2 = 0 /\ n <= SideHistCap
  BY LenProperties
<1> HIDE DEF two
<1>3. /\ all \in Seq(Messages) /\ Len(all) = n + 2
      /\ \A i \in 1..(n + 2) : all[i] = IF i <= n THEN history[i] ELSE two[i - n]
  <2>1. /\ all \in Seq(Messages) /\ Len(all) = n + Len(two)
        /\ \A i \in 1..(n + Len(two)) : all[i] = IF i <= n THEN history[i] ELSE two[i - n]
    BY <1>1, ConcatProperties
  <2> HIDE DEF all
  <2> QED BY <1>1, <2>1
<1> HIDE DEF all, n
<1>4. \A i \in 1..(n + 2) : all[i] = IF i <= n THEN history[i]
                                      ELSE IF i = n + 1 THEN u ELSE a
  <2> SUFFICES ASSUME NEW i \in 1..(n + 2), ~(i <= n)
               PROVE  all[i] = IF i = n + 1 THEN u ELSE a
    BY <1>3
  <2>1. i = n + 1 \/ i = n + 2
    BY <1>2
  <2>2. all[i] = two[i - n]
    BY <1>3
  <2>3. i = n + 1 => i - n = 1
    BY <1>2
  <2>4. i = n + 2 => i - n = 2 /\ i # n + 1
    BY <1>2
  <2> QED BY <1>1, <2>1, <2>2, <2>3, <2>4
<1>5. CASE n + 2 <= SideHistCap
  <2>1. Cut(all) = all
    BY <1>2, <1>3, <1>5 DEF Cut
  <2>2. (n + 2) % 2 = 0
    BY <1>2
  <2>3. \A i \in 1..(n + 2) : i + 0 = i
    BY <1>2
  <2>4. n + 2 - 0 = n + 2
    BY <1>2
  <2> QED BY <1>2, <1>3, <1>4, <1>5, <2>1, <2>2, <2>3, <2>4 DEF all, two, n
<1>6. CASE ~(n + 2 <= SideHistCap)
  <2>1. n = SideHistCap
    BY <1>2, <1>6
  <2>2. Cut(all) = SubSeq(all, 3, n + 2)
    <3>1. n + 2 - SideHistCap + 1 = 3 /\ n + 2 > SideHistCap
      BY <1>2, <2>1
    <3>2. Cut(all) = IF n + 2 > SideHistCap
                       THEN SubSeq(all, n + 2 - SideHistCap + 1, n + 2) ELSE all
      BY <1>2, <1>3 DEF Cut
    <3> QED BY <3>1, <3>2
  <2>3. /\ Cut(all) \in Seq(Messages) /\ Len(Cut(all)) = n
        /\ \A i \in 1..n : Cut(all)[i] = all[i + 2]
    <3>1. \A i \in 3..(n + 2) : all[i] \in Messages
      BY <1>2, <1>3
    <3>2. /\ Cut(all) \in Seq(Messages)
          /\ Len(Cut(all)) = IF 3 <= n + 2 THEN n + 2 - 3 + 1 ELSE 0
          /\ \A i \in 1..(n + 2 - 3 + 1) : Cut(all)[i] = all[3 + i - 1]
      BY <1>2, <1>3, <2>2, <3>1, SubSeqProperties
    <3>3. n >= 1 /\ n + 2 - 3 + 1 = n /\ 3 <= n + 2
      BY <1>2, <2>1
    <3>4. \A i \in 1..n : 3 + i - 1 = i + 2
      BY <1>2
    <3> QED BY <3>2, <3>3, <3>4
  <2>4. \A i \in 1..n : i + 2 \in 1..(n + 2)
    BY <1>2
  <2>5. n + 2 - 2 = n
    BY <1>2
  <2> QED BY <1>2, <1>3, <1>4, <2>1, <2>3, <2>4, <2>5 DEF all, two, n
<1> QED BY <1>5, <1>6

-----------------------------------------------------------------------------
(* The inductive invariant.                                                 *)

Types ==
  /\ events \in Seq(Events)
  /\ asked \in Seq(Nat)
  /\ queue \in Seq(Nat \ {0}) /\ question \in Nat /\ about \in Nat
  /\ history \in Seq(Messages)

\* What was asked is not of the future.
AskedBefore == \A q \in 1..Len(asked) : asked[q] <= Len(events)

\* The channel holds questions that were asked, in their order.
QueueAscends ==
  /\ \A i \in 1..Len(queue) : queue[i] <= Len(asked)
  /\ \A i, j \in 1..Len(queue) : i < j => queue[i] < queue[j]

\* The question at hand is older than those in the channel, and the state
\* read for it is not older than the question.
AtHand ==
  /\ question <= Len(asked)
  /\ question # 0 => /\ about >= asked[question]
                     /\ \A i \in 1..Len(queue) : question < queue[i]

\* What is answered is older than what is not.
Pending(q) ==
  /\ q < question \/ question = 0
  /\ \A i \in 1..Len(queue) : q < queue[i]

Answered ==
  \A i \in 1..Len(events) : events[i].kind = "side" =>
    /\ events[i].question \in 1..Len(asked)
    /\ Pending(events[i].question)

\* What is remembered is older than what is not yet answered.
Remembered ==
  \A i \in 1..Len(history) : history[i].of <= Len(asked) /\ Pending(history[i].of)

\* The invariant of the side agent.
Inv ==
  /\ Types /\ AskedBefore /\ QueueAscends /\ AtHand
  /\ Answered /\ AnswersAreFresh
  /\ Remembered /\ HistoryIsExchanges
  /\ Len(history) % 2 = 0 /\ Len(history) <= SideHistCap

LEMMA InvInit == Init => Inv
<1> SUFFICES ASSUME Init PROVE Inv
  OBVIOUS
<1> USE DEF Init, SideInit
<1>1. Types
  BY DEF Types
<1>2. AskedBefore /\ QueueAscends /\ AtHand
  BY DEF AskedBefore, QueueAscends, AtHand
<1>3. Answered /\ AnswersAreFresh
  BY DEF Answered, AnswersAreFresh
<1>4. Remembered /\ HistoryIsExchanges
  BY DEF Remembered, HistoryIsExchanges
<1>5. Len(history) % 2 = 0 /\ Len(history) <= SideHistCap
  BY SMT
<1> QED BY <1>1, <1>2, <1>3, <1>4, <1>5 DEF Inv

\* An event that is no answer disturbs nothing, as long as nothing else
\* changes but the questions asked, which only become more.
LEMMA OtherEvent ==
  ASSUME Inv, NEW e \in Events, e.kind # "side", Emit(<<e>>)
  PROVE  /\ events' \in Seq(Events) /\ Len(events') = Len(events) + 1
         /\ \A i \in 1..Len(events') : events'[i].kind = "side" =>
              i \in 1..Len(events) /\ events'[i] = events[i]
<1>1. /\ events' \in Seq(Events) /\ Len(events') = Len(events) + 1
      /\ \A i \in 1..Len(events) : events'[i] = events[i]
      /\ events'[Len(events) + 1] = e
  BY EmitOne DEF Inv, Types
<1>2. Len(events) \in Nat
  BY LenProperties DEF Inv, Types
<1>3. ASSUME NEW i \in 1..Len(events'), events'[i].kind = "side"
      PROVE  i \in 1..Len(events) /\ events'[i] = events[i]
  <2>1. i # Len(events) + 1
    BY <1>1, <1>3
  <2>2. i \in 1..Len(events)
    BY <1>1, <1>2, <2>1
  <2> QED BY <1>1, <2>2
<1> QED BY <1>1, <1>3

\* What the main agent emits is of its kinds.
LEMMA NextMain == NextKinds \subseteq MainKinds
<1> DEFINE last == IF MainEvents = <<>> THEN "none" ELSE MainEvents[Len(MainEvents)].kind
<1>1. NextKinds = CASE last = "delta"     -> {"delta", "usage", "call", "plan_call"}
                    [] last = "usage"     -> {"call", "plan_call"}
                    [] last = "call"      -> {"result"}
                    [] last = "plan_call" -> {"plan", "plan_result"}
                    [] last = "plan"      -> {"plan_result"}
                    [] OTHER              -> {"delta", "call", "plan_call"}
  BY DEF NextKinds
<1> HIDE DEF last
<1> QED BY <1>1 DEF MainKinds

LEMMA MainEmitsStep == Inv /\ MainEmits => Inv'
<1> SUFFICES ASSUME Inv, MainEmits PROVE Inv'
  OBVIOUS
<1> USE DEF MainEmits, sideVars
<1>1. PICK e \in Events : e.kind # "side" /\ Emit(<<e>>)
  <2>1. PICK kind \in MainKinds : Emit(<<[kind |-> kind]>>)
    BY NextMain
  <2>2. [kind |-> kind] \in Events /\ [kind |-> kind].kind # "side"
    BY <2>1 DEF Events, MainKinds
  <2> QED BY <2>1, <2>2
<1>2. /\ events' \in Seq(Events) /\ Len(events') = Len(events) + 1
      /\ \A i \in 1..Len(events') : events'[i].kind = "side" =>
           i \in 1..Len(events) /\ events'[i] = events[i]
  BY <1>1, OtherEvent
<1> HIDE DEF MainEmits
<1>3. UNCHANGED <<asked, queue, question, about, history>>
  BY DEF MainEmits
<1>4. Len(events) \in Nat
  BY LenProperties DEF Inv, Types
<1>5. Types'
  BY <1>2, <1>3 DEF Inv, Types
<1>6. AskedBefore'
  BY <1>2, <1>3, <1>4 DEF Inv, Types, AskedBefore
<1>7. QueueAscends' /\ AtHand'
  BY <1>3 DEF Inv, QueueAscends, AtHand
<1>8. Answered'
  BY <1>2, <1>3 DEF Inv, Answered, Pending
<1>9. AnswersAreFresh'
  BY <1>2, <1>3, <1>4 DEF Inv, AnswersAreFresh
<1>10. Remembered' /\ HistoryIsExchanges' /\ (Len(history) % 2 = 0 /\ Len(history) <= SideHistCap)'
  BY <1>3 DEF Inv, Remembered, HistoryIsExchanges, Pending
<1> QED BY <1>5, <1>6, <1>7, <1>8, <1>9, <1>10 DEF Inv

\* A question that is asked is newer than all there are, and the state as of
\* now is its lower bound.
LEMMA AskStep == Inv /\ Ask => Inv'
<1> SUFFICES ASSUME Inv, Ask PROVE Inv'
  OBVIOUS
<1> DEFINE q == Len(asked) + 1
<1>1. asked \in Seq(Nat) /\ queue \in Seq(Nat \ {0}) /\ Len(events) \in Nat
  BY LenProperties DEF Inv, Types
<1>2. Len(asked) \in Nat /\ Len(queue) \in Nat
  BY <1>1, LenProperties
<1>3. /\ asked' \in Seq(Nat) /\ Len(asked') = q
      /\ \A i \in 1..Len(asked) : asked'[i] = asked[i]
      /\ asked'[q] = Len(events)
  BY <1>1, AppendProperties DEF Ask, Now
<1>4. UNCHANGED <<question, about, history>>
  BY DEF Ask
<1>5. /\ Len(events') \in Nat /\ Len(events') >= Len(events) /\ events' \in Seq(Events)
      /\ \A i \in 1..Len(events') : events'[i].kind = "side" =>
           i \in 1..Len(events) /\ events'[i] = events[i]
  <2>1. CASE UNCHANGED events
    BY <1>1, <2>1 DEF Inv, Types
  <2>2. CASE Emit(<<ErrorEvent>>)
    <3>1. ErrorEvent \in Events /\ ErrorEvent.kind # "side"
      BY DEF ErrorEvent, Events
    <3> QED BY <1>1, <2>2, <3>1, OtherEvent
  <2> QED BY <2>1, <2>2 DEF Ask
<1>6. /\ queue' \in Seq(Nat \ {0}) /\ Len(queue') \in Nat
      /\ \A i \in 1..Len(queue') : IF i <= Len(queue) THEN queue'[i] = queue[i]
                                                      ELSE queue'[i] = q
      /\ Len(queue') <= Len(queue) + 1
  <2>1. CASE UNCHANGED queue
    BY <1>1, <1>2, <2>1
  <2>2. CASE queue' = Append(queue, q)
    <3>1. q \in Nat \ {0}
      BY <1>2
    <3>2. /\ queue' \in Seq(Nat \ {0}) /\ Len(queue') = Len(queue) + 1
          /\ \A i \in 1..Len(queue) : queue'[i] = queue[i]
          /\ queue'[Len(queue) + 1] = q
      BY <1>1, <2>2, <3>1, AppendProperties
    <3> QED BY <1>2, <3>2
  <2> QED BY <2>1, <2>2 DEF Ask
<1> HIDE DEF q
<1>7. q \in Nat /\ q > Len(asked)
  BY <1>2 DEF q
<1>8. Types'
  BY <1>3, <1>4, <1>5, <1>6 DEF Inv, Types
<1>9. AskedBefore'
  <2> SUFFICES ASSUME NEW i \in 1..Len(asked') PROVE asked'[i] <= Len(events')
    BY DEF AskedBefore
  <2>1. i \in 1..Len(asked) \/ i = q
    BY <1>2, <1>3 DEF q
  <2>2. CASE i \in 1..Len(asked)
    <3>1. asked[i] \in Nat /\ asked[i] <= Len(events)
      BY <1>1, <2>2 DEF Inv, AskedBefore
    <3> QED BY <1>1, <1>3, <1>5, <2>2, <3>1
  <2>3. CASE i = q
    BY <1>1, <1>3, <1>5, <2>3
  <2> QED BY <2>1, <2>2, <2>3
<1>10. QueueAscends'
  <2>1. ASSUME NEW i \in 1..Len(queue)
        PROVE  queue[i] \in Nat /\ queue[i] <= Len(asked) /\ queue[i] < q
    BY <1>1, <1>2, <1>7 DEF Inv, QueueAscends
  <2>2. ASSUME NEW i \in 1..Len(queue') PROVE queue'[i] <= q
    <3>1. CASE i <= Len(queue)
      <4>1. i \in 1..Len(queue) /\ queue'[i] = queue[i]
        BY <1>2, <1>6, <3>1
      <4> QED BY <1>7, <2>1, <4>1
    <3>2. CASE ~(i <= Len(queue))
      BY <1>6, <1>7, <3>2
    <3> QED BY <3>1, <3>2
  <2>3. ASSUME NEW i \in 1..Len(queue'), NEW j \in 1..Len(queue'), i < j
        PROVE  queue'[i] < queue'[j]
    <3>1. i <= Len(queue) /\ queue'[i] = queue[i] /\ i \in 1..Len(queue)
      BY <1>2, <1>6, <2>3
    <3>2. CASE j <= Len(queue)
      <4>1. j \in 1..Len(queue) /\ queue'[j] = queue[j]
        BY <1>2, <1>6, <3>2
      <4>2. queue[i] < queue[j]
        BY <2>3, <3>1, <4>1 DEF Inv, QueueAscends
      <4> QED BY <3>1, <4>1, <4>2
    <3>3. CASE ~(j <= Len(queue))
      BY <1>6, <2>1, <3>1, <3>3
    <3> QED BY <3>2, <3>3
  <2> QED BY <1>3, <2>2, <2>3 DEF QueueAscends
<1>11. ASSUME NEW r \in Nat, r <= Len(asked), Pending(r)
       PROVE  (r < question \/ question = 0) /\ \A k \in 1..Len(queue') : r < queue'[k]
  <2>1. ASSUME NEW k \in 1..Len(queue') PROVE r < queue'[k]
    <3>1. CASE k <= Len(queue)
      BY <1>2, <1>6, <1>11, <3>1 DEF Pending
    <3>2. CASE ~(k <= Len(queue))
      BY <1>2, <1>6, <1>7, <1>11, <3>2
    <3> QED BY <3>1, <3>2
  <2> QED BY <1>11, <2>1 DEF Pending
<1>12. question \in Nat /\ question <= Len(asked)
  BY DEF Inv, Types, AtHand
<1>13. AtHand'
  <2>1. question' <= Len(asked')
    BY <1>2, <1>3, <1>4, <1>7, <1>12
  <2>2. question # 0 => asked'[question] = asked[question]
    BY <1>2, <1>3, <1>12
  <2>3. ASSUME question # 0, NEW i \in 1..Len(queue') PROVE question < queue'[i]
    <3>1. CASE i <= Len(queue)
      <4>1. i \in 1..Len(queue) /\ queue'[i] = queue[i]
        BY <1>2, <1>6, <3>1
      <4> QED BY <2>3, <4>1 DEF Inv, AtHand
    <3>2. CASE ~(i <= Len(queue))
      BY <1>2, <1>6, <1>7, <1>12, <3>2
    <3> QED BY <3>1, <3>2
  <2> QED BY <1>4, <2>1, <2>2, <2>3 DEF Inv, AtHand
<1>14. Answered'
  <2> SUFFICES ASSUME NEW i \in 1..Len(events'), events'[i].kind = "side"
               PROVE  (events[i].question \in 1..Len(asked) /\ Pending(events[i].question))'
    BY DEF Answered
  <2>1. i \in 1..Len(events) /\ events'[i] = events[i]
    BY <1>5
  <2> DEFINE r == events[i].question
  <2>2. r \in 1..Len(asked) /\ Pending(r)
    BY <2>1, <1>5 DEF Inv, Answered
  <2>3. r \in Nat /\ r <= Len(asked) /\ r \in 1..q
    BY <1>2, <1>7, <2>2
  <2> HIDE DEF r
  <2>4. (r < question \/ question = 0) /\ \A k \in 1..Len(queue') : r < queue'[k]
    BY <1>11, <2>2, <2>3
  <2>5. (events[i].question)' = r
    BY <2>1 DEF r
  <2> QED BY <1>3, <1>4, <2>3, <2>4, <2>5 DEF Pending
<1>15. AnswersAreFresh'
  <2> SUFFICES ASSUME NEW i \in DOMAIN events', events'[i].kind = "side"
               PROVE  /\ events'[i].about >= asked'[events'[i].question]
                      /\ \A j \in 1..(i - 1) :
                           events'[j].kind = "side" => events'[j].question < events'[i].question
    BY DEF AnswersAreFresh
  <2>1. i \in 1..Len(events) /\ events'[i] = events[i]
    BY <1>5
  <2>2. events[i].question \in 1..Len(asked) /\ i \in DOMAIN events
    BY <2>1 DEF Inv, Answered, Types
  <2>3. asked'[events[i].question] = asked[events[i].question]
    BY <1>3, <2>2
  <2>4. \A j \in 1..(i - 1) : j \in 1..Len(events')
    BY <1>1, <1>5, <2>1
  <2>5. \A j \in 1..(i - 1) : events'[j].kind = "side" => events'[j] = events[j]
    BY <1>5, <2>4
  <2> QED BY <2>1, <2>2, <2>3, <2>5 DEF Inv, AnswersAreFresh
<1>16. Remembered'
  <2> SUFFICES ASSUME NEW i \in 1..Len(history)
               PROVE  (history[i].of <= Len(asked) /\ Pending(history[i].of))'
    BY <1>4 DEF Remembered
  <2> DEFINE r == history[i].of
  <2>1. r \in Nat
    <3>1. history \in Seq(Messages)
      BY DEF Inv, Types
    <3>2. history[i] \in Messages
      BY <3>1
    <3> QED BY <3>2 DEF Messages
  <2>2. r <= Len(asked) /\ Pending(r)
    BY DEF Inv, Remembered
  <2> HIDE DEF r
  <2>4. (r < question \/ question = 0) /\ \A k \in 1..Len(queue') : r < queue'[k]
    BY <1>11, <2>1, <2>2
  <2>5. (history[i].of)' = r
    BY <1>4 DEF r
  <2>6. r <= Len(asked')
    BY <1>2, <1>3, <1>7, <2>1, <2>2
  <2> QED BY <1>4, <2>4, <2>5, <2>6 DEF Pending
<1>17. HistoryIsExchanges' /\ (Len(history) % 2 = 0 /\ Len(history) <= SideHistCap)'
  BY <1>4 DEF Inv, HistoryIsExchanges
<1> QED BY <1>8, <1>9, <1>10, <1>13, <1>14, <1>15, <1>16, <1>17 DEF Inv

\* The oldest question of the channel becomes the one at hand, and the state
\* it is answered from is the present one.
LEMMA BeginAnswerStep == Inv /\ BeginAnswer => Inv'
<1> SUFFICES ASSUME Inv, BeginAnswer PROVE Inv'
  OBVIOUS
<1>1. /\ queue \in Seq(Nat \ {0}) /\ Len(queue) \in Nat /\ Len(queue) >= 1
      /\ Len(events) \in Nat /\ asked \in Seq(Nat) /\ Len(asked) \in Nat
  <2>1. queue \in Seq(Nat \ {0}) /\ queue # <<>> /\ events \in Seq(Events) /\ asked \in Seq(Nat)
    BY DEF Inv, Types, BeginAnswer
  <2> QED BY <2>1, LenProperties, EmptySeq
<1>2. /\ queue' \in Seq(Nat \ {0}) /\ Len(queue') = Len(queue) - 1
      /\ \A i \in 1..Len(queue') : queue'[i] = queue[i + 1]
      /\ \A i \in 1..Len(queue') : i + 1 \in 2..Len(queue)
  BY <1>1 DEF BeginAnswer
<1>3. question = 0 /\ question' = queue[1] /\ about' = Len(events)
  BY DEF BeginAnswer, Now
<1>4. UNCHANGED <<asked, history, events>>
  BY DEF BeginAnswer
<1>5. queue[1] \in Nat \ {0} /\ queue[1] <= Len(asked)
  BY <1>1 DEF Inv, QueueAscends
<1>6. Types'
  BY <1>1, <1>2, <1>3, <1>4, <1>5 DEF Inv, Types
<1>7. AskedBefore' /\ AnswersAreFresh' /\ HistoryIsExchanges'
      /\ (Len(history) % 2 = 0 /\ Len(history) <= SideHistCap)'
  BY <1>4 DEF Inv, AskedBefore, AnswersAreFresh, HistoryIsExchanges
<1>8. QueueAscends'
  <2>1. \A i \in 1..Len(queue') : queue'[i] <= Len(asked')
    <3> TAKE i \in 1..Len(queue')
    <3>1. i + 1 \in 1..Len(queue) /\ queue'[i] = queue[i + 1]
      BY <1>1, <1>2
    <3>2. queue[i + 1] <= Len(asked)
      BY <3>1 DEF Inv, QueueAscends
    <3> QED BY <1>4, <3>1, <3>2
  <2>2. ASSUME NEW i \in 1..Len(queue'), NEW j \in 1..Len(queue'), i < j
        PROVE  queue'[i] < queue'[j]
    <3>1. i + 1 \in 1..Len(queue) /\ j + 1 \in 1..Len(queue) /\ i + 1 < j + 1
      BY <1>1, <1>2, <2>2
    <3>2. queue[i + 1] < queue[j + 1]
      BY <3>1 DEF Inv, QueueAscends
    <3> QED BY <1>2, <3>2
  <2> QED BY <2>1, <2>2 DEF QueueAscends
<1>9. ASSUME NEW i \in 1..Len(queue') PROVE queue[1] < queue'[i]
  <2>1. 1 \in 1..Len(queue) /\ i + 1 \in 1..Len(queue) /\ 1 < i + 1
    BY <1>1, <1>2
  <2>2. queue[1] < queue[i + 1]
    BY <2>1 DEF Inv, QueueAscends
  <2> QED BY <1>2, <2>2
<1>10. AtHand'
  <2>1. queue[1] \in 1..Len(asked)
    BY <1>1, <1>5
  <2>2. asked[queue[1]] <= Len(events)
    BY <2>1 DEF Inv, AskedBefore
  <2>3. asked[queue[1]] \in Nat
    BY <1>1, <2>1
  <2> QED BY <1>1, <1>3, <1>4, <1>5, <1>9, <2>2, <2>3 DEF AtHand
<1>11. ASSUME NEW r \in Nat, Pending(r)
       PROVE  r < question' /\ \A k \in 1..Len(queue') : r < queue'[k]
  <2>1. r < queue[1]
    BY <1>1, <1>11 DEF Pending
  <2>2. ASSUME NEW k \in 1..Len(queue') PROVE r < queue'[k]
    <3>1. k + 1 \in 1..Len(queue)
      BY <1>1, <1>2
    <3>2. r < queue[k + 1]
      BY <1>11, <3>1 DEF Pending
    <3> QED BY <1>2, <3>2
  <2> QED BY <1>3, <2>1, <2>2
<1>12. Answered'
  <2> SUFFICES ASSUME NEW i \in 1..Len(events), events[i].kind = "side"
               PROVE  (events[i].question \in 1..Len(asked) /\ Pending(events[i].question))'
    BY <1>4 DEF Answered
  <2>1. events[i].question \in 1..Len(asked) /\ Pending(events[i].question)
    BY DEF Inv, Answered
  <2>2. events[i].question \in Nat
    BY <1>1, <2>1
  <2> QED BY <1>4, <1>11, <2>1, <2>2 DEF Pending
<1>13. Remembered'
  <2> SUFFICES ASSUME NEW i \in 1..Len(history)
               PROVE  (history[i].of <= Len(asked) /\ Pending(history[i].of))'
    BY <1>4 DEF Remembered
  <2>1. history \in Seq(Messages)
    BY DEF Inv, Types
  <2>2. history[i] \in Messages
    BY <2>1
  <2>3. history[i].of \in Nat
    BY <2>2 DEF Messages
  <2>4. history[i].of <= Len(asked) /\ Pending(history[i].of)
    BY DEF Inv, Remembered
  <2> QED BY <1>4, <1>11, <2>3, <2>4 DEF Pending
<1> QED BY <1>6, <1>7, <1>8, <1>10, <1>12, <1>13 DEF Inv

\* The part of the invariant that does not speak of the history survives the
\* publication of an answer.
LEMMA PublishStep ==
  ASSUME Inv, Publish
  PROVE  /\ events' \in Seq(Events) /\ UNCHANGED <<asked, queue>>
         /\ question' = 0 /\ about' = 0 /\ question \in 1..Len(asked)
         /\ AskedBefore' /\ QueueAscends' /\ AtHand' /\ Answered' /\ AnswersAreFresh'
<1> DEFINE e == SideEvent(question, about)
           n == Len(events)
<1>1. /\ question \in Nat \ {0} /\ about \in Nat /\ n \in Nat
      /\ asked \in Seq(Nat) /\ Len(asked) \in Nat /\ events \in Seq(Events)
  <2>1. events \in Seq(Events) /\ asked \in Seq(Nat)
    BY DEF Inv, Types
  <2> QED BY <2>1, LenProperties DEF Inv, Types, Publish
<1>2. e \in Events /\ e.kind = "side" /\ e.question = question /\ e.about = about
  BY <1>1 DEF SideEvent, Events
<1>3. Emit(<<e>>) /\ question' = 0 /\ about' = 0 /\ UNCHANGED <<asked, queue>>
  BY DEF Publish
<1> HIDE DEF e
<1>4. /\ events' \in Seq(Events) /\ Len(events') = n + 1
      /\ \A i \in 1..n : events'[i] = events[i]
      /\ events'[n + 1] = e
  BY <1>1, <1>2, <1>3, EmitOne
<1>5. question \in 1..Len(asked)
  BY <1>1 DEF Inv, AtHand
<1>6. AskedBefore'
  BY <1>1, <1>3, <1>4 DEF Inv, AskedBefore
<1>7. QueueAscends' /\ AtHand'
  BY <1>1, <1>3 DEF Inv, QueueAscends, AtHand
<1> HIDE DEF n
<1>8. \A i \in 1..Len(events') : i \in 1..n \/ i = n + 1
  BY <1>1, <1>4
<1>9. Answered'
  <2> SUFFICES ASSUME NEW i \in 1..Len(events'), events'[i].kind = "side"
               PROVE  (events[i].question \in 1..Len(asked) /\ Pending(events[i].question))'
    BY DEF Answered
  <2>1. CASE i \in 1..n
    <3>1. events'[i] = events[i]
      BY <1>4, <2>1
    <3>2. events[i].question \in 1..Len(asked) /\ Pending(events[i].question)
      BY <2>1, <3>1 DEF Inv, Answered, n
    <3> QED BY <1>3, <3>1, <3>2 DEF Pending
  <2>2. CASE i = n + 1
    <3>1. events'[i].question = question
      BY <1>2, <1>4, <2>2
    <3>2. \A k \in 1..Len(queue) : question < queue[k]
      BY <1>1 DEF Inv, AtHand
    <3> QED BY <1>3, <1>5, <3>1, <3>2 DEF Pending
  <2> QED BY <1>8, <2>1, <2>2
<1>10. AnswersAreFresh'
  <2>1. DOMAIN events' = 1..Len(events') /\ DOMAIN events = 1..n
    BY <1>1, <1>4, LenProperties DEF n
  <2> SUFFICES ASSUME NEW i \in 1..Len(events'), events'[i].kind = "side"
               PROVE  /\ events'[i].about >= asked'[events'[i].question]
                      /\ \A j \in 1..(i - 1) :
                           events'[j].kind = "side" => events'[j].question < events'[i].question
    BY <2>1 DEF AnswersAreFresh
  <2>2. \A j \in 1..(i - 1) : j \in 1..n /\ events'[j] = events[j]
    BY <1>1, <1>4
  <2>3. CASE i \in 1..n
    <3>1. events'[i] = events[i]
      BY <1>4, <2>3
    <3> QED BY <1>3, <2>1, <2>2, <2>3, <3>1 DEF Inv, AnswersAreFresh
  <2>4. CASE i = n + 1
    <3>1. events'[i].question = question /\ events'[i].about = about
      BY <1>2, <1>4, <2>4
    <3>2. about >= asked[question]
      BY <1>1 DEF Inv, AtHand
    <3>3. \A j \in 1..n : events[j].kind = "side" => events[j].question < question
      BY <1>1 DEF Inv, Answered, Pending, n
    <3> QED BY <1>3, <2>2, <3>1, <3>2, <3>3
  <2> QED BY <1>8, <2>3, <2>4
<1> QED BY <1>3, <1>4, <1>5, <1>6, <1>7, <1>9, <1>10

\* The exchange just published is newer than what is remembered, and older
\* than what waits; the cut takes whole exchanges away.
LEMMA ModelAnswersStep == Inv /\ ModelAnswers => Inv'
<1> SUFFICES ASSUME Inv, ModelAnswers PROVE Inv'
  OBVIOUS
<1> DEFINE u == [role |-> "user", of |-> question]
           a == [role |-> "assistant", of |-> question]
           n == Len(history)
<1>1. /\ events' \in Seq(Events) /\ UNCHANGED <<asked, queue>>
      /\ question' = 0 /\ about' = 0 /\ question \in 1..Len(asked)
      /\ AskedBefore' /\ QueueAscends' /\ AtHand' /\ Answered' /\ AnswersAreFresh'
  BY PublishStep DEF ModelAnswers
<1>2. /\ history \in Seq(Messages) /\ n \in Nat /\ n % 2 = 0 /\ n <= SideHistCap
      /\ question \in Nat /\ question # 0
  <2>1. history \in Seq(Messages) /\ question \in Nat
    BY DEF Inv, Types
  <2> QED BY <2>1, LenProperties DEF Inv, ModelAnswers, Publish
<1>3. u \in Messages /\ a \in Messages
  BY <1>2 DEF Messages
<1>4. history' = Cut(history \o <<u, a>>)
  BY DEF ModelAnswers
<1>5. /\ u.role = "user" /\ u.of = question
      /\ a.role = "assistant" /\ a.of = question
  OBVIOUS
<1> HIDE DEF u, a
<1>6. /\ history' \in Seq(Messages)
      /\ Len(history') % 2 = 0 /\ Len(history') <= SideHistCap
      /\ \E d \in {0, 2} :
           /\ Len(history') = n + 2 - d
           /\ \A i \in 1..Len(history') :
                history'[i] = IF i + d <= n THEN history[i + d]
                              ELSE IF i + d = n + 1 THEN u ELSE a
  BY <1>2, <1>3, <1>4, CutShifts, SMTT(20)
<1>7. PICK d \in {0, 2} :
        /\ Len(history') = n + 2 - d
        /\ \A i \in 1..Len(history') :
             history'[i] = IF i + d <= n THEN history[i + d]
                           ELSE IF i + d = n + 1 THEN u ELSE a
  BY <1>6
<1>8. \A i \in 1..n : history[i] \in Messages /\ history[i].of \in Nat
  <2>1. \A i \in 1..n : history[i] \in Messages
    BY <1>2
  <2> QED BY <2>1 DEF Messages
<1>9. \A i \in 1..n : history[i].of < question /\ history[i].of <= Len(asked) /\ Pending(history[i].of)
  BY <1>2, <1>8 DEF Inv, Remembered, Pending
<1> HIDE DEF n
<1>10. ASSUME NEW i \in 1..Len(history')
       PROVE  /\ i + d \in 1..(n + 2)
              /\ (i + d) % 2 = i % 2
              /\ i + d <= n => history'[i] = history[i + d] /\ i + d \in 1..n
              /\ i + d = n + 1 => history'[i] = u
              /\ i + d = n + 2 => history'[i] = a
  <2>1. i + d \in 1..(n + 2) /\ i \in Nat /\ d \in Nat
    BY <1>2, <1>7
  <2>2. (i + d) % 2 = i % 2
    BY <2>1
  <2>3. i + d = n + 2 => ~(i + d <= n) /\ i + d # n + 1
    BY <1>2, <2>1
  <2>4. i + d = n + 1 => ~(i + d <= n)
    BY <1>2, <2>1
  <2>5. i + d <= n => i + d \in 1..n
    BY <1>2, <2>1
  <2> QED BY <1>7, <2>1, <2>2, <2>3, <2>4, <2>5
<1>11. Types'
  BY <1>1, <1>6 DEF Inv, Types
<1>12. \A k \in 1..Len(queue) : question < queue[k]
  BY <1>2 DEF Inv, AtHand
<1>13. Remembered'
  <2> SUFFICES ASSUME NEW i \in 1..Len(history')
               PROVE  (history[i].of <= Len(asked) /\ Pending(history[i].of))'
    BY DEF Remembered
  <2>1. CASE i + d <= n
    BY <1>1, <1>9, <1>10, <2>1 DEF Pending
  <2>2. CASE i + d > n
    <3>1. history'[i].of = question
      <4>1. i + d = n + 1 \/ i + d = n + 2
        BY <1>2, <1>10, <2>2
      <4>2. history'[i] = u \/ history'[i] = a
        BY <1>10, <4>1
      <4> QED BY <1>5, <4>2
    <3>2. question <= Len(asked)
      BY <1>1
    <3> QED BY <1>1, <1>12, <3>1, <3>2 DEF Pending
  <2> QED BY <1>2, <1>10, <2>1, <2>2
<1>14. HistoryIsExchanges'
  <2>1. DOMAIN history' = 1..Len(history') /\ DOMAIN history = 1..n
    BY <1>2, <1>6, LenProperties DEF n
  <2> SUFFICES ASSUME NEW i \in 1..Len(history')
               PROVE  /\ history'[i].role = IF i % 2 = 1 THEN "user" ELSE "assistant"
                      /\ i > 1 => IF i % 2 = 0 THEN history'[i - 1].of = history'[i].of
                                  ELSE history'[i - 1].of < history'[i].of
    BY <2>1 DEF HistoryIsExchanges
  <2> DEFINE j == i + d
  <2>2. j \in Nat /\ j % 2 = i % 2 /\ j \in 1..(n + 2)
    BY <1>2, <1>10
  <2>3. i > 1 => i - 1 \in 1..Len(history') /\ i - 1 + d = j - 1 /\ j > 1
    BY <1>2, <1>6, <1>7, LenProperties
  <2> HIDE DEF j
  <2>4. CASE j <= n
    <3>1. history'[i] = history[j]
      BY <1>10, <2>4 DEF j
    <3>2. i > 1 => history'[i - 1] = history[j - 1]
      BY <1>2, <1>10, <2>2, <2>3, <2>4
    <3>3. /\ history[j].role = IF j % 2 = 1 THEN "user" ELSE "assistant"
          /\ j > 1 => IF j % 2 = 0 THEN history[j - 1].of = history[j].of
                      ELSE history[j - 1].of < history[j].of
      <4>1. j \in DOMAIN history
        BY <1>2, <2>1, <2>2, <2>4
      <4>2. HistoryIsExchanges
        BY DEF Inv
      <4> QED BY <4>1, <4>2 DEF HistoryIsExchanges
    <3> QED BY <2>2, <2>3, <3>1, <3>2, <3>3
  <2>5. CASE j = n + 1
    <3>1. history'[i] = u /\ j % 2 = 1
      BY <1>2, <1>10, <2>5 DEF j
    <3>2. i > 1 => history'[i - 1] = history[n] /\ n \in 1..n
      <4>1. i > 1 => j - 1 = n /\ n <= n /\ n \in 1..n
        BY <1>2, <2>2, <2>3, <2>5
      <4> QED BY <1>10, <2>3, <4>1
    <3> QED BY <1>5, <1>9, <2>2, <3>1, <3>2
  <2>6. CASE j = n + 2
    <3>1. history'[i] = a /\ j % 2 = 0
      BY <1>2, <1>10, <2>6 DEF j
    <3>2. i > 1 => history'[i - 1] = u
      <4>1. i > 1 => j - 1 = n + 1
        BY <1>2, <2>6
      <4> QED BY <1>10, <2>3, <4>1
    <3> QED BY <1>5, <2>2, <3>1, <3>2
  <2> QED BY <1>2, <2>2, <2>4, <2>5, <2>6
<1> QED BY <1>1, <1>6, <1>11, <1>13, <1>14 DEF Inv

LEMMA HeuristicAnswersStep == Inv /\ HeuristicAnswers => Inv'
<1> SUFFICES ASSUME Inv, HeuristicAnswers PROVE Inv'
  OBVIOUS
<1>1. /\ events' \in Seq(Events) /\ UNCHANGED <<asked, queue>>
      /\ question' = 0 /\ about' = 0 /\ question \in 1..Len(asked)
      /\ AskedBefore' /\ QueueAscends' /\ AtHand' /\ Answered' /\ AnswersAreFresh'
  BY PublishStep DEF HeuristicAnswers
<1>2. UNCHANGED history
  BY DEF HeuristicAnswers
<1>3. Types'
  BY <1>1, <1>2 DEF Inv, Types
<1>4. Remembered'
  BY <1>1, <1>2 DEF Inv, Remembered, Pending
<1>5. HistoryIsExchanges' /\ (Len(history) % 2 = 0 /\ Len(history) <= SideHistCap)'
  BY <1>2 DEF Inv, HistoryIsExchanges
<1> QED BY <1>1, <1>3, <1>4, <1>5 DEF Inv

\* Steps of the terminal, and steps that change nothing.
LEMMA OtherStep == Inv /\ UNCHANGED <<events, sideVars>> => Inv'
BY DEF Inv, sideVars, Types, AskedBefore, QueueAscends, AtHand, Answered, Pending,
       AnswersAreFresh, Remembered, HistoryIsExchanges

LEMMA InvStep == Inv /\ [Next]_vars => Inv'
<1> SUFFICES ASSUME Inv, [Next]_vars PROVE Inv'
  OBVIOUS
<1>1. CASE MainEmits
  BY <1>1, MainEmitsStep
<1>2. CASE SubmitQuestion
  BY <1>2, AskStep DEF SubmitQuestion
<1>3. CASE Client /\ UNCHANGED <<events, sideVars>>
  BY <1>3, OtherStep
<1>4. CASE Answering
  BY <1>4, BeginAnswerStep, ModelAnswersStep, HeuristicAnswersStep DEF Answering
<1>5. CASE UNCHANGED vars
  BY <1>5, OtherStep DEF vars
<1> QED BY <1>1, <1>2, <1>3, <1>4, <1>5 DEF Next

-----------------------------------------------------------------------------
(* The ends of lists.                                                       *)

\* s is what t ends with.
EndOf(s, t) == /\ Len(s) <= Len(t)
               /\ \A i \in 1..Len(s) : s[i] = t[Len(t) - Len(s) + i]

LEMMA LastIsEnd ==
  ASSUME NEW S, NEW s \in Seq(S), NEW n \in Nat
  PROVE  /\ LastN(s, n) \in Seq(S) /\ EndOf(LastN(s, n), s)
         /\ Len(LastN(s, n)) = IF Len(s) > n THEN n ELSE Len(s)
<1>1. Len(s) \in Nat /\ DOMAIN s = 1..Len(s) /\ \A i \in 1..Len(s) : s[i] \in S
  OBVIOUS
<1>2. CASE ~(Len(s) > n)
  <2>1. LastN(s, n) = s
    BY <1>2 DEF LastN
  <2>2. \A i \in 1..Len(s) : Len(s) - Len(s) + i = i
    BY <1>1
  <2> QED BY <1>1, <1>2, <2>1, <2>2 DEF EndOf
<1>3. CASE Len(s) > n
  <2> DEFINE a == Len(s) - n + 1
             b == Len(s)
             t == LastN(s, n)
  <2>1. t = SubSeq(s, a, b)
    BY <1>3 DEF LastN
  <2>2. a \in Int /\ b \in Int /\ a >= 1 /\ (a <= b <=> n >= 1) /\ b - a + 1 = n
    BY <1>1, <1>3
  <2>3. \A i \in a..b : s[i] \in S
    BY <1>1, <2>2
  <2>4. /\ t \in Seq(S) /\ Len(t) = IF a <= b THEN b - a + 1 ELSE 0
        /\ \A i \in 1..(b - a + 1) : t[i] = s[a + i - 1]
    <3> HIDE DEF a, b, t
    <3> QED BY <2>1, <2>2, <2>3, SubSeqProperties
  <2>5. Len(t) = n
    BY <2>2, <2>4
  <2>6. \A i \in 1..n : t[i] = s[Len(s) - n + i]
    <3> TAKE i \in 1..n
    <3>1. a + i - 1 = Len(s) - n + i
      BY <1>1
    <3> HIDE DEF t
    <3> QED BY <2>2, <2>4, <3>1
  <2> HIDE DEF t
  <2>7. EndOf(t, s)
    BY <1>1, <1>3, <2>5, <2>6 DEF EndOf
  <2> QED BY <1>3, <2>4, <2>5, <2>7 DEF t
<1> QED BY <1>2, <1>3

LEMMA EndIsLast ==
  ASSUME NEW S, NEW s \in Seq(S), NEW t \in Seq(S), EndOf(s, t)
  PROVE  s = LastN(t, Len(s))
<1> DEFINE u == LastN(t, Len(s))
<1>1. Len(s) \in Nat /\ Len(t) \in Nat /\ Len(s) <= Len(t)
  BY DEF EndOf
<1>2. u \in Seq(S) /\ EndOf(u, t) /\ Len(u) = Len(s)
  BY <1>1, LastIsEnd
<1> HIDE DEF u
<1>3. \A i \in 1..Len(s) : s[i] = u[i]
  BY <1>2 DEF EndOf
<1> QED BY <1>2, <1>3, SeqEqual DEF u

LEMMA EndConcat ==
  ASSUME NEW S, NEW s \in Seq(S), NEW t \in Seq(S), NEW u \in Seq(S), EndOf(s, t)
  PROVE  EndOf(s \o u, t \o u)
<1>1. Len(s) \in Nat /\ Len(t) \in Nat /\ Len(u) \in Nat /\ Len(s) <= Len(t)
  BY DEF EndOf
<1>2. /\ Len(s \o u) = Len(s) + Len(u) /\ Len(t \o u) = Len(t) + Len(u)
      /\ \A i \in 1..(Len(s) + Len(u)) :
           (s \o u)[i] = IF i <= Len(s) THEN s[i] ELSE u[i - Len(s)]
      /\ \A i \in 1..(Len(t) + Len(u)) :
           (t \o u)[i] = IF i <= Len(t) THEN t[i] ELSE u[i - Len(t)]
  BY ConcatProperties
<1> DEFINE d == Len(t) - Len(s)
<1>3. d \in Nat /\ Len(t \o u) - Len(s \o u) = d /\ Len(s \o u) <= Len(t \o u)
  BY <1>1, <1>2
<1>4. ASSUME NEW i \in 1..(Len(s) + Len(u)) PROVE (s \o u)[i] = (t \o u)[d + i]
  <2>1. d + i \in 1..(Len(t) + Len(u)) /\ (i <= Len(s) <=> d + i <= Len(t))
        /\ (d + i) - Len(t) = i - Len(s)
    BY <1>1
  <2>2. i <= Len(s) => s[i] = t[d + i]
    BY <1>1 DEF EndOf
  <2> HIDE DEF d
  <2> QED BY <1>2, <2>1, <2>2
<1> HIDE DEF d
<1> QED BY <1>2, <1>3, <1>4 DEF EndOf

LEMMA EndBehind ==
  ASSUME NEW S, NEW t \in Seq(S), NEW u \in Seq(S)
  PROVE  EndOf(t, u \o t)
<1>1. Len(t) \in Nat /\ Len(u) \in Nat
  OBVIOUS
<1>2. /\ Len(u \o t) = Len(u) + Len(t)
      /\ \A i \in 1..(Len(u) + Len(t)) :
           (u \o t)[i] = IF i <= Len(u) THEN u[i] ELSE t[i - Len(u)]
  BY ConcatProperties
<1>3. ASSUME NEW i \in 1..Len(t) PROVE t[i] = (u \o t)[Len(u) + i]
  <2>1. Len(u) + i \in 1..(Len(u) + Len(t)) /\ ~(Len(u) + i <= Len(u))
        /\ (Len(u) + i) - Len(u) = i
    BY <1>1
  <2> QED BY <1>2, <2>1
<1>4. Len(u \o t) - Len(t) = Len(u) /\ Len(t) <= Len(u \o t)
  BY <1>1, <1>2
<1> QED BY <1>3, <1>4 DEF EndOf

LEMMA EndOfEnd ==
  ASSUME NEW S, NEW s \in Seq(S), NEW t \in Seq(S), NEW u \in Seq(S),
         EndOf(s, t), EndOf(t, u)
  PROVE  EndOf(s, u)
<1>1. Len(s) \in Nat /\ Len(t) \in Nat /\ Len(u) \in Nat
  OBVIOUS
<1>2. Len(s) <= Len(t) /\ Len(t) <= Len(u)
  BY DEF EndOf
<1>3. ASSUME NEW i \in 1..Len(s) PROVE s[i] = u[Len(u) - Len(s) + i]
  <2> DEFINE j == Len(t) - Len(s) + i
  <2>1. j \in 1..Len(t) /\ Len(u) - Len(t) + j = Len(u) - Len(s) + i
    BY <1>1, <1>2
  <2>2. s[i] = t[j]
    BY DEF EndOf
  <2> HIDE DEF j
  <2>3. t[j] = u[Len(u) - Len(t) + j]
    BY <2>1 DEF EndOf
  <2> QED BY <2>1, <2>2, <2>3
<1> QED BY <1>1, <1>2, <1>3 DEF EndOf

LEMMA ShorterEnd ==
  ASSUME NEW S, NEW s \in Seq(S), NEW t \in Seq(S), NEW u \in Seq(S),
         EndOf(s, u), EndOf(t, u), Len(s) <= Len(t)
  PROVE  EndOf(s, t)
<1>1. Len(s) \in Nat /\ Len(t) \in Nat /\ Len(u) \in Nat /\ Len(t) <= Len(u)
  BY DEF EndOf
<1>2. ASSUME NEW i \in 1..Len(s) PROVE s[i] = t[Len(t) - Len(s) + i]
  <2> DEFINE j == Len(t) - Len(s) + i
  <2>1. j \in 1..Len(t) /\ Len(u) - Len(t) + j = Len(u) - Len(s) + i
    BY <1>1
  <2>2. s[i] = u[Len(u) - Len(s) + i]
    BY DEF EndOf
  <2> HIDE DEF j
  <2>3. t[j] = u[Len(u) - Len(t) + j]
    BY <2>1 DEF EndOf
  <2> QED BY <2>1, <2>2, <2>3 DEF j
<1> QED BY <1>2 DEF EndOf

LEMMA DropLastFacts ==
  ASSUME NEW S, NEW s \in Seq(S), NEW n \in Nat
  PROVE  /\ DropLast(s, n) \in Seq(S)
         /\ Len(DropLast(s, n)) = IF Len(s) > n THEN Len(s) - n ELSE 0
         /\ \A i \in 1..Len(DropLast(s, n)) : DropLast(s, n)[i] = s[i]
<1> DEFINE b == IF Len(s) > n THEN Len(s) - n ELSE 0
           t == DropLast(s, n)
<1>1. Len(s) \in Nat /\ b \in Int /\ 1 \in Int /\ b <= Len(s) /\ b \in Nat
  OBVIOUS
<1>2. \A i \in 1..b : s[i] \in S
  BY <1>1
<1>3. t = SubSeq(s, 1, b)
  BY DEF DropLast
<1>4. /\ t \in Seq(S) /\ Len(t) = IF 1 <= b THEN b - 1 + 1 ELSE 0
      /\ \A i \in 1..(b - 1 + 1) : t[i] = s[1 + i - 1]
  <2> HIDE DEF b, t
  <2> QED BY <1>1, <1>2, <1>3, SubSeqProperties
<1>5. Len(t) = b /\ \A i \in 1..b : 1 + i - 1 = i
  <2> HIDE DEF b, t
  <2> QED BY <1>1, <1>4
<1> HIDE DEF t
<1>6. \A i \in 1..Len(t) : t[i] = s[i]
  <2>1. b - 1 + 1 = b
    BY <1>1
  <2> HIDE DEF b
  <2> QED BY <1>4, <1>5, <2>1
<1> QED BY <1>4, <1>5, <1>6 DEF t

\* Taking the last lines away from the end takes them from the whole.
LEMMA EndDropped ==
  ASSUME NEW S, NEW s \in Seq(S), NEW t \in Seq(S), NEW u \in Seq(S), EndOf(s, t \o u)
  PROVE  EndOf(DropLast(s, Len(u)), t)
<1> DEFINE d == DropLast(s, Len(u))
<1>1. Len(s) \in Nat /\ Len(t) \in Nat /\ Len(u) \in Nat
  OBVIOUS
<1>2. /\ Len(t \o u) = Len(t) + Len(u)
      /\ \A i \in 1..(Len(t) + Len(u)) :
           (t \o u)[i] = IF i <= Len(t) THEN t[i] ELSE u[i - Len(t)]
  BY ConcatProperties
<1>3. Len(s) <= Len(t) + Len(u)
  BY <1>2 DEF EndOf
<1>4. /\ Len(d) = IF Len(s) > Len(u) THEN Len(s) - Len(u) ELSE 0
      /\ \A i \in 1..Len(d) : d[i] = s[i]
  BY <1>1, DropLastFacts
<1> HIDE DEF d
<1>5. Len(d) <= Len(t)
  BY <1>1, <1>3, <1>4
<1>6. ASSUME NEW i \in 1..Len(d) PROVE d[i] = t[Len(t) - Len(d) + i]
  <2> DEFINE j == Len(t) - Len(d) + i
  <2>1. Len(d) = Len(s) - Len(u) /\ Len(d) \in Nat
    BY <1>1, <1>4
  <2>2. /\ i \in 1..Len(s) /\ j \in 1..(Len(t) + Len(u)) /\ j <= Len(t)
        /\ Len(t) + Len(u) - Len(s) + i = j
    BY <1>1, <1>3, <1>5, <2>1
  <2>3. s[i] = (t \o u)[Len(t) + Len(u) - Len(s) + i]
    BY <1>2, <2>2 DEF EndOf
  <2> HIDE DEF j
  <2>4. (t \o u)[j] = t[j]
    BY <1>2, <2>2
  <2> QED BY <1>4, <2>2, <2>3, <2>4 DEF j
<1> QED BY <1>5, <1>6 DEF EndOf, d

-----------------------------------------------------------------------------
(* The lines of items.                                                      *)

\* The items of a pane, their lines, and how many lines n words make in width w.
Prefixes == {"morse", "you", "side", "error", "call", "result", "plan", "task"}
Items == [prefix : Prefixes, body : Seq(Nat), streaming : BOOLEAN]
Lines == Seq(Nat)

LineCount(n, w) == IF n = 0 THEN 1 ELSE (n + w - 1) \div w

LEMMA LineCounts ==
  ASSUME NEW w \in Nat \ {0}
  PROVE  /\ \A n \in Nat : LineCount(n, w) \in Nat \ {0}
         /\ \A m, n \in Nat : m <= n => LineCount(m, w) <= LineCount(n, w)
<1>1. \A n \in Nat : LineCount(n, w) \in Nat \ {0}
  BY DEF LineCount
<1>2. ASSUME NEW m \in Nat, NEW n \in Nat, m <= n PROVE LineCount(m, w) <= LineCount(n, w)
  <2>1. CASE m = 0
    <3>1. LineCount(m, w) = 1 /\ LineCount(n, w) \in Nat \ {0}
      BY <1>1, <2>1 DEF LineCount
    <3> QED BY <3>1
  <2>2. CASE m # 0
    <3> DEFINE x == m + w - 1
               y == n + w - 1
    <3>1. x \in Nat /\ y \in Nat /\ x <= y /\ n # 0
      BY <1>2, <2>2
    <3>2. x \div w <= y \div w
      <4> HIDE DEF x, y
      <4> QED BY <3>1
    <3> QED BY <2>2, <3>1, <3>2 DEF LineCount
  <2> QED BY <2>1, <2>2
<1> QED BY <1>1, <1>2

LEMMA WrapType ==
  ASSUME NEW item \in Items, NEW w \in Nat \ {0}
  PROVE  /\ Wrap(item, w) \in Seq(Lines)
         /\ Len(Wrap(item, w)) = LineCount(Len(item.body), w)
         /\ Len(Wrap(item, w)) >= 1
<1> DEFINE words == Len(item.body)
           lines == IF words = 0 THEN 1 ELSE (words + w - 1) \div w
           from(l) == (l - 1) * w + 1
           to(l) == IF l * w < words THEN l * w ELSE words
           line(l) == SubSeq(item.body, from(l), to(l))
<1>1. item.body \in Seq(Nat) /\ words \in Nat
  BY DEF Items
<1>2. lines \in Nat \ {0} /\ lines = LineCount(words, w)
  <2> HIDE DEF words
  <2> QED BY <1>1 DEF LineCount
<1>3. ASSUME NEW l \in 1..lines PROVE line(l) \in Lines
  <2>1. from(l) \in Int /\ to(l) \in Int /\ from(l) >= 1 /\ to(l) <= words
    <3> HIDE DEF words, lines
    <3> QED BY <1>1, <1>2
  <2> DEFINE m == from(l)
             n == to(l)
  <2>2. m \in Int /\ n \in Int /\ m >= 1 /\ n <= words
    BY <2>1
  <2> HIDE DEF from, to, m, n
  <2>3. \A i \in m..n : item.body[i] \in Nat
    <3> TAKE i \in m..n
    <3>1. i \in 1..words
      <4> HIDE DEF words
      <4> QED BY <1>1, <2>2
    <3> QED BY <1>1, <3>1
  <2>4. SubSeq(item.body, m, n) \in Seq(Nat)
    BY <2>2, <2>3, SubSeqProperties
  <2> QED BY <2>4 DEF Lines, m, n
<1>4. Wrap(item, w) = [l \in 1..lines |-> line(l)]
  BY DEF Wrap
<1> HIDE DEF lines, line
<1>5. [l \in 1..lines |-> line(l)] \in Seq(Lines)
  BY <1>2, <1>3, IsASeq
<1>6. Len(Wrap(item, w)) = lines
  BY <1>2, <1>4
<1> QED BY <1>2, <1>4, <1>5, <1>6

\* More words take no fewer lines.
LEMMA WrapGrows ==
  ASSUME NEW a \in Items, NEW b \in Items, NEW w \in Nat \ {0}, Len(a.body) <= Len(b.body)
  PROVE  Len(Wrap(a, w)) <= Len(Wrap(b, w))
<1>1. Len(a.body) \in Nat /\ Len(b.body) \in Nat
  BY DEF Items
<1>2. /\ Len(Wrap(a, w)) = LineCount(Len(a.body), w)
      /\ Len(Wrap(b, w)) = LineCount(Len(b.body), w)
  BY WrapType
<1> DEFINE m == Len(a.body)
           n == Len(b.body)
<1>3. m \in Nat /\ n \in Nat /\ m <= n
  BY <1>1
<1> HIDE DEF m, n
<1>4. LineCount(m, w) <= LineCount(n, w)
  BY <1>3, LineCounts
<1> QED BY <1>2, <1>4 DEF m, n

\* The lines of items, list by list.
Wraps(items, w) == [i \in DOMAIN items |-> Wrap(items[i], w)]

LEMMA WrapsType ==
  ASSUME NEW items \in Seq(Items), NEW w \in Nat \ {0}
  PROVE  /\ Wraps(items, w) \in Seq(Seq(Lines)) /\ Len(Wraps(items, w)) = Len(items)
         /\ \A i \in 1..Len(items) : Wraps(items, w)[i] = Wrap(items[i], w)
<1>1. Len(items) \in Nat /\ DOMAIN items = 1..Len(items)
  OBVIOUS
<1>2. \A i \in 1..Len(items) : Wrap(items[i], w) \in Seq(Lines)
  BY <1>1, WrapType
<1> QED BY <1>1, <1>2 DEF Wraps

LEMMA WrapAllIs == \A items, w : WrapAll(items, w) = Lists!FlattenSeq(Wraps(items, w))
BY DEF WrapAll, Wraps, Seqs!FlattenSeq, Lists!FlattenSeq

LEMMA WrapAllType ==
  ASSUME NEW items \in Seq(Items), NEW w \in Nat \ {0}
  PROVE  WrapAll(items, w) \in Seq(Lines)
BY WrapsType, WrapAllIs, FlattenType

LEMMA WrapAllEmpty ==
  ASSUME NEW w \in Nat \ {0} PROVE WrapAll(<<>>, w) = <<>>
<1>1. Wraps(<<>>, w) = <<>>
  BY DEF Wraps
<1> QED BY <1>1, WrapAllIs, FlattenEmpty

\* An item more at the end.
LEMMA WrapAllAppend ==
  ASSUME NEW items \in Seq(Items), NEW item \in Items, NEW w \in Nat \ {0}
  PROVE  WrapAll(Append(items, item), w) = WrapAll(items, w) \o Wrap(item, w)
<1> DEFINE more == Append(items, item)
<1>1. /\ more \in Seq(Items) /\ Len(items) \in Nat /\ Len(more) = Len(items) + 1
      /\ \A i \in 1..Len(items) : more[i] = items[i]
      /\ more[Len(items) + 1] = item
  BY AppendProperties
<1> HIDE DEF more
<1>2. /\ Wraps(more, w) \in Seq(Seq(Lines)) /\ Len(Wraps(more, w)) = Len(items) + 1
      /\ \A i \in 1..(Len(items) + 1) : Wraps(more, w)[i] = Wrap(more[i], w)
  BY <1>1, WrapsType
<1>3. /\ Wraps(items, w) \in Seq(Seq(Lines)) /\ Len(Wraps(items, w)) = Len(items)
      /\ \A i \in 1..Len(items) : Wraps(items, w)[i] = Wrap(items[i], w)
  BY WrapsType
<1>4. Wrap(item, w) \in Seq(Lines)
  BY WrapType
<1>5. Wraps(more, w) = Append(Wraps(items, w), Wrap(item, w))
  <2> DEFINE s == Wraps(more, w)
             r == Wraps(items, w)
             x == Wrap(item, w)
             t == Append(r, x)
  <2>1. /\ t \in Seq(Seq(Lines)) /\ Len(t) = Len(items) + 1
        /\ \A i \in 1..Len(items) : t[i] = r[i]
        /\ t[Len(items) + 1] = x
    <3> HIDE DEF r, x
    <3>1. r \in Seq(Seq(Lines)) /\ x \in Seq(Lines) /\ Len(r) = Len(items)
      BY <1>3, <1>4 DEF r, x
    <3> QED BY <3>1, AppendProperties
  <2>2. \A i \in 1..Len(items) : s[i] = t[i]
    <3> TAKE i \in 1..Len(items)
    <3>1. i \in 1..(Len(items) + 1)
      BY <1>1
    <3> HIDE DEF t
    <3> QED BY <1>1, <1>2, <1>3, <2>1, <3>1
  <2>3. s[Len(items) + 1] = t[Len(items) + 1]
    <3>1. Len(items) + 1 \in 1..(Len(items) + 1)
      BY <1>1
    <3> HIDE DEF t
    <3> QED BY <1>1, <1>2, <2>1, <3>1
  <2> HIDE DEF t
  <2>4. \A i \in 1..(Len(items) + 1) : s[i] = t[i]
    <3> TAKE i \in 1..(Len(items) + 1)
    <3>1. i \in 1..Len(items) \/ i = Len(items) + 1
      BY <1>1
    <3> HIDE DEF s
    <3> QED BY <2>2, <2>3, <3>1
  <2> HIDE DEF s
  <2>5. s = t
    <3>1. s \in Seq(Seq(Lines)) /\ Len(s) = Len(t)
      BY <1>2, <2>1 DEF s
    <3>2. \A i \in 1..Len(s) : s[i] = t[i]
      BY <2>1, <2>4, <3>1
    <3> QED BY <2>1, <3>1, <3>2, SeqEqual
  <2> QED BY <2>5 DEF s, t
<1> QED BY <1>3, <1>4, <1>5, WrapAllIs, FlattenAppend DEF more

\* An item less in front: the lines of the others are the end of the lines.
LEMMA WrapAllBehind ==
  ASSUME NEW items \in Seq(Items), NEW fewer \in Seq(Items), NEW w \in Nat \ {0},
         Len(items) = Len(fewer) + 1, \A i \in 1..Len(fewer) : fewer[i] = items[i + 1]
  PROVE  EndOf(WrapAll(fewer, w), WrapAll(items, w))
<1> DEFINE s == Wraps(items, w)
           t == Wraps(fewer, w)
           n == Len(fewer)
<1>0. n \in Nat
  OBVIOUS
<1>1. s \in Seq(Seq(Lines)) /\ Len(s) = n + 1 /\ \A i \in 1..(n + 1) : s[i] = Wrap(items[i], w)
  BY WrapsType
<1>2. t \in Seq(Seq(Lines)) /\ Len(t) = n /\ \A i \in 1..n : t[i] = Wrap(fewer[i], w)
  BY WrapsType
<1>3. \A i \in 1..n : s[i + 1] = t[i]
  <2> TAKE i \in 1..n
  <2>1. i + 1 \in 1..(n + 1)
    BY <1>0
  <2> HIDE DEF s, t
  <2> QED BY <1>1, <1>2, <2>1
<1> HIDE DEF s, t
<1>4. Lists!FlattenSeq(s) = s[1] \o Lists!FlattenSeq(t)
  <2>1. Len(s) = Len(t) + 1 /\ \A i \in 1..Len(t) : s[i + 1] = t[i]
    BY <1>1, <1>2, <1>3
  <2> QED BY <1>1, <1>2, <2>1, FlattenBehind
<1>5. s[1] \in Seq(Lines) /\ Lists!FlattenSeq(t) \in Seq(Lines)
  <2>1. 1 \in 1..(n + 1)
    BY <1>0
  <2>2. s[1] \in Seq(Lines)
    BY <1>1, <2>1
  <2> QED BY <1>2, <2>2, FlattenType
<1>6. EndOf(Lists!FlattenSeq(t), s[1] \o Lists!FlattenSeq(t))
  BY <1>5, EndBehind
<1>7. WrapAll(items, w) = Lists!FlattenSeq(s) /\ WrapAll(fewer, w) = Lists!FlattenSeq(t)
  BY WrapAllIs DEF s, t
<1> QED BY <1>4, <1>6, <1>7

\* No item is without a line.
LEMMA WrapAllLength ==
  ASSUME NEW w \in Nat \ {0}
  PROVE  \A items \in Seq(Items) : Len(WrapAll(items, w)) >= Len(items)
<1> DEFINE Bad == {n \in Nat : \E items \in Seq(Items) :
                     Len(items) = n /\ ~(Len(WrapAll(items, w)) >= Len(items))}
<1>1. Bad = {}
  <2> SUFFICES ASSUME Bad # {} PROVE FALSE
    OBVIOUS
  <2>1. PICK n \in Bad : \A k \in Bad : n <= k
    <3>1. Bad \in SUBSET Nat
      OBVIOUS
    <3> HIDE DEF Bad
    <3> QED BY <3>1, Smallest
  <2>2. PICK items \in Seq(Items) : Len(items) = n /\ ~(Len(WrapAll(items, w)) >= n)
    OBVIOUS
  <2>3. n \in Nat
    OBVIOUS
  <2>4. n # 0
    <3> SUFFICES ASSUME n = 0 PROVE FALSE
      OBVIOUS
    <3>1. items = <<>>
      BY <2>2
    <3>2. Len(WrapAll(items, w)) = 0
      BY <3>1, WrapAllEmpty
    <3> HIDE DEF Bad
    <3> QED BY <2>2, <3>2
  <2>5. PICK front \in Seq(Items), item \in Items : items = Append(front, item)
    <3>1. items # <<>>
      <4> HIDE DEF Bad
      <4> QED BY <2>2, <2>4
    <3> HIDE DEF Bad
    <3> QED BY <3>1, SequenceEmptyOrAppend
  <2>6. Len(front) \in Nat /\ n = Len(front) + 1
    <3> HIDE DEF Bad
    <3> QED BY <2>2, <2>5, AppendProperties
  <2>7. Len(front) \notin Bad
    <3>1. ~(n <= Len(front))
      BY <2>3, <2>6
    <3> HIDE DEF Bad
    <3> QED BY <2>1, <3>1
  <2>8. Len(WrapAll(front, w)) >= Len(front)
    BY <2>6, <2>7
  <2> HIDE DEF Bad
  <2>9. Len(WrapAll(items, w)) = Len(WrapAll(front, w)) + Len(Wrap(item, w))
    <3>1. WrapAll(front, w) \in Seq(Lines) /\ Wrap(item, w) \in Seq(Lines)
      BY WrapAllType, WrapType
    <3> QED BY <2>5, <3>1, WrapAllAppend, ConcatProperties
  <2>10. Len(Wrap(item, w)) >= 1 /\ Len(Wrap(item, w)) \in Nat /\ Len(WrapAll(front, w)) \in Nat
    BY WrapAllType, WrapType
  <2>11. Len(WrapAll(items, w)) >= n
    BY <2>6, <2>8, <2>9, <2>10
  <2> QED BY <2>2, <2>11
<1>2. ASSUME NEW items \in Seq(Items) PROVE Len(WrapAll(items, w)) >= Len(items)
  <2>1. Len(items) \in Nat /\ Len(items) \notin Bad
    BY <1>1
  <2> QED BY <2>1
<1> QED BY <1>2

-----------------------------------------------------------------------------
(* What a pane shows.                                                       *)

\* wrapped is the end of what the items are in width w, as much as the cap asks
\* for at least, and the last item has n of its lines.
Shows(items, wrapped, w, n) ==
  LET all == WrapAll(items, w)
  IN  /\ EndOf(wrapped, all)
      /\ Len(wrapped) >= IF Len(all) < MaxLines THEN Len(all) ELSE MaxLines
      /\ items # <<>> => n = Len(Wrap(items[Len(items)], w))

LEMMA EndSelf ==
  ASSUME NEW S, NEW s \in Seq(S) PROVE EndOf(s, s)
<1>1. Len(s) \in Nat /\ \A i \in 1..Len(s) : Len(s) - Len(s) + i = i
  OBVIOUS
<1> QED BY <1>1 DEF EndOf

LEMMA MoreItems ==
  ASSUME NEW items \in Seq(Items), Len(items) <= MaxLines, NEW item \in Items
  PROVE  LET more == Append(items, item)
             kept == LastN(more, MaxLines)
         IN  /\ more \in Seq(Items) /\ kept \in Seq(Items) /\ kept # <<>>
             /\ Len(kept) <= MaxLines /\ Len(kept) >= 1 /\ kept[Len(kept)] = item
             /\ \/ kept = more
                \/ /\ Len(more) = Len(kept) + 1 /\ Len(kept) = MaxLines
                   /\ \A i \in 1..Len(kept) : kept[i] = more[i + 1]
<1> DEFINE more == Append(items, item)
           kept == LastN(more, MaxLines)
<1>0. MaxLines \in Nat /\ MaxLines >= 1
  OBVIOUS
<1>1. /\ more \in Seq(Items) /\ Len(items) \in Nat /\ Len(more) = Len(items) + 1
      /\ more[Len(items) + 1] = item
  BY AppendProperties
<1> HIDE DEF more
<1>2. /\ kept \in Seq(Items) /\ EndOf(kept, more)
      /\ Len(kept) = IF Len(more) > MaxLines THEN MaxLines ELSE Len(more)
  BY <1>0, <1>1, LastIsEnd
<1>3. Len(kept) \in Nat /\ Len(kept) >= 1 /\ Len(kept) <= MaxLines
  BY <1>0, <1>1, <1>2
<1>4. ASSUME Len(more) > MaxLines
      PROVE  /\ Len(more) = Len(kept) + 1 /\ Len(kept) = MaxLines
             /\ \A i \in 1..Len(kept) : kept[i] = more[i + 1]
  <2>1. Len(items) = MaxLines /\ Len(kept) = MaxLines /\ Len(more) = Len(kept) + 1
    BY <1>0, <1>1, <1>2, <1>4
  <2>2. \A i \in 1..Len(kept) : kept[i] = more[i + 1]
    <3> TAKE i \in 1..Len(kept)
    <3>1. Len(more) - Len(kept) + i = i + 1
      BY <1>0, <2>1
    <3> HIDE DEF kept
    <3> QED BY <1>2, <3>1 DEF EndOf
  <2> QED BY <2>1, <2>2
<1>5. ASSUME ~(Len(more) > MaxLines) PROVE kept = more
  BY <1>5 DEF LastN
<1>6. kept[Len(kept)] = item
  <2>1. Len(kept) \in 1..Len(kept) /\ Len(more) - Len(kept) + Len(kept) = Len(items) + 1
    BY <1>1, <1>3
  <2> HIDE DEF kept
  <2> QED BY <1>1, <1>2, <2>1 DEF EndOf
<1>7. kept # <<>>
  BY <1>3
<1> QED BY <1>1, <1>2, <1>3, <1>4, <1>5, <1>6, <1>7 DEF more

LEMMA PushShows ==
  ASSUME NEW items \in Seq(Items), Len(items) <= MaxLines, NEW wrapped \in Seq(Lines),
         NEW w \in Nat \ {0}, NEW n \in Nat, Shows(items, wrapped, w, n), NEW item \in Items
  PROVE  Shows(LastN(Append(items, item), MaxLines),
               LastN(wrapped \o Wrap(item, w), MaxLines), w, Len(Wrap(item, w)))
<1> DEFINE more == Append(items, item)
           kept == LastN(more, MaxLines)
           W == Wrap(item, w)
           all == WrapAll(items, w)
           both == all \o W
           now == wrapped \o W
           r == LastN(now, MaxLines)
           rest == WrapAll(kept, w)
<1>0. MaxLines \in Nat /\ MaxLines >= 1
  OBVIOUS
<1>1. /\ more \in Seq(Items) /\ kept \in Seq(Items) /\ kept # <<>>
      /\ Len(kept) <= MaxLines /\ kept[Len(kept)] = item
      /\ \/ kept = more
         \/ /\ Len(more) = Len(kept) + 1 /\ Len(kept) = MaxLines
            /\ \A i \in 1..Len(kept) : kept[i] = more[i + 1]
  BY MoreItems
<1>2. W \in Seq(Lines) /\ all \in Seq(Lines) /\ Len(W) \in Nat /\ Len(all) \in Nat
      /\ Len(wrapped) \in Nat
  BY WrapType, WrapAllType
<1>3. EndOf(wrapped, all) /\ Len(wrapped) >= IF Len(all) < MaxLines THEN Len(all) ELSE MaxLines
  BY DEF Shows
<1>4. WrapAll(more, w) = both
  BY WrapAllAppend
<1> HIDE DEF W, all
<1>5. /\ both \in Seq(Lines) /\ Len(both) = Len(all) + Len(W)
      /\ now \in Seq(Lines) /\ Len(now) = Len(wrapped) + Len(W)
  BY <1>2, ConcatProperties
<1>6. EndOf(now, both)
  BY <1>2, <1>3, EndConcat
<1> HIDE DEF both, now
<1>7. /\ r \in Seq(Lines) /\ EndOf(r, now)
      /\ Len(r) = IF Len(now) > MaxLines THEN MaxLines ELSE Len(now)
  BY <1>0, <1>5, LastIsEnd
<1> HIDE DEF r
<1>8. EndOf(r, both)
  BY <1>5, <1>6, <1>7, EndOfEnd
<1>9. rest \in Seq(Lines) /\ EndOf(rest, both) /\ (rest = both \/ Len(rest) >= MaxLines)
  <2> HIDE DEF kept, more
  <2>1. rest \in Seq(Lines)
    BY <1>1, WrapAllType
  <2>2. CASE kept = more
    <3>1. rest = both
      BY <1>4, <2>2
    <3>2. EndOf(both, both)
      BY <1>5, EndSelf
    <3> QED BY <2>1, <3>1, <3>2
  <2>3. CASE /\ Len(more) = Len(kept) + 1 /\ Len(kept) = MaxLines
             /\ \A i \in 1..Len(kept) : kept[i] = more[i + 1]
    <3>1. EndOf(rest, WrapAll(more, w))
      BY <1>1, <2>3, WrapAllBehind
    <3>2. Len(rest) >= Len(kept)
      BY <1>1, WrapAllLength
    <3> QED BY <1>4, <2>1, <2>3, <3>1, <3>2
  <2> QED BY <1>1, <2>2, <2>3
<1> HIDE DEF rest
<1>10. Len(rest) \in Nat /\ Len(rest) <= Len(both)
  BY <1>9 DEF EndOf
<1>11. Len(r) <= Len(rest)
  <2>1. Len(now) <= Len(both)
    BY <1>6 DEF EndOf
  <2>2. Len(now) \in Nat /\ Len(both) \in Nat
    BY <1>5
  <2> QED BY <1>0, <1>7, <1>9, <1>10, <2>1, <2>2
<1>12. EndOf(r, rest)
  BY <1>5, <1>7, <1>8, <1>9, <1>11, ShorterEnd
<1>13. Len(r) >= IF Len(rest) < MaxLines THEN Len(rest) ELSE MaxLines
  BY <1>0, <1>2, <1>3, <1>5, <1>7, <1>10
<1>14. kept # <<>> => Len(W) = Len(Wrap(kept[Len(kept)], w))
  BY <1>1 DEF W
<1> QED BY <1>12, <1>13, <1>14 DEF Shows, r, rest, now, W

\* The last item replaced by one with more words.
LEMMA JoinShows ==
  ASSUME NEW items \in Seq(Items), items # <<>>, NEW wrapped \in Seq(Lines),
         NEW w \in Nat \ {0}, NEW n \in Nat, Shows(items, wrapped, w, n),
         NEW new \in Items, Len(items[Len(items)].body) <= Len(new.body)
  PROVE  Shows([items EXCEPT ![Len(items)] = new],
               LastN(DropLast(wrapped, n) \o Wrap(new, w), MaxLines), w, Len(Wrap(new, w)))
<1> DEFINE W == Wrap(new, w)
           d == DropLast(wrapped, n)
           now == d \o W
           r == LastN(now, MaxLines)
           joined == [items EXCEPT ![Len(items)] = new]
<1>0. MaxLines \in Nat /\ MaxLines >= 1
  OBVIOUS
<1>1. PICK front \in Seq(Items), last \in Items : items = Append(front, last)
  BY SequenceEmptyOrAppend
<1>2. /\ Len(front) \in Nat /\ Len(items) = Len(front) + 1 /\ items[Len(items)] = last
      /\ \A i \in 1..Len(front) : items[i] = front[i]
  BY <1>1, AppendProperties
<1>3. joined = Append(front, new)
  <2> DEFINE t == Append(front, new)
  <2>1. /\ t \in Seq(Items) /\ Len(t) = Len(items) /\ t[Len(items)] = new
        /\ \A i \in 1..Len(front) : t[i] = front[i]
    BY <1>2, AppendProperties
  <2>2. /\ joined \in Seq(Items) /\ Len(joined) = Len(items)
        /\ \A i \in 1..Len(items) : joined[i] = IF i = Len(items) THEN new ELSE items[i]
    <3>1. Len(items) \in 1..Len(items)
      BY <1>2
    <3> QED BY <3>1, ExceptSeq
  <2> HIDE DEF t, joined
  <2>3. \A i \in 1..Len(joined) : joined[i] = t[i]
    <3> TAKE i \in 1..Len(joined)
    <3>1. i = Len(items) \/ i \in 1..Len(front)
      BY <1>2, <2>2
    <3>2. i \in 1..Len(front) => i # Len(items) /\ i \in 1..Len(items)
      BY <1>2
    <3> QED BY <1>2, <2>1, <2>2, <3>1, <3>2
  <2> QED BY <2>1, <2>2, <2>3, SeqEqual DEF t
<1> DEFINE F == WrapAll(front, w)
           L == Wrap(last, w)
<1>4. /\ F \in Seq(Lines) /\ L \in Seq(Lines) /\ W \in Seq(Lines)
      /\ Len(F) \in Nat /\ Len(L) \in Nat /\ Len(W) \in Nat /\ Len(wrapped) \in Nat
  <2>1. F \in Seq(Lines)
    BY WrapAllType
  <2>2. L \in Seq(Lines) /\ W \in Seq(Lines)
    BY WrapType
  <2> HIDE DEF F, L, W
  <2> QED BY <2>1, <2>2
<1>5. WrapAll(items, w) = F \o L /\ WrapAll(joined, w) = F \o W
  <2> HIDE DEF joined
  <2> QED BY <1>1, <1>3, WrapAllAppend
<1>6. Len(L) <= Len(W) /\ n = Len(L)
  <2>1. n = Len(L)
    BY <1>2 DEF Shows
  <2>2. Len(last.body) <= Len(new.body)
    BY <1>2
  <2> QED BY <2>1, <2>2, WrapGrows
<1>7. EndOf(wrapped, F \o L)
      /\ Len(wrapped) >= IF Len(F \o L) < MaxLines THEN Len(F \o L) ELSE MaxLines
  BY <1>5 DEF Shows
<1> HIDE DEF F, L, W, joined
<1>8. /\ F \o L \in Seq(Lines) /\ Len(F \o L) = Len(F) + Len(L)
      /\ F \o W \in Seq(Lines) /\ Len(F \o W) = Len(F) + Len(W)
  BY <1>4, ConcatProperties
<1>9. /\ d \in Seq(Lines) /\ Len(d) = IF Len(wrapped) > n THEN Len(wrapped) - n ELSE 0
  BY DropLastFacts
<1>10. EndOf(d, F)
  BY <1>4, <1>6, <1>7, EndDropped
<1> HIDE DEF d
<1>11. now \in Seq(Lines) /\ Len(now) = Len(d) + Len(W) /\ Len(d) \in Nat
  <2>1. d \in Seq(Lines) /\ W \in Seq(Lines)
    BY <1>4, <1>9
  <2> QED BY <2>1, ConcatProperties
<1>12. EndOf(now, F \o W)
  BY <1>4, <1>9, <1>10, EndConcat
<1> HIDE DEF now
<1>13. /\ r \in Seq(Lines) /\ EndOf(r, now)
       /\ Len(r) = IF Len(now) > MaxLines THEN MaxLines ELSE Len(now)
  BY <1>0, <1>11, LastIsEnd
<1> HIDE DEF r
<1>14. EndOf(r, F \o W)
  BY <1>8, <1>11, <1>12, <1>13, EndOfEnd
<1>15. Len(r) >= IF Len(F \o W) < MaxLines THEN Len(F \o W) ELSE MaxLines
  <2>1. Len(wrapped) >= IF Len(F) + Len(L) < MaxLines THEN Len(F) + Len(L) ELSE MaxLines
    BY <1>7, <1>8
  <2>2. Len(wrapped) <= Len(F) + Len(L)
    BY <1>7, <1>8 DEF EndOf
  <2>3. Len(r) >= IF Len(F) + Len(W) < MaxLines THEN Len(F) + Len(W) ELSE MaxLines
    <3> DEFINE f == Len(F)
               l == Len(L)
               k == Len(W)
               x == Len(wrapped)
               y == Len(d)
    <3>1. /\ f \in Nat /\ l \in Nat /\ k \in Nat /\ x \in Nat /\ l <= k
          /\ x >= IF f + l < MaxLines THEN f + l ELSE MaxLines
          /\ x <= f + l /\ y = IF x > l THEN x - l ELSE 0
      BY <1>4, <1>6, <1>9, <2>1, <2>2
    <3>2. Len(r) = IF y + k > MaxLines THEN MaxLines ELSE y + k
      BY <1>11, <1>13
    <3> HIDE DEF f, l, k, x, y
    <3>3. Len(r) >= IF f + k < MaxLines THEN f + k ELSE MaxLines
      BY <1>0, <3>1, <3>2
    <3> QED BY <3>3 DEF f, k
  <2> QED BY <1>8, <2>3
<1>16. joined # <<>> => Len(W) = Len(Wrap(joined[Len(joined)], w))
  <2>1. Len(joined) = Len(front) + 1 /\ joined[Len(front) + 1] = new
    BY <1>3, AppendProperties
  <2> QED BY <2>1 DEF W
<1> QED BY <1>5, <1>14, <1>15, <1>16 DEF Shows, r, now, d, W, joined

Panes == [items : Seq(Items), wrapped : Seq(Lines), wrap_width : Nat, last_len : Nat]

\* A pane within its cap shows its items, once it has a width.
Fits(pane) ==
  /\ pane \in Panes /\ Len(pane.items) <= MaxLines
  /\ pane.wrap_width > 0 =>
       Shows(pane.items, pane.wrapped, pane.wrap_width, pane.last_len)

LEMMA EmptyFits == Fits(EmptyPane)
<1>1. EmptyPane \in Panes
  BY DEF EmptyPane, Panes
<1>2. Len(EmptyPane.items) <= MaxLines /\ ~(EmptyPane.wrap_width > 0)
  BY DEF EmptyPane
<1> QED BY <1>1, <1>2 DEF Fits

LEMMA RelinedIs ==
  ASSUME NEW pane \in Panes, NEW kept \in Seq(Lines), NEW lines \in Seq(Lines)
  PROVE  LET q == Relined(pane, kept, lines)
             w == pane.wrap_width
         IN  /\ q \in Panes /\ q.items = pane.items /\ q.wrap_width = w
             /\ w > 0 => q.wrapped = LastN(kept \o lines, MaxLines) /\ q.last_len = Len(lines)
<1> DEFINE q == Relined(pane, kept, lines)
           w == pane.wrap_width
           now == LastN(kept \o lines, MaxLines)
<1>1. pane.items \in Seq(Items) /\ w \in Nat /\ pane.wrapped \in Seq(Lines)
      /\ pane.last_len \in Nat
  BY DEF Panes
<1>2. CASE w = 0
  BY <1>1, <1>2 DEF Relined
<1>3. CASE w # 0
  <2>1. now \in Seq(Lines) /\ Len(lines) \in Nat
    <3> DEFINE both == kept \o lines
    <3>1. both \in Seq(Lines) /\ MaxLines \in Nat
      BY ConcatProperties
    <3>2. LastN(both, MaxLines) \in Seq(Lines)
      <4> HIDE DEF both
      <4> QED BY <3>1, LastIsEnd
    <3> QED BY <3>2
  <2>2. q = [pane EXCEPT !.wrapped = now, !.last_len = Len(lines)]
    BY <1>3 DEF Relined
  <2> HIDE DEF now
  <2>3. /\ q.items = pane.items /\ q.wrap_width = w
        /\ q.wrapped = now /\ q.last_len = Len(lines)
    BY <2>2 DEF Panes
  <2>4. q \in Panes
    BY <1>1, <2>1, <2>2 DEF Panes
  <2> QED BY <2>3, <2>4 DEF now
<1> QED BY <1>2, <1>3

\* An item more, and another width.
LEMMA PushFits ==
  ASSUME NEW pane, Fits(pane), NEW item \in Items
  PROVE  /\ Fits(PanePush(pane, item))
         /\ PanePush(pane, item).items = LastN(Append(pane.items, item), MaxLines)
<1> DEFINE w == pane.wrap_width
           q == Relined(pane, pane.wrapped, Wrap(item, w))
           kept == LastN(Append(pane.items, item), MaxLines)
           r == PanePush(pane, item)
<1>1. /\ pane \in Panes /\ pane.items \in Seq(Items) /\ w \in Nat
      /\ pane.wrapped \in Seq(Lines) /\ pane.last_len \in Nat /\ Len(pane.items) <= MaxLines
  BY DEF Fits, Panes
<1>2. /\ q \in Panes /\ q.items = pane.items /\ q.wrap_width = w
      /\ w > 0 => /\ q.wrapped = LastN(pane.wrapped \o Wrap(item, w), MaxLines)
                  /\ q.last_len = Len(Wrap(item, w))
  <2>1. CASE w = 0
    BY <1>1, <2>1 DEF Relined
  <2>2. CASE w # 0
    <3>1. w \in Nat \ {0}
      BY <1>1, <2>2
    <3>2. Wrap(item, w) \in Seq(Lines)
      <4> HIDE DEF w
      <4> QED BY <3>1, WrapType
    <3> QED BY <1>1, <3>2, RelinedIs
  <2> QED BY <2>1, <2>2
<1>3. kept \in Seq(Items) /\ Len(kept) <= MaxLines
  BY <1>1, MoreItems
<1>4. r = [q EXCEPT !.items = kept]
  <2>1. r = [q EXCEPT !.items = LastN(Append(@, item), MaxLines)]
    BY DEF PanePush
  <2> HIDE DEF q, r
  <2> QED BY <1>2, <2>1 DEF Panes
<1> HIDE DEF q, kept, r
<1>5. /\ r.items = kept /\ r.wrap_width = w /\ r \in Panes
      /\ r.wrapped = q.wrapped /\ r.last_len = q.last_len
  BY <1>2, <1>3, <1>4 DEF Panes
<1>6. w > 0 => Shows(kept, r.wrapped, w, r.last_len)
  <2> SUFFICES ASSUME w > 0 PROVE Shows(kept, r.wrapped, w, r.last_len)
    OBVIOUS
  <2>1. w \in Nat \ {0} /\ Shows(pane.items, pane.wrapped, w, pane.last_len)
    BY <1>1 DEF Fits
  <2>2. Shows(kept, LastN(pane.wrapped \o Wrap(item, w), MaxLines), w, Len(Wrap(item, w)))
    <3> HIDE DEF w
    <3> QED BY <1>1, <2>1, PushShows DEF kept
  <2> QED BY <1>2, <1>5, <2>2
<1> QED BY <1>3, <1>5, <1>6 DEF Fits, r, kept

LEMMA WidthFits ==
  ASSUME NEW pane, Fits(pane), NEW w \in Nat \ {0}
  PROVE  Fits(SetWidth(pane, w)) /\ SetWidth(pane, w).items = pane.items
<1> DEFINE all == WrapAll(pane.items, w)
           n == IF pane.items = <<>> THEN 0 ELSE Len(Wrap(pane.items[Len(pane.items)], w))
           q == SetWidth(pane, w)
<1>1. /\ pane \in Panes /\ pane.items \in Seq(Items) /\ pane.wrap_width \in Nat
      /\ pane.wrapped \in Seq(Lines) /\ pane.last_len \in Nat /\ Len(pane.items) <= MaxLines
  BY DEF Fits, Panes
<1>2. CASE pane.wrap_width = w
  BY <1>2 DEF SetWidth
<1>3. CASE pane.wrap_width # w
  <2>1. all \in Seq(Lines) /\ Len(all) \in Nat
    BY <1>1, WrapAllType
  <2>2. n \in Nat
    <3>1. pane.items # <<>> => pane.items[Len(pane.items)] \in Items
      BY <1>1
    <3> QED BY <3>1, WrapType
  <2>3. q = [pane EXCEPT !.wrap_width = w, !.wrapped = all, !.last_len = n]
    BY <1>3 DEF SetWidth
  <2> HIDE DEF all, n, q
  <2>4. /\ q.items = pane.items /\ q.wrap_width = w /\ q.wrapped = all /\ q.last_len = n
        /\ q \in Panes
    BY <1>1, <2>1, <2>2, <2>3 DEF Panes
  <2>5. Shows(pane.items, all, w, n)
    <3>1. EndOf(all, all)
      BY <2>1, EndSelf
    <3>2. MaxLines \in Nat
      OBVIOUS
    <3> QED BY <2>1, <3>1, <3>2 DEF Shows, all, n
  <2> QED BY <1>1, <2>4, <2>5 DEF Fits, q
<1> QED BY <1>2, <1>3

\* A fragment of a text: the item that it makes or goes on with.
Joins(pane, prefix) ==
  LET n == Len(pane.items)
  IN  n > 0 /\ pane.items[n].streaming /\ pane.items[n].prefix = prefix

LEMMA AppendFits ==
  ASSUME NEW pane, Fits(pane), NEW prefix \in Prefixes, NEW body \in Seq(Nat)
  PROVE  LET q    == PaneAppend(pane, prefix, body)
             n    == Len(pane.items)
             new  == [Item(prefix, body) EXCEPT !.streaming = TRUE]
             more == [pane.items[n] EXCEPT !.body = @ \o body]
         IN  /\ Fits(q)
             /\ q.items = IF Joins(pane, prefix) THEN [pane.items EXCEPT ![n] = more]
                          ELSE LastN(Append(pane.items, new), MaxLines)
<1> DEFINE w == pane.wrap_width
           n == Len(pane.items)
           last == pane.items[n]
           new == [Item(prefix, body) EXCEPT !.streaming = TRUE]
           more == [last EXCEPT !.body = @ \o body]
           q == PaneAppend(pane, prefix, body)
<1>1. /\ pane \in Panes /\ pane.items \in Seq(Items) /\ w \in Nat /\ n \in Nat
      /\ pane.wrapped \in Seq(Lines) /\ pane.last_len \in Nat /\ n <= MaxLines
  BY DEF Fits, Panes
<1>2. new \in Items
  BY DEF Items, Item
<1>3. CASE ~Joins(pane, prefix)
  <2>1. q = PanePush(pane, new)
    BY <1>3 DEF PaneAppend, Joins
  <2> HIDE DEF new, q
  <2> QED BY <1>2, <1>3, <2>1, PushFits DEF new, q
<1>4. CASE Joins(pane, prefix)
  <2>1. n > 0 /\ last \in Items /\ n \in 1..n
    BY <1>1, <1>4 DEF Joins
  <2>2. more \in Items /\ Len(last.body) <= Len(more.body)
    <3>1. last.body \in Seq(Nat) /\ last.prefix \in Prefixes /\ last.streaming \in BOOLEAN
      BY <2>1 DEF Items
    <3>2. last.body \o body \in Seq(Nat) /\ Len(last.body \o body) = Len(last.body) + Len(body)
      BY <3>1, ConcatProperties
    <3>3. more.body = last.body \o body /\ more \in Items
      BY <2>1, <3>1, <3>2 DEF Items
    <3>4. Len(last.body) \in Nat /\ Len(body) \in Nat
      BY <3>1
    <3> QED BY <3>2, <3>3, <3>4
  <2> DEFINE d == DropLast(pane.wrapped, pane.last_len)
             r == Relined(pane, d, Wrap(more, w))
             joined == [pane.items EXCEPT ![n] = more]
  <2>3. q = [r EXCEPT !.items[n] = more]
    BY <1>4 DEF PaneAppend, Joins
  <2>4. d \in Seq(Lines)
    BY <1>1, DropLastFacts
  <2> HIDE DEF d, more
  <2>5. /\ r \in Panes /\ r.items = pane.items /\ r.wrap_width = w
        /\ w > 0 => /\ r.wrapped = LastN(d \o Wrap(more, w), MaxLines)
                    /\ r.last_len = Len(Wrap(more, w))
    <3>1. CASE w = 0
      BY <1>1, <3>1 DEF Relined
    <3>2. CASE w # 0
      <4>1. w \in Nat \ {0}
        BY <1>1, <3>2
      <4>2. Wrap(more, w) \in Seq(Lines)
        <5> HIDE DEF w
        <5> QED BY <2>2, <4>1, WrapType
      <4> QED BY <1>1, <2>4, <4>2, RelinedIs
    <3> QED BY <3>1, <3>2
  <2>6. joined \in Seq(Items) /\ Len(joined) = n
    <3>1. n \in 1..Len(pane.items)
      BY <2>1
    <3> QED BY <1>1, <2>2, <3>1, ExceptSeq
  <2>7. q = [r EXCEPT !.items = joined]
    <3> HIDE DEF q, r
    <3>1. [r EXCEPT !.items[n] = more] = [r EXCEPT !.items = [r.items EXCEPT ![n] = more]]
      BY Zenon
    <3> QED BY <2>3, <2>5, <3>1
  <2> HIDE DEF r, joined, q
  <2>8. /\ q.items = joined /\ q.wrap_width = w /\ q \in Panes
        /\ q.wrapped = r.wrapped /\ q.last_len = r.last_len
    BY <2>5, <2>6, <2>7 DEF Panes
  <2>9. w > 0 => Shows(joined, q.wrapped, w, q.last_len)
    <3> SUFFICES ASSUME w > 0 PROVE Shows(joined, q.wrapped, w, q.last_len)
      OBVIOUS
    <3>1. w \in Nat \ {0} /\ Shows(pane.items, pane.wrapped, w, pane.last_len)
      BY <1>1 DEF Fits
    <3>2. pane.items # <<>>
      BY <1>1, <2>1
    <3>3. Shows(joined, LastN(d \o Wrap(more, w), MaxLines), w, Len(Wrap(more, w)))
      <4> HIDE DEF w
      <4> QED BY <1>1, <2>2, <3>1, <3>2, JoinShows DEF d, joined
    <3> QED BY <2>5, <2>8, <3>3
  <2> QED BY <1>1, <1>4, <2>6, <2>8, <2>9 DEF Fits, q, joined, more
<1> QED BY <1>3, <1>4

-----------------------------------------------------------------------------
(* Text in fragments: es are the events, of which p are shown.              *)

\* A stretch of events that push nothing to the main pane.
Between(es, a, b) == \A n \in a..b : es[n].kind \in Unseen

\* An item is of events that were shown, and a streamed one of fragments that
\* follow each other.
WholeText(es, p, item) ==
  /\ item.body # <<>>
  /\ \A j \in 1..Len(item.body) : item.body[j] \in 1..p
  /\ item.streaming =>
       /\ item.prefix = "morse"
       /\ \A j \in 1..Len(item.body) : es[item.body[j]].kind = "delta"
       /\ \A j \in 1..(Len(item.body) - 1) :
            /\ item.body[j] < item.body[j + 1]
            /\ Between(es, item.body[j], item.body[j + 1])

\* Nothing was shown behind the last of them.
OpenText(es, p, item) ==
  item.streaming => Between(es, item.body[Len(item.body)], p)

\* The events of an item come before those of another.
Precedes(x, y) ==
  \A a \in 1..Len(x.body), b \in 1..Len(y.body) :
    /\ x.body[a] <= y.body[b]
    /\ x.streaming \/ y.streaming => x.body[a] < y.body[b]

Ordered(items) == \A i, k \in 1..Len(items) : i < k => Precedes(items[i], items[k])
Apart(items) == \A i \in 1..(Len(items) - 1) : ~(items[i].streaming /\ items[i + 1].streaming)

\* A fragment stands in a streamed item; those do that are not in front of
\* the first item of a full pane.
Stands(items, n) ==
  \E i \in 1..Len(items) :
    items[i].streaming /\ \E j \in 1..Len(items[i].body) : items[i].body[j] = n

NoneLost(es, p, items) ==
  \A n \in 1..p :
    es[n].kind = "delta" /\ (Len(items) = MaxLines => n >= items[1].body[1])
    => Stands(items, n)

\* The items of the main pane, when p events have been pumped.
Texts(es, p, items) ==
  /\ \A i \in 1..Len(items) : WholeText(es, p, items[i])
  /\ items # <<>> => OpenText(es, p, items[Len(items)])
  /\ Ordered(items) /\ Apart(items)
  /\ NoneLost(es, p, items)

LEMMA LaterText ==
  ASSUME NEW p \in Nat, NEW q \in Nat, p <= q, NEW es, NEW fs, \A n \in 1..p : fs[n] = es[n],
         NEW item \in Items, WholeText(es, p, item)
  PROVE  WholeText(fs, q, item)
<1> DEFINE body == item.body
<1>1. body \in Seq(Nat) /\ Len(body) \in Nat
  BY DEF Items
<1>2. body # <<>> /\ \A j \in 1..Len(body) : body[j] \in 1..p
  BY DEF WholeText
<1>3. \A j \in 1..Len(body) : body[j] \in 1..q
  BY <1>2
<1>4. ASSUME item.streaming
      PROVE  /\ item.prefix = "morse"
             /\ \A j \in 1..Len(body) : fs[body[j]].kind = "delta"
             /\ \A j \in 1..(Len(body) - 1) :
                  body[j] < body[j + 1] /\ Between(fs, body[j], body[j + 1])
  <2>1. /\ item.prefix = "morse"
        /\ \A j \in 1..Len(body) : es[body[j]].kind = "delta"
        /\ \A j \in 1..(Len(body) - 1) :
             body[j] < body[j + 1] /\ Between(es, body[j], body[j + 1])
    BY <1>4 DEF WholeText
  <2> HIDE DEF body
  <2>2. \A j \in 1..Len(body) : fs[body[j]].kind = "delta"
    BY <1>2, <2>1
  <2>3. ASSUME NEW j \in 1..(Len(body) - 1) PROVE Between(fs, body[j], body[j + 1])
    <3>1. j \in 1..Len(body) /\ j + 1 \in 1..Len(body)
      BY <1>1
    <3>2. body[j] \in 1..p /\ body[j + 1] \in 1..p
      BY <1>2, <3>1
    <3>3. \A n \in body[j]..body[j + 1] : n \in 1..p
      BY <3>2
    <3>4. Between(es, body[j], body[j + 1])
      BY <2>1
    <3> QED BY <3>3, <3>4 DEF Between
  <2> QED BY <2>1, <2>2, <2>3
<1> HIDE DEF body
<1> QED BY <1>2, <1>3, <1>4 DEF WholeText, body

\* More events are emitted.
LEMMA TextsEmitted ==
  ASSUME NEW p \in Nat, NEW es, NEW fs, \A n \in 1..p : fs[n] = es[n],
         NEW items \in Seq(Items), Texts(es, p, items)
  PROVE  Texts(fs, p, items)
<1>1. \A i \in 1..Len(items) : items[i] \in Items
  OBVIOUS
<1>2. ASSUME NEW i \in 1..Len(items) PROVE WholeText(fs, p, items[i])
  <2>1. WholeText(es, p, items[i]) /\ items[i] \in Items /\ p <= p
    BY <1>1 DEF Texts
  <2> QED BY <2>1, LaterText
<1>3. ASSUME items # <<>> PROVE OpenText(fs, p, items[Len(items)])
  <2> DEFINE last == items[Len(items)]
             body == last.body
  <2> SUFFICES ASSUME last.streaming PROVE Between(fs, body[Len(body)], p)
    BY DEF OpenText
  <2>1. Len(items) \in 1..Len(items) /\ last \in Items
    BY <1>3
  <2>2. body \in Seq(Nat) /\ body # <<>> /\ \A j \in 1..Len(body) : body[j] \in 1..p
    BY <2>1 DEF Texts, WholeText, Items
  <2>3. Between(es, body[Len(body)], p)
    BY <1>3 DEF Texts, OpenText
  <2> HIDE DEF body
  <2>4. Len(body) \in 1..Len(body)
    BY <2>2
  <2>5. body[Len(body)] \in 1..p
    BY <2>2, <2>4
  <2>6. \A n \in body[Len(body)]..p : n \in 1..p
    BY <2>5
  <2> QED BY <2>3, <2>6 DEF Between
<1>4. NoneLost(fs, p, items)
  BY DEF Texts, NoneLost
<1> QED BY <1>2, <1>3, <1>4 DEF Texts

\* An event is shown that pushes nothing, and that is no fragment either.
LEMMA TextsUnseen ==
  ASSUME NEW p \in Nat, NEW es, NEW items \in Seq(Items), Texts(es, p, items),
         es[p + 1].kind \in Unseen
  PROVE  /\ \A i \in 1..Len(items) : WholeText(es, p + 1, items[i])
         /\ items # <<>> => OpenText(es, p + 1, items[Len(items)])
         /\ es[p + 1].kind # "delta" => Texts(es, p + 1, items)
<1>1. \A i \in 1..Len(items) : items[i] \in Items
  OBVIOUS
<1>2. ASSUME NEW i \in 1..Len(items) PROVE WholeText(es, p + 1, items[i])
  <2>1. WholeText(es, p, items[i])
    BY DEF Texts
  <2> QED BY <1>1, <2>1, LaterText
<1>3. ASSUME items # <<>> PROVE OpenText(es, p + 1, items[Len(items)])
  <2> DEFINE last == items[Len(items)]
             a == last.body[Len(last.body)]
  <2> SUFFICES ASSUME last.streaming PROVE Between(es, a, p + 1)
    BY DEF OpenText
  <2>1. Len(items) \in 1..Len(items) /\ last \in Items
    BY <1>3
  <2>2. Len(last.body) \in 1..Len(last.body) /\ a \in Nat
    BY <2>1 DEF Texts, WholeText, Items
  <2>3. Between(es, a, p)
    BY <1>3 DEF Texts, OpenText
  <2> HIDE DEF a
  <2>4. \A n \in a..(p + 1) : n \in a..p \/ n = p + 1
    BY <2>2
  <2> QED BY <2>3, <2>4 DEF Between
<1>4. ASSUME es[p + 1].kind # "delta" PROVE NoneLost(es, p + 1, items)
  <2> SUFFICES ASSUME NEW n \in 1..(p + 1), es[n].kind = "delta",
                      Len(items) = MaxLines => n >= items[1].body[1]
               PROVE  Stands(items, n)
    BY DEF NoneLost
  <2>1. n \in 1..p
    BY <1>4
  <2> QED BY <2>1 DEF Texts, NoneLost
<1>5. Ordered(items) /\ Apart(items)
  BY DEF Texts
<1> QED BY <1>2, <1>3, <1>4, <1>5 DEF Texts

\* An item of event q is pushed, which begins a text if it is of a fragment.
LEMMA TextsPush ==
  ASSUME NEW p \in Nat, NEW q \in Nat, q >= 1, q = p \/ q = p + 1, NEW es,
         NEW items \in Seq(Items), Len(items) <= MaxLines, Texts(es, p, items),
         NEW item \in Items, item.body = <<q>>,
         es[q].kind # "delta" => ~item.streaming,
         es[q].kind = "delta" =>
           /\ q = p + 1 /\ item.streaming /\ item.prefix = "morse"
           /\ items # <<>> => ~items[Len(items)].streaming
  PROVE  Texts(es, q, LastN(Append(items, item), MaxLines))
<1> DEFINE more == Append(items, item)
           kept == LastN(more, MaxLines)
           m == Len(items)
<1>1. /\ more \in Seq(Items) /\ kept \in Seq(Items) /\ kept # <<>>
      /\ Len(kept) <= MaxLines /\ Len(kept) >= 1 /\ kept[Len(kept)] = item
      /\ \/ kept = more
         \/ /\ Len(more) = Len(kept) + 1 /\ Len(kept) = MaxLines
            /\ \A i \in 1..Len(kept) : kept[i] = more[i + 1]
  <2>1. items \in Seq(Items) /\ Len(items) <= MaxLines /\ item \in Items
    OBVIOUS
  <2> QED BY ONLY <2>1, MoreItems
<1>2. /\ m \in Nat /\ Len(more) = m + 1
      /\ \A i \in 1..m : more[i] = items[i]
      /\ more[m + 1] = item
  BY AppendProperties
<1>3. Len(kept) \in Nat
  BY <1>1, LenProperties
<1> HIDE DEF more, kept, m
<1>4. \A i \in 1..m : items[i] \in Items /\ WholeText(es, p, items[i])
  BY DEF Texts, m
<1>5. Len(item.body) = 1 /\ item.body[1] = q /\ item.body # <<>>
  OBVIOUS
<1>6. item.streaming \in BOOLEAN
  BY DEF Items
\* The new item is whole, and every other one stays so.
<1>7. WholeText(es, q, item) /\ OpenText(es, q, item)
  <2>1. \A j \in 1..Len(item.body) : item.body[j] \in 1..q
    BY <1>5
  <2>2. ASSUME item.streaming
        PROVE  /\ item.prefix = "morse" /\ es[q].kind = "delta"
               /\ Between(es, q, q)
    BY <2>2 DEF Between, Unseen
  <2>3. \A j \in 1..Len(item.body) : item.body[j] = q
    BY <1>5
  <2>4. \A j \in 1..(Len(item.body) - 1) : FALSE
    BY <1>5
  <2> QED BY <1>5, <2>1, <2>2, <2>3, <2>4 DEF WholeText, OpenText
<1>8. \A i \in 1..(m + 1) : WholeText(es, q, more[i])
  <2> TAKE i \in 1..(m + 1)
  <2>1. i \in 1..m \/ i = m + 1
    BY <1>2
  <2>2. ASSUME i \in 1..m PROVE WholeText(es, q, items[i])
    <3>1. items[i] \in Items /\ WholeText(es, p, items[i]) /\ p <= q
      BY <1>4, <2>2
    <3> QED BY <3>1, LaterText
  <2> QED BY <1>2, <1>7, <2>1, <2>2
\* It comes behind all the others.
<1>9. ASSUME NEW i \in 1..m PROVE Precedes(items[i], item)
  <2> DEFINE body == items[i].body
  <2>1. /\ \A j \in 1..Len(body) : body[j] \in 1..p
        /\ items[i].streaming => \A j \in 1..Len(body) : es[body[j]].kind = "delta"
    BY <1>4 DEF WholeText
  <2> SUFFICES ASSUME NEW a \in 1..Len(body)
               PROVE  body[a] <= q /\ (items[i].streaming \/ item.streaming => body[a] < q)
    BY <1>5 DEF Precedes
  <2>2. body[a] \in 1..p
    BY <2>1
  <2>3. CASE q = p + 1
    BY <2>2, <2>3
  <2>4. CASE q = p
    <3>1. es[q].kind # "delta" /\ ~item.streaming
      BY <2>4
    <3>2. items[i].streaming => body[a] # q
      BY <2>1, <3>1
    <3> HIDE DEF body
    <3> QED BY <2>2, <2>4, <3>1, <3>2
  <2> QED BY <2>3, <2>4
<1>10. Ordered(more)
  <2> SUFFICES ASSUME NEW i \in 1..(m + 1), NEW k \in 1..(m + 1), i < k
               PROVE  Precedes(more[i], more[k])
    BY <1>2 DEF Ordered
  <2>1. i \in 1..m /\ more[i] = items[i]
    BY <1>2
  <2>2. CASE k \in 1..m
    <3>1. Precedes(items[i], items[k])
      BY <2>1, <2>2 DEF Texts, Ordered, m
    <3> QED BY <1>2, <2>1, <2>2, <3>1
  <2>3. CASE k = m + 1
    BY <1>2, <1>9, <2>1, <2>3
  <2> QED BY <1>2, <2>2, <2>3
<1>11. Apart(more)
  <2> SUFFICES ASSUME NEW i \in 1..m, more[i].streaming, more[i + 1].streaming PROVE FALSE
    <3>1. (m + 1) - 1 = m
      BY <1>2
    <3> QED BY <1>2, <3>1 DEF Apart
  <2>1. more[i] = items[i]
    BY <1>2
  <2>2. CASE i = m
    <3>1. items # <<>> /\ item.streaming /\ items[m].streaming
      BY <1>2, <2>1, <2>2 DEF m
    <3> QED BY <1>6, <3>1 DEF m
  <2>3. CASE i # m
    <3>1. i \in 1..(m - 1) /\ i + 1 \in 1..m
      BY <1>2, <2>3
    <3>2. more[i + 1] = items[i + 1]
      BY <1>2, <3>1
    <3> QED BY <2>1, <3>1, <3>2 DEF Texts, Apart, m
  <2> QED BY <2>2, <2>3
\* A fragment that stood among the items stands among them and the new one,
\* and the new one is a fragment that stands.
<1>12. ASSUME NEW n, Stands(items, n)
       PROVE  \E i \in 1..m : /\ more[i].streaming
                              /\ \E j \in 1..Len(more[i].body) : more[i].body[j] = n
  BY <1>2, <1>12 DEF Stands, m
<1>13. ASSUME es[q].kind = "delta" PROVE item.streaming /\ item.body[1] = q
  BY <1>5, <1>13
<1>14. ASSUME NEW n \in 1..q, es[n].kind = "delta", n # q PROVE n \in 1..p
  BY <1>14
<1>15. CASE kept = more
  <2>1. m < MaxLines
    BY <1>1, <1>2, <1>15
  <2>2. ASSUME NEW n \in 1..q, es[n].kind = "delta" PROVE Stands(more, n)
    <3>1. CASE n = q
      <4>1. m + 1 \in 1..Len(more) /\ 1 \in 1..Len(item.body)
        BY <1>2, <1>5
      <4>2. item.streaming /\ item.body[1] = n
        BY <1>13, <2>2, <3>1
      <4> QED BY <1>2, <4>1, <4>2 DEF Stands
    <3>2. CASE n # q
      <4>1. n \in 1..p /\ Len(items) # MaxLines
        BY <1>2, <1>14, <2>1, <2>2, <3>2 DEF m
      <4>2. Stands(items, n)
        BY <2>2, <4>1 DEF Texts, NoneLost
      <4>3. PICK i \in 1..m : /\ more[i].streaming
                              /\ \E j \in 1..Len(more[i].body) : more[i].body[j] = n
        BY <1>12, <4>2
      <4>4. i \in 1..Len(more)
        BY <1>2
      <4> QED BY <4>3, <4>4 DEF Stands
    <3> QED BY <3>1, <3>2
  <2>3. NoneLost(es, q, more)
    BY <2>2 DEF NoneLost
  <2>4. more # <<>> => OpenText(es, q, more[Len(more)])
    BY <1>2, <1>7
  <2>5. \A i \in 1..Len(more) : WholeText(es, q, more[i])
    BY <1>2, <1>8
  <2>6. Texts(es, q, more)
    BY <1>10, <1>11, <2>3, <2>4, <2>5 DEF Texts
  <2> QED BY <1>15, <2>6 DEF kept, more
<1>16. CASE /\ Len(more) = Len(kept) + 1 /\ Len(kept) = MaxLines
            /\ \A i \in 1..Len(kept) : kept[i] = more[i + 1]
  <2>1. /\ m = MaxLines /\ Len(kept) = m /\ m >= 1
        /\ \A i \in 1..m : kept[i] = more[i + 1] /\ i + 1 \in 1..(m + 1)
    BY <1>2, <1>3, <1>16
  <2>2. \A i \in 1..Len(kept) : WholeText(es, q, kept[i])
    BY <1>8, <2>1
  <2>3. OpenText(es, q, kept[Len(kept)])
    BY <1>1, <1>7
  <2>4. Ordered(kept)
    <3> SUFFICES ASSUME NEW i \in 1..m, NEW k \in 1..m, i < k
                 PROVE  Precedes(kept[i], kept[k])
      BY <2>1 DEF Ordered
    <3>1. i + 1 \in 1..Len(more) /\ k + 1 \in 1..Len(more) /\ i + 1 < k + 1
      BY <1>2
    <3>2. Precedes(more[i + 1], more[k + 1])
      BY <1>10, <3>1 DEF Ordered
    <3> QED BY <2>1, <3>2
  <2>5. Apart(kept)
    <3> SUFFICES ASSUME NEW i \in 1..(m - 1), kept[i].streaming, kept[i + 1].streaming
                 PROVE  FALSE
      BY <2>1 DEF Apart
    <3>1. i \in 1..m /\ i + 1 \in 1..m /\ i + 1 \in 1..(Len(more) - 1)
      BY <1>2
    <3>2. kept[i] = more[i + 1] /\ kept[i + 1] = more[(i + 1) + 1]
      BY <2>1, <3>1
    <3> QED BY <1>11, <3>1, <3>2 DEF Apart
  <2>6. ASSUME NEW n \in 1..q, es[n].kind = "delta", n >= kept[1].body[1]
        PROVE  Stands(kept, n)
    <3>1. kept[1] = more[2] /\ 1 \in 1..(m + 1) /\ 2 \in 1..(m + 1) /\ more[1] = items[1]
      BY <1>2, <2>1
    <3>2. CASE n = q
      <4>1. m \in 1..Len(kept) /\ 1 \in 1..Len(item.body)
        BY <1>2, <1>5, <2>1
      <4>2. item.streaming /\ item.body[1] = n /\ kept[m] = item
        BY <1>1, <1>13, <2>1, <2>6, <3>2
      <4> QED BY <4>1, <4>2 DEF Stands
    <3>3. CASE n # q
      <4>1. n \in 1..p
        BY <1>14, <2>6, <3>3
      <4>2. Precedes(more[1], more[2])
        BY <1>2, <1>10, <3>1 DEF Ordered
      <4> DEFINE first == more[1].body
                 next == more[2].body
      <4>3. /\ first # <<>> /\ \A j \in 1..Len(first) : first[j] \in 1..q
            /\ next # <<>> /\ \A j \in 1..Len(next) : next[j] \in 1..q
        BY <1>8, <3>1 DEF WholeText
      <4>4. more[1] \in Items /\ more[2] \in Items
        BY <1>1, <1>2, <3>1
      <4>5. first \in Seq(Nat) /\ next \in Seq(Nat)
        BY <4>4 DEF Items
      <4>6. /\ \A j \in 1..Len(first), k \in 1..Len(next) : first[j] <= next[k]
            /\ more[1].streaming =>
                 \A j \in 1..Len(first), k \in 1..Len(next) : first[j] < next[k]
        BY <4>2 DEF Precedes
      <4>7. n >= next[1] /\ first = items[1].body
        BY <2>6, <3>1
      <4> HIDE DEF first, next
      <4>8. 1 \in 1..Len(first) /\ 1 \in 1..Len(next)
        BY <4>3, <4>5
      <4>9. n >= first[1]
        <5>1. first[1] <= next[1] /\ first[1] \in 1..q /\ next[1] \in 1..q
          BY <4>3, <4>6, <4>8
        <5> QED BY <4>7, <5>1
      <4>10. Stands(items, n)
        BY <2>6, <4>1, <4>7, <4>9 DEF Texts, NoneLost
      <4>11. PICK i \in 1..m : /\ more[i].streaming
                               /\ \E j \in 1..Len(more[i].body) : more[i].body[j] = n
        BY <1>12, <4>10
      <4>12. i # 1
        <5> SUFFICES ASSUME i = 1 PROVE FALSE
          OBVIOUS
        <5>1. PICK j \in 1..Len(first) : first[j] = n
          BY <4>11 DEF first
        <5>2. first[j] < next[1] /\ next[1] \in 1..q
          BY <4>3, <4>6, <4>8, <4>11
        <5> QED BY <4>7, <5>1, <5>2
      <4>13. i - 1 \in 1..m /\ (i - 1) + 1 = i
        BY <1>2, <4>12
      <4>14. kept[i - 1] = more[i] /\ i - 1 \in 1..Len(kept)
        BY <2>1, <4>13
      <4> QED BY <4>11, <4>14 DEF Stands
    <3> QED BY <3>2, <3>3
  <2>7. NoneLost(es, q, kept)
    BY <1>16, <2>6 DEF NoneLost
  <2>8. Texts(es, q, kept)
    BY <2>2, <2>3, <2>4, <2>5, <2>7 DEF Texts
  <2> QED BY <2>8 DEF kept, more
<1> QED BY <1>1, <1>15, <1>16

\* A fragment joins the last item.
LEMMA TextsJoin ==
  ASSUME NEW p \in Nat, NEW es, NEW items \in Seq(Items), Texts(es, p, items),
         items # <<>>, items[Len(items)].streaming, es[p + 1].kind = "delta"
  PROVE  Texts(es, p + 1, [items EXCEPT ![Len(items)] =
                             [items[Len(items)] EXCEPT !.body = @ \o <<p + 1>>]])
<1> DEFINE n == Len(items)
           last == items[n]
           one == <<p + 1>>
           body == last.body
           longer == body \o one
           m == Len(body)
           new == [last EXCEPT !.body = @ \o one]
           joined == [items EXCEPT ![n] = new]
<1>1. n \in Nat /\ n \in 1..n /\ last \in Items
  OBVIOUS
<1>2. /\ body \in Seq(Nat) /\ m \in Nat /\ m \in 1..m
      /\ \A j \in 1..m : body[j] \in 1..p /\ es[body[j]].kind = "delta"
      /\ \A j \in 1..(m - 1) : body[j] < body[j + 1] /\ Between(es, body[j], body[j + 1])
      /\ Between(es, body[m], p) /\ last.prefix = "morse"
  <2>1. WholeText(es, p, last) /\ OpenText(es, p, last) /\ last.streaming
    BY <1>1 DEF Texts
  <2>2. body \in Seq(Nat)
    BY <1>1 DEF Items
  <2>3. /\ body # <<>> /\ \A j \in 1..m : body[j] \in 1..p /\ es[body[j]].kind = "delta"
        /\ \A j \in 1..(m - 1) : body[j] < body[j + 1] /\ Between(es, body[j], body[j + 1])
        /\ Between(es, body[m], p) /\ last.prefix = "morse"
    BY <2>1 DEF WholeText, OpenText
  <2> HIDE DEF body
  <2>4. m \in Nat /\ m \in 1..m
    BY <2>2, <2>3
  <2> QED BY <2>2, <2>3, <2>4
<1>3. /\ longer \in Seq(Nat) /\ Len(longer) = m + 1
      /\ \A j \in 1..m : longer[j] = body[j]
      /\ longer[m + 1] = p + 1
  <2>1. one \in Seq(Nat) /\ Len(one) = 1 /\ one[1] = p + 1
    OBVIOUS
  <2> HIDE DEF one, body, m
  <2>2. /\ longer \in Seq(Nat) /\ Len(longer) = Len(body) + 1
        /\ \A j \in 1..(Len(body) + 1) :
             longer[j] = IF j <= Len(body) THEN body[j] ELSE one[j - Len(body)]
    <3>1. body \in Seq(Nat) /\ one \in Seq(Nat)
      BY <1>2, <2>1
    <3>2. Len(body) \in Nat
      BY <3>1
    <3>3. /\ body \o one \in Seq(Nat) /\ Len(body \o one) = Len(body) + Len(one)
          /\ \A j \in 1..(Len(body) + Len(one)) :
               (body \o one)[j] = IF j <= Len(body) THEN body[j] ELSE one[j - Len(body)]
      BY <3>1, ConcatProperties
    <3> QED BY <2>1, <3>3
  <2> HIDE DEF longer
  <2>3. m + 1 \in 1..(m + 1) /\ ~(m + 1 <= m) /\ (m + 1) - m = 1
    BY <1>2
  <2>4. longer[m + 1] = one[1]
    BY <2>2, <2>3 DEF m
  <2>5. \A j \in 1..m : longer[j] = body[j]
    BY <1>2, <2>2 DEF m
  <2> QED BY <2>1, <2>2, <2>4, <2>5 DEF m
<1>4. new \in Items /\ new.body = longer /\ new.streaming /\ new.prefix = last.prefix
  <2>1. last.prefix \in Prefixes /\ last.streaming \in BOOLEAN
    BY <1>1 DEF Items
  <2> HIDE DEF one
  <2> QED BY <1>1, <1>3, <2>1 DEF Items
<1>5. /\ joined \in Seq(Items) /\ Len(joined) = n
      /\ \A i \in 1..n : joined[i] = IF i = n THEN new ELSE items[i]
  <2> HIDE DEF new
  <2> QED BY <1>1, <1>4, ExceptSeq
<1>6. \A i \in 1..n : WholeText(es, p + 1, items[i])
  BY TextsUnseen DEF Unseen
<1> HIDE DEF new, longer, joined, body, m, one
<1>7. Between(es, p + 1, p + 1)
  BY DEF Between, Unseen
<1>8. WholeText(es, p + 1, new)
  <2>1. \A j \in 1..(m + 1) : longer[j] \in 1..(p + 1)
    <3> TAKE j \in 1..(m + 1)
    <3>1. j \in 1..m \/ j = m + 1
      BY <1>2
    <3>2. CASE j \in 1..m
      <4>1. body[j] \in 1..(p + 1) /\ longer[j] = body[j]
        BY <1>2, <1>3, <3>2
      <4> QED BY <4>1
    <3>3. CASE j = m + 1
      <4>1. longer[m + 1] = p + 1 /\ p + 1 \in 1..(p + 1)
        BY <1>3
      <4> QED BY <3>3, <4>1
    <3> QED BY <3>1, <3>2, <3>3
  <2>2. ASSUME NEW j \in 1..m
        PROVE  longer[j] < longer[j + 1] /\ Between(es, longer[j], longer[j + 1])
    <3>1. CASE j = m
      <4>1. body[m] \in 1..p /\ longer[j] = body[m] /\ longer[j + 1] = p + 1
        BY <1>2, <1>3, <3>1
      <4>2. \A k \in body[m]..(p + 1) : k \in body[m]..p \/ k = p + 1
        BY <4>1
      <4>3. Between(es, body[m], p + 1)
        BY <1>2, <4>2 DEF Between, Unseen
      <4>4. body[m] < p + 1
        BY <4>1
      <4> QED BY <4>1, <4>3, <4>4
    <3>2. CASE j # m
      <4>1. j \in 1..(m - 1) /\ j + 1 \in 1..m
        BY <1>2, <3>2
      <4> QED BY <1>2, <1>3, <4>1
    <3> QED BY <3>1, <3>2
  <2>3. (m + 1) - 1 = m /\ longer # <<>>
    BY <1>2, <1>3
  <2>4. ASSUME NEW j \in 1..(m + 1) PROVE es[longer[j]].kind = "delta"
    <3>1. j \in 1..m \/ j = m + 1
      BY <1>2
    <3> QED BY <1>2, <1>3, <3>1
  <2> QED BY <1>2, <1>3, <1>4, <2>1, <2>2, <2>3, <2>4 DEF WholeText
<1>9. OpenText(es, p + 1, new)
  BY <1>3, <1>4, <1>7 DEF OpenText
<1>10. ASSUME NEW i \in 1..n PROVE WholeText(es, p + 1, joined[i])
  <2>1. CASE i = n
    BY <1>5, <1>8, <2>1
  <2>2. CASE i # n
    BY <1>5, <1>6, <2>2
  <2> QED BY <2>1, <2>2
<1>11. joined[n] = new
  BY <1>1, <1>5
<1>12. Ordered(joined)
  <2> SUFFICES ASSUME NEW i \in 1..n, NEW k \in 1..n, i < k
               PROVE  Precedes(joined[i], joined[k])
    BY <1>5 DEF Ordered
  <2>1. i # n /\ joined[i] = items[i] /\ Precedes(items[i], items[k])
    BY <1>1, <1>5 DEF Texts, Ordered, n
  <2>2. CASE k # n
    BY <1>5, <2>1, <2>2
  <2>3. CASE k = n
    <3> DEFINE front == items[i].body
    <3>1. \A a \in 1..Len(front) : front[a] \in 1..p
      BY DEF Texts, WholeText, n
    <3>2. \A a \in 1..Len(front), b \in 1..m : front[a] < body[b]
      <4>1. last.streaming /\ items[k] = last
        BY <2>3 DEF last, n
      <4> QED BY <2>1, <4>1 DEF Precedes, body, m
    <3> SUFFICES ASSUME NEW a \in 1..Len(front), NEW b \in 1..(m + 1)
                 PROVE  front[a] < longer[b] /\ front[a] <= longer[b]
      BY <1>3, <1>4, <1>11, <2>1, <2>3 DEF Precedes
    <3>3. b \in 1..m \/ b = m + 1
      BY <1>2
    <3>4. front[a] \in 1..p
      BY <3>1
    <3> HIDE DEF front
    <3>5. CASE b \in 1..m
      <4>1. longer[b] = body[b] /\ body[b] \in 1..p /\ front[a] < body[b]
        BY <1>2, <1>3, <3>2, <3>5
      <4> QED BY <3>4, <4>1
    <3>6. CASE b = m + 1
      BY <1>3, <3>4, <3>6
    <3> QED BY <3>3, <3>5, <3>6
  <2> QED BY <2>2, <2>3
<1>13. \A i \in 1..n : joined[i].streaming => items[i].streaming
  BY <1>5 DEF n
<1>14. Apart(joined)
  <2>1. \A i \in 1..(n - 1) : i \in 1..n /\ i + 1 \in 1..n
    BY <1>1
  <2>2. Apart(items)
    BY DEF Texts
  <2> QED BY <1>5, <1>13, <2>1, <2>2 DEF Apart, n
\* What stood stands, and the fragment stands at the end of the last item.
<1>15. joined[1].body[1] = items[1].body[1]
  <2>1. 1 \in 1..n /\ 1 \in 1..m
    BY <1>1, <1>2
  <2>2. CASE n = 1
    BY <1>3, <1>4, <1>11, <2>1, <2>2 DEF last, body
  <2>3. CASE n # 1
    BY <1>5, <2>1, <2>3
  <2> QED BY <2>2, <2>3
<1>16. ASSUME NEW k, Stands(items, k) PROVE Stands(joined, k)
  <2>1. PICK i \in 1..n : items[i].streaming /\ \E j \in 1..Len(items[i].body) : items[i].body[j] = k
    BY <1>16 DEF Stands, n
  <2>2. CASE i # n
    BY <1>5, <2>1, <2>2 DEF Stands
  <2>3. CASE i = n
    <3>1. PICK j \in 1..m : body[j] = k
      BY <2>1, <2>3 DEF body, m, last
    <3>2. j \in 1..(m + 1) /\ longer[j] = k
      BY <1>2, <1>3, <3>1
    <3>3. joined[n].body = longer /\ joined[n].streaming /\ Len(longer) = m + 1
      BY <1>3, <1>4, <1>11
    <3>4. j \in 1..Len(joined[n].body) /\ joined[n].body[j] = k
      BY <3>2, <3>3
    <3> QED BY <1>1, <1>5, <3>3, <3>4 DEF Stands
  <2> QED BY <2>2, <2>3
<1>17. Stands(joined, p + 1)
  <2>1. m + 1 \in 1..Len(joined[n].body) /\ joined[n].body[m + 1] = p + 1 /\ joined[n].streaming
    BY <1>2, <1>3, <1>4, <1>11
  <2> QED BY <1>1, <1>5, <2>1 DEF Stands
<1>18. NoneLost(es, p + 1, joined)
  <2> SUFFICES ASSUME NEW k \in 1..(p + 1), es[k].kind = "delta",
                      Len(joined) = MaxLines => k >= joined[1].body[1]
               PROVE  Stands(joined, k)
    BY DEF NoneLost
  <2>1. CASE k = p + 1
    BY <1>17, <2>1
  <2>2. CASE k # p + 1
    <3>1. k \in 1..p /\ (Len(items) = MaxLines => k >= items[1].body[1])
      BY <1>5, <1>15, <2>2 DEF n
    <3>2. Stands(items, k)
      BY <3>1 DEF Texts, NoneLost
    <3> QED BY <1>16, <3>2
  <2> QED BY <2>1, <2>2
<1>19. \A i \in 1..Len(joined) : WholeText(es, p + 1, joined[i])
  BY <1>5, <1>10
<1>20. OpenText(es, p + 1, joined[Len(joined)])
  BY <1>5, <1>9, <1>11
<1>21. Texts(es, p + 1, joined)
  BY <1>12, <1>14, <1>18, <1>19, <1>20 DEF Texts
<1> QED BY <1>21 DEF joined, new, last, n, one

-----------------------------------------------------------------------------
(* The inductive invariant of the panes.                                    *)

\* The invariant of the panes.
PaneInv ==
  /\ panes = [p \in {"main", "side"} |-> panes[p]]
  /\ Fits(panes["main"]) /\ Fits(panes["side"])
  /\ pumped \in Nat /\ pumped <= Len(events)
  /\ Texts(events, pumped, panes["main"].items)

LEMMA PaneInit == Init => PaneInv
<1> SUFFICES ASSUME Init PROVE PaneInv
  OBVIOUS
<1>1. /\ panes = [p \in {"main", "side"} |-> EmptyPane]
      /\ pumped = 0 /\ events = <<>>
  BY DEF Init, TermInit
<1>2. panes["main"] = EmptyPane /\ panes["side"] = EmptyPane
  BY <1>1
<1>3. panes = [p \in {"main", "side"} |-> panes[p]]
  BY <1>1
<1>4. Len(events) = 0
  BY <1>1
<1>5. Texts(events, pumped, panes["main"].items)
  <2>1. panes["main"].items = <<>> /\ Len(panes["main"].items) = 0
    BY <1>2 DEF EmptyPane
  <2>2. \A i \in 1..0 : FALSE
    OBVIOUS
  <2> QED BY <1>1, <2>1, <2>2 DEF Texts, Ordered, Apart, NoneLost
<1> QED BY <1>1, <1>2, <1>3, <1>4, <1>5, EmptyFits DEF PaneInv

\* The events are a sequence throughout, and what is emitted follows them.
Emitted ==
  /\ events' \in Seq(Events)
  /\ Len(events) <= Len(events')
  /\ \A i \in 1..Len(events) : events'[i] = events[i]

LEMMA EmittedByStep == Inv /\ [Next]_vars => Emitted
<1> SUFFICES ASSUME Inv, [Next]_vars PROVE Emitted
  OBVIOUS
<1>1. events \in Seq(Events) /\ Len(events) \in Nat
  BY DEF Inv, Types
<1>2. ASSUME NEW e \in Events, Emit(<<e>>) PROVE Emitted
  BY <1>1, <1>2, EmitOne DEF Emitted
<1>3. ASSUME UNCHANGED events PROVE Emitted
  BY <1>1, <1>3 DEF Emitted
<1>4. CASE MainEmits
  <2>1. PICK kind \in MainKinds : Emit(<<[kind |-> kind]>>)
    BY <1>4, NextMain DEF MainEmits
  <2>2. [kind |-> kind] \in Events
    BY DEF Events, MainKinds
  <2> QED BY <1>2, <2>1, <2>2
<1>5. CASE SubmitQuestion
  <2>1. ErrorEvent \in Events
    BY DEF ErrorEvent, Events
  <2> QED BY <1>2, <1>3, <1>5, <2>1 DEF SubmitQuestion, Ask
<1>6. CASE Client /\ UNCHANGED <<events, sideVars>>
  BY <1>3, <1>6
<1>7. CASE BeginAnswer
  BY <1>3, <1>7 DEF BeginAnswer
<1>8. CASE ModelAnswers \/ HeuristicAnswers
  <2>1. Emit(<<SideEvent(question, about)>>)
    BY <1>8 DEF ModelAnswers, HeuristicAnswers, Publish
  <2>2. SideEvent(question, about) \in Events
    BY DEF SideEvent, Events, Inv, Types
  <2> QED BY <1>2, <2>1, <2>2
<1>9. CASE UNCHANGED vars
  BY <1>3, <1>9 DEF vars
<1> QED BY <1>4, <1>5, <1>6, <1>7, <1>8, <1>9 DEF Next, Answering

\* Steps of the agents leave the panes alone.
LEMMA PaneEmittedStep == PaneInv /\ Emitted /\ UNCHANGED termVars /\ Inv => PaneInv'
<1> SUFFICES ASSUME PaneInv, Emitted, UNCHANGED termVars, Inv PROVE PaneInv'
  OBVIOUS
<1>1. panes' = panes /\ pumped' = pumped
  BY DEF termVars
<1>2. /\ Len(events) \in Nat /\ Len(events') \in Nat
      /\ pumped \in Nat /\ pumped <= Len(events) /\ Len(events) <= Len(events')
  BY DEF Inv, Types, Emitted, PaneInv
<1>3. \A n \in 1..pumped : events'[n] = events[n]
  BY <1>2 DEF Emitted
<1>4. panes["main"].items \in Seq(Items)
  BY DEF PaneInv, Fits, Panes
<1>5. Texts(events', pumped, panes["main"].items)
  BY <1>2, <1>3, <1>4, TextsEmitted DEF PaneInv
<1>6. pumped' <= Len(events')
  BY <1>1, <1>2
<1> QED BY <1>1, <1>2, <1>5, <1>6 DEF PaneInv

LEMMA DrawStep ==
  ASSUME PaneInv, NEW w \in Widths, Draw(w), UNCHANGED events PROVE PaneInv'
<1>1. /\ panes' = [p \in {"main", "side"} |-> SetWidth(panes[p], w)]
      /\ pumped' = pumped /\ events' = events
  BY DEF Draw
<1>2. w \in Nat \ {0}
  OBVIOUS
<1>3. /\ panes'["main"] = SetWidth(panes["main"], w)
      /\ panes'["side"] = SetWidth(panes["side"], w)
      /\ panes' = [p \in {"main", "side"} |-> panes'[p]]
  BY <1>1
<1>4. /\ Fits(panes'["main"]) /\ Fits(panes'["side"])
      /\ panes'["main"].items = panes["main"].items
  <2>1. Fits(panes["main"]) /\ Fits(panes["side"])
    BY DEF PaneInv
  <2>2. /\ Fits(SetWidth(panes["main"], w)) /\ Fits(SetWidth(panes["side"], w))
        /\ SetWidth(panes["main"], w).items = panes["main"].items
    BY <1>2, <2>1, WidthFits
  <2> QED BY <1>3, <2>2
<1>5. Texts(events', pumped', panes'["main"].items)
  BY <1>1, <1>4 DEF PaneInv
<1> QED BY <1>1, <1>3, <1>4, <1>5 DEF PaneInv

\* Render shows one event more.
LEMMA PumpStep == PaneInv /\ Inv /\ Pump /\ UNCHANGED events => PaneInv'
<1> SUFFICES ASSUME PaneInv, Inv, Pump, UNCHANGED events PROVE PaneInv'
  OBVIOUS
<1> DEFINE n == pumped + 1
           e == events[n]
           main == panes["main"]
           side == panes["side"]
<1>1. /\ pumped \in Nat /\ pumped' = n /\ n <= Len(events) /\ n \in Nat
      /\ e \in Events /\ panes' = Render(e, n)
  <2>1. pumped < Len(events) /\ Len(events) \in Nat /\ pumped \in Nat
    BY DEF Pump, Pumping, Now, PaneInv, Inv, Types
  <2>2. n \in 1..Len(events) /\ events \in Seq(Events)
    BY <2>1 DEF Inv, Types
  <2> QED BY <2>1, <2>2 DEF Pump, Pumping
<1>2. /\ panes = [p \in {"main", "side"} |-> panes[p]]
      /\ Fits(main) /\ Fits(side)
      /\ main.items \in Seq(Items) /\ Len(main.items) <= MaxLines
      /\ Texts(events, pumped, main.items)
  BY DEF PaneInv, Fits, Panes
<1>3. ASSUME NEW q, NEW r, Fits(q), Fits(r), Texts(events, n, q.items),
             panes' = [p \in {"main", "side"} |-> IF p = "main" THEN q ELSE r]
      PROVE  PaneInv'
  <2>1. panes'["main"] = q /\ panes'["side"] = r
        /\ panes' = [p \in {"main", "side"} |-> panes'[p]]
    BY <1>3
  <2>2. Texts(events', pumped', panes'["main"].items)
    BY <1>1, <1>3, <2>1
  <2>3. pumped' \in Nat /\ pumped' <= Len(events')
    BY <1>1
  <2> QED BY <1>3, <2>1, <2>2, <2>3 DEF PaneInv
<1>4. ASSUME NEW q, panes' = [panes EXCEPT !["main"] = q], Fits(q), Texts(events, n, q.items)
      PROVE  PaneInv'
  <2>1. panes' = [p \in {"main", "side"} |-> IF p = "main" THEN q ELSE side]
    BY <1>2, <1>4
  <2> QED BY <1>2, <1>3, <1>4, <2>1
<1>5. CASE e.kind = "delta"
  <2> DEFINE q == PaneAppend(main, "morse", <<n>>)
             k == Len(main.items)
             new == [Item("morse", <<n>>) EXCEPT !.streaming = TRUE]
             more == [main.items[k] EXCEPT !.body = @ \o <<n>>]
  <2>1. "morse" \in Prefixes /\ <<n>> \in Seq(Nat)
    BY <1>1 DEF Prefixes
  <2>2. /\ Fits(q)
        /\ q.items = IF Joins(main, "morse") THEN [main.items EXCEPT ![k] = more]
                     ELSE LastN(Append(main.items, new), MaxLines)
    BY <1>2, <2>1, AppendFits
  <2>3. panes' = [panes EXCEPT !["main"] = q]
    <3>1. Render(e, n) = [panes EXCEPT !["main"] = PaneAppend(@, "morse", <<n>>)]
      BY <1>5 DEF Render
    <3>2. DOMAIN panes = {"main", "side"}
      BY <1>2
    <3> QED BY <1>1, <3>1, <3>2
  <2> HIDE DEF q
  <2>4. Texts(events, n, q.items)
    <3>1. CASE Joins(main, "morse")
      <4>1. main.items # <<>> /\ main.items[k].streaming
        BY <1>2, <3>1 DEF Joins
      <4>2. Texts(events, n, [main.items EXCEPT ![k] = more])
        BY <1>1, <1>2, <1>5, <4>1, TextsJoin
      <4> QED BY <2>2, <3>1, <4>2
    <3>2. CASE ~Joins(main, "morse")
      <4>1. new \in Items /\ new.body = <<n>> /\ new.streaming /\ new.prefix = "morse"
        BY <2>1 DEF Item, Items
      <4>2. ASSUME main.items # <<>> PROVE ~main.items[k].streaming
        <5>1. k > 0 /\ k \in 1..k
          BY <1>2, <4>2
        <5>2. main.items[k].streaming => main.items[k].prefix = "morse"
          BY <1>2, <5>1 DEF Texts, WholeText
        <5> QED BY <3>2, <5>1, <5>2 DEF Joins
      <4>3. n >= 1 /\ n = pumped + 1 /\ n \in Nat /\ pumped \in Nat
        BY <1>1
      <4>4. events[n].kind = "delta"
        BY <1>5
      <4> HIDE DEF n, e, new, main
      <4>5. Texts(events, n, LastN(Append(main.items, new), MaxLines))
        BY <1>2, <4>1, <4>2, <4>3, <4>4, TextsPush
      <4> QED BY <2>2, <3>2, <4>5 DEF new
    <3> QED BY <3>1, <3>2
  <2> QED BY <1>4, <2>2, <2>3, <2>4
<1>6. ASSUME e.kind \in Unseen, e.kind # "delta" PROVE Texts(events, n, main.items)
  BY <1>1, <1>2, <1>6, TextsUnseen
<1>7. CASE e.kind = "side"
  <2> DEFINE you == Item("you", <<e.question>>)
             told == Item("side", <<n, n>>)
             q == PanePush(side, you)
             r == PanePush(q, told)
  <2>1. e.question \in Nat
    BY <1>1, <1>7 DEF Events, MainKinds
  <2>2. you \in Items /\ told \in Items
    BY <1>1, <2>1 DEF Item, Items, Prefixes
  <2>3. panes' = [panes EXCEPT !["side"] = r]
    BY <1>1, <1>2, <1>7 DEF Render
  <2> HIDE DEF you, told
  <2>4. Fits(q)
    BY <1>2, <2>2, PushFits
  <2> HIDE DEF q
  <2>5. Fits(r)
    BY <2>2, <2>4, PushFits
  <2> HIDE DEF r
  <2>6. panes' = [p \in {"main", "side"} |-> IF p = "main" THEN main ELSE r]
    BY <1>2, <2>3
  <2>7. Texts(events, n, main.items)
    BY <1>6, <1>7 DEF Unseen
  <2> QED BY <1>2, <1>3, <2>5, <2>6, <2>7
<1>8. CASE e.kind \in {"usage", "plan_call", "plan_result"}
  <2>1. panes' = panes
    BY <1>1, <1>8 DEF Render
  <2>2. panes' = [p \in {"main", "side"} |-> IF p = "main" THEN main ELSE side]
    BY <1>2, <2>1
  <2>3. Texts(events, n, main.items)
    BY <1>6, <1>8 DEF Unseen
  <2> QED BY <1>2, <1>3, <2>2, <2>3
\* An item of the event, behind what the pane holds.
<1>9. ASSUME NEW r, Fits(r), NEW p \in {pumped, n}, Texts(events, p, r.items),
             e.kind # "delta", NEW prefix \in Prefixes
      PROVE  LET q == PanePush(r, Item(prefix, <<n>>))
             IN  Fits(q) /\ Texts(events, n, q.items)
  <2> DEFINE item == Item(prefix, <<n>>)
             q == PanePush(r, item)
  <2>1. item \in Items /\ item.streaming = FALSE /\ item.body = <<n>>
    BY <1>1 DEF Item, Items
  <2> HIDE DEF item
  <2>2. Fits(q) /\ q.items = LastN(Append(r.items, item), MaxLines)
    BY <1>9, <2>1, PushFits
  <2>3. r.items \in Seq(Items) /\ Len(r.items) <= MaxLines
    BY <1>9 DEF Fits, Panes
  <2>4. n >= 1 /\ (n = p \/ n = p + 1) /\ p \in Nat /\ events[n].kind # "delta"
    BY <1>1, <1>9
  <2> HIDE DEF n, e, q
  <2>5. Texts(events, n, LastN(Append(r.items, item), MaxLines))
    BY <1>1, <1>9, <2>1, <2>3, <2>4, TextsPush
  <2> QED BY <2>2, <2>5 DEF q, item
<1>10. CASE e.kind \in {"error", "call", "result"}
  <2> DEFINE q == PanePush(main, Item(e.kind, <<n>>))
  <2>1. panes' = [panes EXCEPT !["main"] = q]
    BY <1>1, <1>10 DEF Render
  <2>2. e.kind \in Prefixes /\ e.kind # "delta"
    BY <1>10 DEF Prefixes
  <2>3. Fits(q) /\ Texts(events, n, q.items)
    <3>1. pumped \in {pumped, n}
      OBVIOUS
    <3> HIDE DEF n, e, main
    <3> QED BY <1>2, <1>9, <2>2, <3>1
  <2> HIDE DEF q
  <2> QED BY <1>4, <2>1, <2>3
<1>11. CASE e.kind = "plan"
  <2> DEFINE q == PanePush(main, Item("plan", <<n>>))
             r == PanePush(q, Item("task", <<n>>))
  <2>1. panes' = [panes EXCEPT !["main"] = r]
    BY <1>1, <1>2, <1>11 DEF Render
  <2>2. "plan" \in Prefixes /\ "task" \in Prefixes /\ e.kind # "delta"
    BY <1>11 DEF Prefixes
  <2>3. pumped \in {pumped, n} /\ n \in {pumped, n}
    OBVIOUS
  <2> HIDE DEF n, e, main
  <2>4. Fits(q) /\ Texts(events, n, q.items)
    BY <1>2, <1>9, <2>2, <2>3
  <2> HIDE DEF q
  <2>5. Fits(r) /\ Texts(events, n, r.items)
    BY <1>9, <2>2, <2>3, <2>4
  <2> HIDE DEF r
  <2> QED BY <1>4, <2>1, <2>5
<1> QED
  <2>1. e.kind \in {"side", "error", "delta", "usage", "call", "result",
                    "plan_call", "plan", "plan_result"}
    BY <1>1 DEF Events, MainKinds
  <2> QED BY <1>5, <1>7, <1>8, <1>10, <1>11, <2>1

LEMMA PaneStep == PaneInv /\ Inv /\ [Next]_vars => PaneInv'
<1> SUFFICES ASSUME PaneInv, Inv, [Next]_vars PROVE PaneInv'
  OBVIOUS
<1>1. Emitted
  BY EmittedByStep
<1>2. CASE UNCHANGED termVars
  BY <1>1, <1>2, PaneEmittedStep
<1>3. CASE Client /\ UNCHANGED <<events, sideVars>>
  BY <1>3, PumpStep, DrawStep DEF Client
<1>4. CASE MainEmits
  BY <1>2, <1>4 DEF MainEmits
<1> QED BY <1>2, <1>3, <1>4 DEF Next, SubmitQuestion, vars

-----------------------------------------------------------------------------
(* The theorems.                                                            *)

\* Every reachable state satisfies the invariant.
THEOREM InvHolds == Spec => []Inv
<1>1. Init => Inv BY InvInit
<1>2. Inv /\ [Next]_vars => Inv' BY InvStep
<1> QED BY <1>1, <1>2, PTL DEF Spec

\* Every question is answered at most once and in the order of asking, from a
\* state no older than what had been shown when it was asked, for any number
\* of questions and any main agent (side.rs, answer).
THEOREM AnswersStayFresh == Spec => []AnswersAreFresh
<1>1. Inv => AnswersAreFresh BY DEF Inv
<1> QED BY <1>1, InvHolds, PTL

\* What the model is reminded of is whole exchanges in their order, for any
\* even length the history is cut to (side.rs, answer).
THEOREM HistoryStaysExchanges == Spec => []HistoryIsExchanges
<1>1. Inv => HistoryIsExchanges BY DEF Inv
<1> QED BY <1>1, InvHolds, PTL

(***************************************************************************)
(* The theorems about the panes, for any cap, any widths and any main      *)
(* agent.                                                                  *)
(***************************************************************************)
\* Every reachable state satisfies the invariant of the panes.
THEOREM PaneInvHolds == Spec => []PaneInv
<1>1. Init => PaneInv BY PaneInit
<1>2. PaneInv /\ Inv /\ [Next]_vars => PaneInv' BY PaneStep
<1> QED BY <1>1, <1>2, InvHolds, PTL DEF Spec

\* However events, cuts at the caps, joined fragments and changes of the width
\* follow each other, the lines of a pane are the last lines of its items as
\* wrapped for the present width, as many as the cap asks for (Pane).
THEOREM PanesShowTheirItems == Spec => []PaneShowsItsItems
<1>1. ASSUME PaneInv PROVE PaneShowsItsItems
  <2>1. DOMAIN panes = {"main", "side"}
    BY <1>1 DEF PaneInv
  <2>2. ASSUME NEW pane, Fits(pane), pane.wrap_width > 0
        PROVE  LET all == WrapAll(pane.items, pane.wrap_width)
               IN  /\ pane.wrapped = LastN(all, Len(pane.wrapped))
                   /\ Len(pane.wrapped) >= IF Len(all) < MaxLines THEN Len(all) ELSE MaxLines
                   /\ pane.items # <<>> =>
                        pane.last_len = Len(Wrap(pane.items[Len(pane.items)], pane.wrap_width))
    <3>1. /\ pane.items \in Seq(Items) /\ pane.wrapped \in Seq(Lines)
          /\ pane.wrap_width \in Nat \ {0}
      BY <2>2 DEF Fits, Panes
    <3>2. WrapAll(pane.items, pane.wrap_width) \in Seq(Lines)
      BY <3>1, WrapAllType
    <3>3. Shows(pane.items, pane.wrapped, pane.wrap_width, pane.last_len)
      BY <2>2 DEF Fits
    <3>4. pane.wrapped = LastN(WrapAll(pane.items, pane.wrap_width), Len(pane.wrapped))
      BY <3>1, <3>2, <3>3, EndIsLast DEF Shows
    <3> QED BY <3>3, <3>4 DEF Shows
  <2>3. \A p \in DOMAIN panes : Fits(panes[p])
    BY <1>1, <2>1 DEF PaneInv
  <2> QED BY <2>2, <2>3 DEF PaneShowsItsItems
<1> QED BY <1>1, PaneInvHolds, PTL

\* The text that is streamed in fragments stands in the main pane once, in
\* order and whole, but for what the cap has taken from the front, and
\* fragments are joined if and only if the pane shows nothing between them,
\* for any cap, any widths and any main agent (pump_events, append).
THEOREM StreamedTextStaysWhole == Spec => []StreamedTextIsWhole
<1>1. ASSUME PaneInv PROVE StreamedTextIsWhole
  <2> DEFINE items == panes["main"].items
             streamed == {i \in DOMAIN items : items[i].streaming}
  <2>1. items \in Seq(Items)
    BY <1>1 DEF PaneInv, Fits, Panes
  <2>2. Texts(events, pumped, items)
    BY <1>1 DEF PaneInv
  <2> HIDE DEF items
  <2>3. Len(items) \in Nat /\ DOMAIN items = 1..Len(items)
    BY <2>1
  <2>4. \A i \in 1..Len(items) :
          /\ items[i].body \in Seq(Nat) /\ Len(items[i].body) \in Nat
          /\ DOMAIN items[i].body = 1..Len(items[i].body)
    <3> TAKE i \in 1..Len(items)
    <3>1. items[i] \in Items
      BY <2>1
    <3>2. items[i].body \in Seq(Nat)
      BY <3>1 DEF Items
    <3> QED BY <3>2
  <2>5. ASSUME NEW i \in streamed, NEW j \in DOMAIN items[i].body
        PROVE  /\ events[items[i].body[j]].kind = "delta"
               /\ j > 1 =>
                    /\ items[i].body[j - 1] < items[i].body[j]
                    /\ \A n \in items[i].body[j - 1]..items[i].body[j] :
                         events[n].kind \in Unseen
    <3> DEFINE body == items[i].body
    <3>1. i \in 1..Len(items) /\ items[i].streaming /\ j \in 1..Len(body) /\ Len(body) \in Nat
      BY <2>3, <2>4
    <3>2. /\ \A k \in 1..Len(body) : events[body[k]].kind = "delta"
          /\ \A k \in 1..(Len(body) - 1) :
               body[k] < body[k + 1] /\ Between(events, body[k], body[k + 1])
      BY <2>2, <3>1 DEF Texts, WholeText
    <3> HIDE DEF body
    <3>3. ASSUME j > 1
          PROVE  body[j - 1] < body[j] /\ Between(events, body[j - 1], body[j])
      <4>1. j - 1 \in 1..(Len(body) - 1) /\ (j - 1) + 1 = j
        BY <3>1, <3>3
      <4> QED BY <3>2, <4>1
    <3> QED BY <3>1, <3>2, <3>3 DEF Between, body
  <2>6. ASSUME NEW i \in DOMAIN items, NEW k \in DOMAIN items, i < k,
               {i, k} \cap streamed # {},
               NEW a \in DOMAIN items[i].body, NEW b \in DOMAIN items[k].body
        PROVE  items[i].body[a] < items[k].body[b]
    <3>1. Precedes(items[i], items[k])
      BY <2>2, <2>3, <2>6 DEF Texts, Ordered
    <3>2. items[i].streaming \/ items[k].streaming
      BY <2>6
    <3>3. a \in 1..Len(items[i].body) /\ b \in 1..Len(items[k].body)
      BY <2>3, <2>4
    <3> QED BY <3>1, <3>2, <3>3 DEF Precedes
  <2>7. ASSUME NEW i \in streamed PROVE i + 1 \notin streamed
    <3>1. ASSUME i + 1 \in 1..Len(items), items[i + 1].streaming PROVE FALSE
      <4>1. i \in 1..(Len(items) - 1) /\ items[i].streaming
        BY <2>3, <3>1
      <4> QED BY <2>2, <3>1, <4>1 DEF Texts, Apart
    <3> QED BY <2>3, <3>1
  <2>8. ASSUME NEW n \in 1..pumped, events[n].kind = "delta",
               Len(items) = MaxLines => n >= items[1].body[1]
        PROVE  \E i \in streamed : \E j \in DOMAIN items[i].body : items[i].body[j] = n
    <3>1. Stands(items, n)
      BY <2>2, <2>8 DEF Texts, NoneLost
    <3> QED BY <2>3, <2>4, <3>1 DEF Stands
  <2> HIDE DEF streamed
  <2> QED BY <2>5, <2>6, <2>7, <2>8 DEF StreamedTextIsWhole, items, streamed
<1> QED BY <1>1, PaneInvHolds, PTL
=============================================================================
