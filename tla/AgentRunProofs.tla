---------------------------- MODULE AgentRunProofs ----------------------------
(***************************************************************************)
(* Theorems about AgentRun, for every capacity, turn limit and cap, any    *)
(* number of submissions and tool uses, and crashes in any step; at the    *)
(* end the conversation: whatever was interrupted, cut or restored behind  *)
(* a crash, either provider accepts what it is sent.                       *)
(***************************************************************************)
EXTENDS AgentRun, FiniteSetTheorems, ListLemmas

USE CapAssumption, BoundAssumption

-----------------------------------------------------------------------------
(* The state that a log folds into.                                         *)

\* The last event of a kind is found.
LEMMA LastFound ==
  ASSUME NEW es \in Seq(LogEvent), NEW ks
  PROVE  \/ LastOf(es, ks) = 0 /\ \A i \in DOMAIN es : es[i].kind \notin ks
         \/ /\ LastOf(es, ks) \in DOMAIN es /\ es[LastOf(es, ks)].kind \in ks
            /\ \A i \in DOMAIN es : es[i].kind \in ks => i <= LastOf(es, ks)
<1> DEFINE at == {i \in DOMAIN es : es[i].kind \in ks}
<1>1. CASE at = {}
  BY <1>1 DEF LastOf
<1>2. CASE at # {}
  <2>1. at \in SUBSET (1..Len(es)) /\ Len(es) \in Nat
    OBVIOUS
  <2>2. \E m \in at : \A j \in at : j <= m
    BY <1>2, <2>1, Largest
  <2> DEFINE s == CHOOSE i \in at : \A j \in at : j <= i
  <2>3. s \in at /\ \A j \in at : j <= s
    BY <2>2
  <2>4. LastOf(es, ks) = s
    BY <1>2 DEF LastOf
  <2> HIDE DEF s
  <2> QED BY <2>3, <2>4
<1> QED BY <1>1, <1>2

\* It is the only position of which that can be said.
LEMMA LastIsOnly ==
  ASSUME NEW es \in Seq(LogEvent), NEW ks, NEW p \in DOMAIN es, es[p].kind \in ks,
         \A i \in DOMAIN es : es[i].kind \in ks => i <= p
  PROVE  LastOf(es, ks) = p
<1>1. LastOf(es, ks) \in DOMAIN es /\ p <= LastOf(es, ks) /\ LastOf(es, ks) <= p
  BY LastFound
<1>2. LastOf(es, ks) \in Nat /\ p \in Nat
  BY <1>1
<1> QED BY <1>1, <1>2

\* The elements of a log behind an event more.
LEMMA Appended ==
  ASSUME NEW es \in Seq(LogEvent), NEW ev \in LogEvent
  PROVE  /\ Append(es, ev) \in Seq(LogEvent)
         /\ Len(es) \in Nat /\ Len(Append(es, ev)) = Len(es) + 1
         /\ DOMAIN es = 1..Len(es) /\ DOMAIN Append(es, ev) = 1..(Len(es) + 1)
         /\ \A i \in 1..Len(es) : Append(es, ev)[i] = es[i]
         /\ Append(es, ev)[Len(es) + 1] = ev
BY AppendProperties

LEMMA LastAppended ==
  ASSUME NEW es \in Seq(LogEvent), NEW ev \in LogEvent, NEW ks
  PROVE  LastOf(Append(es, ev), ks) =
           IF ev.kind \in ks THEN Len(es) + 1 ELSE LastOf(es, ks)
<1> DEFINE a == Append(es, ev)
<1>1. /\ a \in Seq(LogEvent) /\ Len(es) \in Nat /\ Len(a) = Len(es) + 1
      /\ DOMAIN es = 1..Len(es) /\ DOMAIN a = 1..(Len(es) + 1)
      /\ \A i \in 1..Len(es) : a[i] = es[i]
      /\ a[Len(es) + 1] = ev
  BY Appended
<1> HIDE DEF a
<1>2. CASE ev.kind \in ks
  <2>1. LastOf(a, ks) = Len(es) + 1
    BY <1>1, <1>2, LastIsOnly
  <2> QED BY <1>2, <2>1 DEF a
<1>3. CASE ev.kind \notin ks
  <2>1. \A i \in DOMAIN a : a[i].kind \in ks => i \in DOMAIN es /\ es[i].kind \in ks
    BY <1>1, <1>3
  <2>2. CASE LastOf(es, ks) = 0 /\ \A i \in DOMAIN es : es[i].kind \notin ks
    <3>1. LastOf(a, ks) = 0
      BY <1>1, <2>1, <2>2, LastFound
    <3> QED BY <1>3, <2>2, <3>1 DEF a
  <2>3. CASE /\ LastOf(es, ks) \in DOMAIN es /\ es[LastOf(es, ks)].kind \in ks
             /\ \A i \in DOMAIN es : es[i].kind \in ks => i <= LastOf(es, ks)
    <3> DEFINE p == LastOf(es, ks)
    <3>1. p \in DOMAIN a /\ a[p].kind \in ks /\ \A i \in DOMAIN a : a[i].kind \in ks => i <= p
      BY <1>1, <2>1, <2>3
    <3> HIDE DEF p
    <3>2. LastOf(a, ks) = p
      BY <1>1, <3>1, LastIsOnly
    <3> QED BY <1>3, <3>2 DEF a, p
  <2> QED BY <2>2, <2>3, LastFound
<1> QED BY <1>2, <1>3

Statuses == {"idle", "working", "interrupted"}
States == [status : Statuses, tool : Nat]

LEMMA ApplyType ==
  ASSUME NEW st \in States, NEW ev \in LogEvent
  PROVE  Apply(st, ev) \in States
BY DEF Apply, States, Statuses, StatusOf, StatusKinds, LogEvent, Kinds, NoCall

LEMMA ReplayedType ==
  ASSUME NEW es \in Seq(LogEvent)
  PROVE  Replayed(es) \in States
<1> DEFINE s == LastOf(es, StatusKinds)
           c == LastOf(es, {"call"})
           status == IF s = 0 THEN "idle" ELSE StatusOf(es[s].kind)
           closed == \E i \in DOMAIN es : i > c /\ es[i] = Event("result", es[c].id)
           tool == IF c = 0 \/ closed THEN NoCall ELSE es[c].id
<1>1. status \in Statuses
  <2>1. s = 0 \/ es[s].kind \in StatusKinds
    BY LastFound
  <2> QED BY <2>1 DEF Statuses, StatusOf, StatusKinds
<1>2. tool \in Nat
  <2>1. c = 0 \/ c \in DOMAIN es
    BY LastFound
  <2>2. c \in DOMAIN es => es[c].id \in Nat
    <3> HIDE DEF c
    <3>1. c \in DOMAIN es => es[c] \in LogEvent
      OBVIOUS
    <3> QED BY <3>1 DEF LogEvent
  <2> QED BY <2>1, <2>2 DEF NoCall
<1>3. Replayed(es) = [status |-> status, tool |-> tool]
  BY DEF Replayed
<1> HIDE DEF status, tool
<1> QED BY <1>1, <1>2, <1>3 DEF States

\* Replaying a log event by event is what Replayed says at once: the state
\* behind one more event is that event applied to the state before it.
LEMMA ReplayedAppended ==
  ASSUME NEW es \in Seq(LogEvent), NEW ev \in LogEvent
  PROVE  Replayed(Append(es, ev)) = Apply(Replayed(es), ev)
<1> DEFINE a == Append(es, ev)
           s == LastOf(es, StatusKinds)
           c == LastOf(es, {"call"})
           s2 == LastOf(a, StatusKinds)
           c2 == LastOf(a, {"call"})
           closed == \E i \in DOMAIN es : i > c /\ es[i] = Event("result", es[c].id)
           closed2 == \E i \in DOMAIN a : i > c2 /\ a[i] = Event("result", a[c2].id)
           tool == IF c = 0 \/ closed THEN NoCall ELSE es[c].id
           tool2 == IF c2 = 0 \/ closed2 THEN NoCall ELSE a[c2].id
           status == IF s = 0 THEN "idle" ELSE StatusOf(es[s].kind)
           status2 == IF s2 = 0 THEN "idle" ELSE StatusOf(a[s2].kind)
<1>1. /\ a \in Seq(LogEvent) /\ Len(es) \in Nat
      /\ DOMAIN es = 1..Len(es) /\ DOMAIN a = 1..(Len(es) + 1)
      /\ \A i \in 1..Len(es) : a[i] = es[i]
      /\ a[Len(es) + 1] = ev
  BY Appended
<1>2. /\ s2 = IF ev.kind \in StatusKinds THEN Len(es) + 1 ELSE s
      /\ c2 = IF ev.kind \in {"call"} THEN Len(es) + 1 ELSE c
  BY LastAppended
<1>3. /\ s = 0 \/ s \in 1..Len(es)
      /\ c = 0 \/ c \in 1..Len(es)
  BY <1>1, LastFound
<1>4. /\ Replayed(es) = [status |-> status, tool |-> tool]
      /\ Replayed(a) = [status |-> status2, tool |-> tool2]
  BY DEF Replayed
<1>5. status2 = IF ev.kind \in StatusKinds THEN StatusOf(ev.kind) ELSE status
  <2> HIDE DEF s, s2, a
  <2> QED BY <1>1, <1>2, <1>3
<1>6. ev.kind = "call" => tool2 = ev.id
  <2> SUFFICES ASSUME ev.kind = "call" PROVE tool2 = ev.id
    OBVIOUS
  <2> HIDE DEF c, c2, a
  <2>1. c2 = Len(es) + 1 /\ c2 # 0 /\ a[c2] = ev
    BY <1>1, <1>2
  <2>2. ~closed2
    BY <1>1, <2>1
  <2> QED BY <2>1, <2>2
<1>7. ev.kind # "call" =>
        tool2 = IF c # 0 /\ ~closed /\ ev = Event("result", es[c].id) THEN NoCall ELSE tool
  <2> SUFFICES ASSUME ev.kind # "call"
               PROVE  tool2 = IF c # 0 /\ ~closed /\ ev = Event("result", es[c].id)
                                THEN NoCall ELSE tool
    OBVIOUS
  <2> HIDE DEF c, c2, a
  <2>1. c2 = c
    BY <1>2
  <2>2. CASE c = 0
    BY <2>1, <2>2
  <2>3. CASE c \in 1..Len(es)
    <3>1. a[c] = es[c] /\ c # 0
      BY <1>1, <2>3
    <3>2. closed2 <=> closed \/ ev = Event("result", es[c].id)
      <4>1. ASSUME NEW i \in DOMAIN a, i > c2, a[i] = Event("result", a[c2].id)
            PROVE  closed \/ ev = Event("result", es[c].id)
        <5>1. i \in 1..Len(es) \/ i = Len(es) + 1
          BY <1>1
        <5> QED BY <1>1, <2>1, <3>1, <4>1, <5>1
      <4>2. ASSUME NEW i \in DOMAIN es, i > c, es[i] = Event("result", es[c].id)
            PROVE  closed2
        <5>1. i \in DOMAIN a /\ a[i] = es[i]
          BY <1>1
        <5> QED BY <2>1, <3>1, <4>2, <5>1
      <4>3. ASSUME ev = Event("result", es[c].id)
            PROVE  closed2
        <5>1. Len(es) + 1 \in DOMAIN a /\ Len(es) + 1 > c /\ a[Len(es) + 1] = ev
          BY <1>1, <2>3
        <5> QED BY <2>1, <3>1, <4>3, <5>1
      <4> QED BY <4>1, <4>2, <4>3
    <3> HIDE DEF closed, closed2
    <3> QED BY <2>1, <3>1, <3>2
  <2> QED BY <1>3, <2>2, <2>3
<1> HIDE DEF tool2, status2, status, closed
<1>8. Apply(Replayed(es), ev).status = status2
  BY <1>4, <1>5 DEF Apply
<1>9. Apply(Replayed(es), ev).tool = tool2
  <2>1. ev = [kind |-> ev.kind, id |-> ev.id]
    BY DEF LogEvent
  <2> HIDE DEF c
  <2>2. CASE ev.kind = "call"
    BY <1>4, <1>6, <2>2 DEF Apply
  <2>3. CASE ev.kind = "result"
    <3>1. ev = Event("result", es[c].id) <=> ev.id = es[c].id
      BY <2>1, <2>3 DEF Event
    <3>2. Apply(Replayed(es), ev).tool = IF tool = ev.id THEN NoCall ELSE tool
      <4> HIDE DEF tool
      <4> QED BY <1>4, <2>3 DEF Apply
    <3> QED BY <1>7, <2>3, <3>1, <3>2
  <2>4. CASE ev.kind \notin {"call", "result"}
    <3>1. ev # Event("result", es[c].id)
      BY <2>4 DEF Event
    <3>2. Apply(Replayed(es), ev).tool = tool
      <4> HIDE DEF tool
      <4> QED BY <1>4, <2>4 DEF Apply
    <3> QED BY <1>7, <2>4, <3>1, <3>2
  <2> QED BY <2>2, <2>3, <2>4
<1>10. Apply(Replayed(es), ev) = [status |-> status2, tool |-> tool2]
  BY <1>8, <1>9 DEF Apply
<1> QED BY <1>4, <1>10 DEF a

-----------------------------------------------------------------------------
(* The inductive invariant.                                                 *)

\* The runner's place, its token and its calls.
Control ==
  /\ phase # "up" => pc = "waiting"
  /\ (pc \in {"waiting", "received"}) <=> (token = "none")
  /\ pc = "executing" => answered < Len(uses)
  /\ Len(eventsDisk) <= LogCap

\* What the watchers are shown of the runner, while no event has been dropped.
ShowsRun ==
  phase = "up" /\ Len(events) < LogCap =>
    /\ (state.status = "working") <=> (pc \notin {"waiting", "received", "begun", "ending"})
    /\ state.tool = IF pc = "executing" THEN uses[answered + 1] ELSE NoCall

\* Log, file and state say the same.
Agrees ==
  /\ phase \in {"up", "half"} => eventsDisk = events
  /\ phase # "down" /\ Len(events) < LogCap => state = Replayed(events)

\* What a file says that nobody writes to: no tool is shown without a run, and
\* a run that was active is shown, or has been closed by an earlier boot.
AtRest(st) == /\ st.status # "working" => st.tool = NoCall
              /\ wasActive => st.status \in {"working", "interrupted"}

FileAtRest == phase # "up" /\ Len(eventsDisk) < LogCap => AtRest(Replayed(eventsDisk))

\* A boot shows no run and no tool, and interrupts a run that was active.
BootAtRest ==
  phase \in {"restored", "half"} /\ Len(events) < LogCap =>
    /\ state.status # "working" /\ state.tool = NoCall
    /\ wasActive => state.status = "interrupted"

RunInv == TypeOK /\ Control /\ ShowsRun /\ Agrees /\ FileAtRest /\ BootAtRest

-----------------------------------------------------------------------------
(* Types.                                                                   *)

LEMMA NewestType ==
  ASSUME NEW es \in Seq(LogEvent)
  PROVE  /\ Newest(es) \in Seq(LogEvent) /\ Len(Newest(es)) <= LogCap
         /\ Len(Newest(es)) < LogCap => Newest(es) = es
<1>1. CASE Len(es) <= LogCap
  BY <1>1 DEF Newest
<1>2. CASE ~(Len(es) <= LogCap)
  <2>1. Len(es) \in Nat /\ Len(es) - LogCap + 1 \in 1..Len(es)
    BY <1>2
  <2>2. /\ SubSeq(es, Len(es) - LogCap + 1, Len(es)) \in Seq(LogEvent)
        /\ Len(SubSeq(es, Len(es) - LogCap + 1, Len(es))) = LogCap
    BY <2>1, SubSeqProperties
  <2>3. Newest(es) = SubSeq(es, Len(es) - LogCap + 1, Len(es))
    BY <1>2 DEF Newest
  <2> QED BY <2>2, <2>3
<1> QED BY <1>1, <1>2

LEMMA EventType ==
  ASSUME NEW kind \in Kinds, NEW id \in Nat
  PROVE  Event(kind, id) \in LogEvent
BY DEF Event, LogEvent

\* What an emit leaves: one event more, or a full log.
LEMMA EmitFacts ==
  ASSUME TypeOK, NEW kind \in Kinds, NEW id \in Nat, Emit(kind, id)
  PROVE  /\ events' \in Seq(LogEvent) /\ eventsDisk' \in Seq(LogEvent)
         /\ Len(events') <= LogCap /\ Len(eventsDisk') <= LogCap
         /\ state' = Apply(state, Event(kind, id)) /\ state' \in States
         /\ eventsDisk = events => eventsDisk' = events'
         /\ Len(events') < LogCap =>
              Len(events) < LogCap /\ events' = Append(events, Event(kind, id))
<1> DEFINE ev == Event(kind, id)
<1>1. /\ events \in Seq(LogEvent) /\ eventsDisk \in Seq(LogEvent) /\ state \in States
      /\ ev \in LogEvent
  BY EventType DEF TypeOK, States, Statuses
<1>2. /\ events' = Newest(Append(events, ev)) /\ eventsDisk' = Newest(Append(eventsDisk, ev))
      /\ state' = Apply(state, ev)
  BY DEF Emit
<1> HIDE DEF ev
<1>3. /\ Append(events, ev) \in Seq(LogEvent) /\ Append(eventsDisk, ev) \in Seq(LogEvent)
      /\ Len(Append(events, ev)) = Len(events) + 1 /\ Len(events) \in Nat
  BY <1>1, Appended
<1>4. Len(events') < LogCap => Len(events) < LogCap /\ events' = Append(events, ev)
  <2>1. Len(events') < LogCap => events' = Append(events, ev)
    BY <1>2, <1>3, NewestType
  <2> QED BY <1>3, <2>1
<1> QED BY <1>1, <1>2, <1>3, <1>4, NewestType, ApplyType DEF ev

LEMMA CapHistoryType ==
  ASSUME NEW h \in Seq(Message)
  PROVE  CapHistory(h) \in Seq(Message)
<1>1. CASE Len(h) <= HistCap
  BY <1>1 DEF CapHistory
<1>2. CASE ~(Len(h) <= HistCap)
  <2> DEFINE starts == {i \in (Len(h) - HistCap + 2)..Len(h) : h[i].role = "user"}
             first == CHOOSE i \in starts : \A j \in starts : i <= j
  <2>0. /\ CapHistory(h) = IF starts = {} THEN <<>> ELSE SubSeq(h, first, Len(h))
        /\ Len(h) \in Nat
    BY <1>2 DEF CapHistory
  <2>1. starts \in SUBSET Nat /\ starts \in SUBSET (1..Len(h))
    BY <1>2, <2>0
  <2>2. CASE starts = {}
    BY <2>0, <2>2
  <2>3. CASE starts # {}
    <3>1. \E i \in starts : \A j \in starts : i <= j
      BY <2>1, <2>3, Smallest
    <3>2. first \in starts
      BY <3>1
    <3> HIDE DEF first
    <3>3. first \in 1..Len(h)
      BY <2>1, <3>2
    <3>4. SubSeq(h, first, Len(h)) \in Seq(Message)
      BY <2>0, <3>3, SubSeqProperties
    <3> QED BY <2>0, <2>3, <3>4
  <2> QED BY <2>2, <2>3
<1> QED BY <1>1, <1>2

LEMMA PushType ==
  ASSUME TypeOK, NEW msg \in Message, Push(msg)
  PROVE  history' \in Seq(Message) /\ historyDisk' \in Seq(Message)
BY AppendProperties DEF TypeOK, Push

\* TypeOK in the parts that the steps disturb one at a time.
PlacesOK == /\ phase \in {"up", "down", "restored", "half"}
            /\ token \in {"none", "live", "cancelled"}
            /\ pc \in Places
CountsOK == /\ queued \in 0..QueueCap /\ turn \in 0..TurnLimit
            /\ nextId \in Nat /\ submitted \in Nat /\ crashes \in Nat
FlagsOK == interrupted \in BOOLEAN /\ wasActive \in BOOLEAN /\ tornBoot \in BOOLEAN
CallsOK == uses \in Seq(Nat) /\ answered \in 0..Len(uses)
LogsOK == /\ events \in Seq(LogEvent) /\ eventsDisk \in Seq(LogEvent)
          /\ Len(events) <= LogCap /\ state \in States
HistOK == history \in Seq(Message) /\ historyDisk \in Seq(Message)

LEMMA TypeParts ==
  /\ TypeOK <=> PlacesOK /\ CountsOK /\ FlagsOK /\ CallsOK /\ LogsOK /\ HistOK
  /\ TypeOK' <=> PlacesOK' /\ CountsOK' /\ FlagsOK' /\ CallsOK' /\ LogsOK' /\ HistOK'
<1> DEFINE P == LogEvent
           Q == Message
           R == Places
<1>1. States = [status : {"idle", "working", "interrupted"}, tool : Nat]
  BY DEF States, Statuses
<1>2. TypeOK <=> PlacesOK /\ CountsOK /\ FlagsOK /\ CallsOK /\ LogsOK /\ HistOK
  BY <1>1, Zenon DEF TypeOK, PlacesOK, CountsOK, FlagsOK, CallsOK, LogsOK, HistOK
<1>3. TypeOK' <=> PlacesOK' /\ CountsOK' /\ FlagsOK' /\ CallsOK' /\ LogsOK' /\ HistOK'
  BY <1>1, Zenon DEF TypeOK, PlacesOK, CountsOK, FlagsOK, CallsOK, LogsOK, HistOK
<1> QED BY <1>2, <1>3

LEMMA TypeInit == Init => TypeOK
<1> SUFFICES ASSUME Init PROVE TypeOK
  OBVIOUS
<1>1. /\ <<>> \in Seq(Nat) /\ <<>> \in Seq(LogEvent) /\ <<>> \in Seq(Message)
      /\ Len(<<>>) = 0
  OBVIOUS
<1>2. PlacesOK
  BY DEF Init, PlacesOK, Places
<1>3. CountsOK
  BY DEF Init, CountsOK
<1>4. FlagsOK
  BY DEF Init, FlagsOK
<1>5. CallsOK /\ HistOK
  BY <1>1 DEF Init, CallsOK, HistOK
<1>6. LogsOK
  BY <1>1 DEF Init, LogsOK, States, Statuses, NoCall
<1> QED BY <1>2, <1>3, <1>4, <1>5, <1>6, TypeParts

LEMMA PlacesStep ==
  ASSUME PlacesOK, [Next]_vars
  PROVE  PlacesOK'
<1> USE DEF At, Goto, Frame, runVars, ghostVars, countVars, PlacesOK, Places
<1>1. CASE OwnStep
  BY <1>1 DEF OwnStep, Receive, BeginRun, EmitInstruction, EmitWorking, PushInstruction, StartTurn,
     OutOfTurns, AskCancelled, CallTool, ToolCancelled, PushInterrupted, PushResults,
     ReportLimit, TellInterrupted, EmitOutcome, EndRun
<1>2. CASE Answer
  BY <1>2 DEF Answer, ProviderFails, FinalAnswer, ToolUses, ToolReturns
<1>3. CASE Submit \/ Interrupt \/ Crash
  BY <1>3 DEF Submit, Interrupt, Crash
<1>4. CASE Boot
  BY <1>4 DEF Boot, Restore, SaveEvents, SaveHistory
<1>5. CASE UNCHANGED vars
  BY <1>5 DEF vars
<1> QED BY <1>1, <1>2, <1>3, <1>4, <1>5 DEF Next

LEMMA CountsStep ==
  ASSUME CountsOK, [Next]_vars
  PROVE  CountsOK'
<1> USE DEF At, Goto, Frame, runVars, ghostVars, countVars, CountsOK
<1>1. CASE OwnStep
  <2>1. CASE StartTurn
    BY <2>1 DEF StartTurn
  <2>2. CASE BeginRun
    BY <2>2 DEF BeginRun
  <2>3. CASE Receive
    BY <2>3 DEF Receive
  <2>4. CASE \/ EmitInstruction \/ EmitWorking \/ PushInstruction \/ OutOfTurns \/ AskCancelled
             \/ CallTool \/ ToolCancelled \/ PushInterrupted \/ PushResults \/ ReportLimit
             \/ TellInterrupted \/ EmitOutcome \/ EndRun
    BY <2>4 DEF EmitInstruction, EmitWorking, PushInstruction, OutOfTurns, AskCancelled,
       CallTool, ToolCancelled, PushInterrupted, PushResults, ReportLimit, TellInterrupted,
       EmitOutcome, EndRun
  <2> QED BY <1>1, <2>1, <2>2, <2>3, <2>4 DEF OwnStep
<1>2. CASE Answer
  <2>1. CASE ProviderFails
    BY <2>1 DEF ProviderFails
  <2>2. CASE FinalAnswer
    BY <2>2 DEF FinalAnswer
  <2>3. CASE ToolUses
    BY <2>3 DEF ToolUses
  <2>4. CASE ToolReturns
    BY <2>4 DEF ToolReturns
  <2> QED BY <1>2, <2>1, <2>2, <2>3, <2>4 DEF Answer
<1>3. CASE Submit \/ Interrupt \/ Crash
  BY <1>3 DEF Submit, Interrupt, Crash
<1>4. CASE Boot
  BY <1>4 DEF Boot, Restore, SaveEvents, SaveHistory
<1>5. CASE UNCHANGED vars
  BY <1>5 DEF vars
<1> QED BY <1>1, <1>2, <1>3, <1>4, <1>5 DEF Next

LEMMA FlagsStep ==
  ASSUME FlagsOK, [Next]_vars
  PROVE  FlagsOK'
<1> USE DEF At, Goto, Frame, runVars, ghostVars, countVars, FlagsOK
<1>1. CASE OwnStep
  BY <1>1 DEF OwnStep, Receive, BeginRun, EmitInstruction, EmitWorking, PushInstruction, StartTurn,
     OutOfTurns, AskCancelled, CallTool, ToolCancelled, PushInterrupted, PushResults,
     ReportLimit, TellInterrupted, EmitOutcome, EndRun
<1>2. CASE Answer
  BY <1>2 DEF Answer, ProviderFails, FinalAnswer, ToolUses, ToolReturns
<1>3. CASE Submit \/ Interrupt \/ Crash
  BY <1>3 DEF Submit, Interrupt, Crash
<1>4. CASE Boot
  BY <1>4 DEF Boot, Restore, SaveEvents, SaveHistory
<1>5. CASE UNCHANGED vars
  BY <1>5 DEF vars
<1> QED BY <1>1, <1>2, <1>3, <1>4, <1>5 DEF Next

LEMMA CallsStep ==
  ASSUME CallsOK, CountsOK, Control, [Next]_vars
  PROVE  CallsOK'
<1> USE DEF Goto, Frame, runVars
<1>1. CASE \/ Receive \/ EmitInstruction \/ EmitWorking \/ PushInstruction \/ StartTurn
           \/ OutOfTurns \/ AskCancelled \/ CallTool \/ ToolCancelled \/ PushInterrupted
           \/ PushResults \/ ReportLimit \/ TellInterrupted \/ EmitOutcome \/ EndRun
           \/ ProviderFails \/ FinalAnswer \/ Submit \/ Interrupt \/ Boot \/ UNCHANGED vars
  <2>1. UNCHANGED <<uses, answered>>
    BY <1>1 DEF Receive, EmitInstruction, EmitWorking, PushInstruction, StartTurn, OutOfTurns,
       AskCancelled, CallTool, ToolCancelled, PushInterrupted, PushResults, ReportLimit,
       TellInterrupted, EmitOutcome, EndRun, ProviderFails, FinalAnswer, Submit, Interrupt,
       Boot, Restore, SaveEvents, SaveHistory, vars
  <2> QED BY <2>1 DEF CallsOK
<1>2. CASE BeginRun \/ Crash
  <2>1. uses' = <<>> /\ answered' = 0
    BY <1>2 DEF BeginRun, Crash
  <2> QED BY <2>1 DEF CallsOK
<1>3. CASE ToolUses
  <2>1. PICK n \in 1..MaxUses : uses' = [i \in 1..n |-> nextId + i]
    BY <1>3 DEF ToolUses
  <2>2. nextId \in Nat /\ answered' = 0
    BY <1>3 DEF ToolUses, CountsOK
  <2>3. uses' \in Seq(Nat) /\ Len(uses') \in Nat
    BY <2>1, <2>2
  <2> QED BY <2>2, <2>3 DEF CallsOK
<1>4. CASE ToolReturns
  <2>1. uses' = uses /\ answered' = answered + 1 /\ answered < Len(uses)
    BY <1>4 DEF ToolReturns, At, Control
  <2> QED BY <2>1 DEF CallsOK
<1> QED BY <1>1, <1>2, <1>3, <1>4 DEF Next, OwnStep, Answer

\* What a step does to the log, the file and the state.
LEMMA LogSteps ==
  ASSUME CallsOK, Control, PlacesOK, [Next]_vars
  PROVE  \/ UNCHANGED logVars
         \/ \E kind \in Kinds, id \in Nat : Emit(kind, id)
         \/ Crash \/ Restore \/ SaveEvents
<1>1. CASE \/ Receive \/ BeginRun \/ PushInstruction \/ StartTurn \/ OutOfTurns \/ AskCancelled
           \/ PushInterrupted \/ PushResults \/ EndRun \/ FinalAnswer \/ ToolUses \/ Interrupt
           \/ SaveHistory \/ UNCHANGED vars
  BY <1>1 DEF Receive, BeginRun, PushInstruction, StartTurn, OutOfTurns, AskCancelled,
     PushInterrupted, PushResults, EndRun, FinalAnswer, ToolUses, Interrupt, SaveHistory, vars
<1>2. CASE CallTool \/ ToolReturns \/ ToolCancelled
  <2>0. answered < Len(uses)
    BY <1>2 DEF CallTool, ToolReturns, ToolCancelled, At, Control
  <2>1. answered + 1 \in 1..Len(uses)
    BY <2>0 DEF CallsOK
  <2>2. uses[answered + 1] \in Nat
    BY <2>1 DEF CallsOK
  <2>3. \E kind \in Kinds : Emit(kind, uses[answered + 1])
    BY <1>2 DEF CallTool, ToolReturns, ToolCancelled, Kinds
  <2> QED BY <2>2, <2>3
<1>3. CASE \/ EmitInstruction \/ EmitWorking \/ ProviderFails \/ ReportLimit
           \/ TellInterrupted \/ EmitOutcome \/ Submit
  <2>1. UNCHANGED logVars \/ \E kind \in Kinds : Emit(kind, NoCall)
    BY <1>3 DEF EmitInstruction, EmitWorking, ProviderFails, ReportLimit, TellInterrupted,
       EmitOutcome, Submit, Kinds, StatusKinds
  <2> QED BY <2>1 DEF NoCall
<1> QED BY <1>1, <1>2, <1>3 DEF Next, OwnStep, Answer, Boot

\* What restore makes of the file.
LEMMA RestoreFacts ==
  ASSUME LogsOK, Control, Restore
  PROVE  /\ events' \in Seq(LogEvent) /\ Len(events') <= LogCap
         /\ state' \in States /\ eventsDisk' = eventsDisk
         /\ Closing(Replayed(eventsDisk)) \in Seq(LogEvent)
<1> DEFINE st == Replayed(eventsDisk)
<1>1. eventsDisk \in Seq(LogEvent) /\ st \in States /\ Len(eventsDisk) <= LogCap
  BY ReplayedType DEF LogsOK, Control
<1>2. Closing(st) \in Seq(LogEvent)
  <2>1. /\ Event("interrupted", NoCall) \in LogEvent
        /\ Event("result", st.tool) \in LogEvent
    BY <1>1, EventType DEF NoCall, Kinds, StatusKinds, States
  <2> HIDE DEF st
  <2> QED BY <2>1 DEF Closing
<1>3. /\ \/ events' = eventsDisk
         \/ events' = Newest(eventsDisk \o Closing(st))
      /\ state' = st \/ state' = [status |-> "interrupted", tool |-> NoCall]
      /\ eventsDisk' = eventsDisk
  BY DEF Restore
<1> HIDE DEF st
<1>4. events' \in Seq(LogEvent) /\ Len(events') <= LogCap
  <2>1. eventsDisk \o Closing(st) \in Seq(LogEvent)
    BY <1>1, <1>2
  <2> QED BY <1>1, <1>3, <2>1, NewestType
<1>5. state' \in States
  BY <1>1, <1>3 DEF States, Statuses, NoCall
<1> QED BY <1>2, <1>3, <1>4, <1>5 DEF st

LEMMA LogsStep ==
  ASSUME TypeOK, Control, [Next]_vars
  PROVE  LogsOK' /\ Len(eventsDisk') <= LogCap
<1>1. LogsOK /\ CallsOK /\ PlacesOK /\ Len(eventsDisk) <= LogCap
  BY TypeParts DEF Control
<1>2. CASE UNCHANGED logVars
  BY <1>1, <1>2 DEF LogsOK, logVars
<1>3. CASE \E kind \in Kinds, id \in Nat : Emit(kind, id)
  BY <1>3, EmitFacts DEF LogsOK
<1>4. CASE Crash
  <2>1. /\ events' = <<>> /\ eventsDisk' = eventsDisk
        /\ state' = [status |-> "idle", tool |-> NoCall]
    BY <1>4 DEF Crash
  <2> QED BY <1>1, <2>1 DEF LogsOK, States, Statuses, NoCall
<1>5. CASE Restore
  BY <1>1, <1>5, RestoreFacts DEF LogsOK
<1>6. CASE SaveEvents
  BY <1>1, <1>6 DEF SaveEvents, LogsOK
<1> QED BY <1>1, <1>2, <1>3, <1>4, <1>5, <1>6, LogSteps

LEMMA HistStep ==
  ASSUME HistOK, CallsOK', [Next]_vars, CallsOK
  PROVE  HistOK'
<1>1. \/ UNCHANGED histVars
      \/ \E msg \in Message : Push(msg)
      \/ EndRun \/ Crash \/ Restore \/ SaveHistory
  <2>1. /\ \A text \in BOOLEAN : UserText(text) \in Message /\ Assistant(<<>>, text) \in Message
        /\ Results(uses) \in Message /\ Assistant(uses', FALSE) \in Message
    BY DEF UserText, Assistant, Results, Message, CallsOK
  <2>2. CASE PushInstruction \/ FinalAnswer \/ PushInterrupted \/ PushResults \/ ToolUses
    <3>1. \/ \E text \in BOOLEAN : Push(UserText(text)) \/ Push(Assistant(<<>>, text))
          \/ Push(Results(uses)) \/ Push(Assistant(uses', FALSE))
      BY <2>2 DEF PushInstruction, FinalAnswer, PushInterrupted, PushResults, ToolUses
    <3> QED BY <2>1, <3>1
  <2>3. CASE \/ Receive \/ BeginRun \/ EmitInstruction \/ EmitWorking \/ StartTurn \/ OutOfTurns
             \/ AskCancelled \/ CallTool \/ ToolCancelled \/ ReportLimit \/ TellInterrupted
             \/ EmitOutcome \/ ProviderFails \/ ToolReturns \/ Submit \/ Interrupt
             \/ SaveEvents \/ UNCHANGED vars
    BY <2>3 DEF Receive, BeginRun, EmitInstruction, EmitWorking, StartTurn, OutOfTurns,
       AskCancelled, CallTool, ToolCancelled, ReportLimit, TellInterrupted, EmitOutcome,
       ProviderFails, ToolReturns, Submit, Interrupt, SaveEvents, vars
  <2> QED BY <2>2, <2>3 DEF Next, OwnStep, Answer, Boot
<1>2. CASE UNCHANGED histVars
  BY <1>2 DEF HistOK, histVars
<1>3. CASE \E msg \in Message : Push(msg)
  BY <1>3, AppendProperties DEF Push, HistOK
<1>4. CASE EndRun
  BY <1>4, CapHistoryType DEF EndRun, HistOK
<1>5. CASE Crash
  BY <1>5 DEF Crash, HistOK
<1>6. CASE Restore
  <2>1. history' = historyDisk \/ history' = historyDisk \o Unresolved(historyDisk)
    BY <1>6 DEF Restore
  <2>2. Unresolved(historyDisk) \in Seq(Message)
    <3>1. CASE historyDisk # <<>>
      <4>1. historyDisk[Len(historyDisk)] \in Message
        BY <3>1 DEF HistOK
      <4>2. Results(historyDisk[Len(historyDisk)].ids) \in Message
        BY <4>1 DEF Results, Message
      <4> QED BY <4>2 DEF Unresolved
    <3>2. CASE historyDisk = <<>>
      BY <3>2 DEF Unresolved
    <3> QED BY <3>1, <3>2
  <2>3. historyDisk' = historyDisk
    BY <1>6 DEF Restore
  <2>4. historyDisk \o Unresolved(historyDisk) \in Seq(Message)
    BY <2>2, ConcatProperties DEF HistOK
  <2> QED BY <2>1, <2>3, <2>4 DEF HistOK
<1>7. CASE SaveHistory
  BY <1>7 DEF SaveHistory, HistOK
<1> QED BY <1>1, <1>2, <1>3, <1>4, <1>5, <1>6, <1>7

LEMMA TypeStep ==
  ASSUME TypeOK, Control, [Next]_vars
  PROVE  TypeOK'
<1>1. PlacesOK /\ CountsOK /\ FlagsOK /\ CallsOK /\ LogsOK /\ HistOK
  BY TypeParts
<1>2. PlacesOK' /\ CountsOK' /\ FlagsOK' /\ CallsOK'
  BY <1>1, PlacesStep, CountsStep, FlagsStep, CallsStep
<1>3. LogsOK' /\ HistOK'
  BY <1>1, <1>2, LogsStep, HistStep
<1> QED BY <1>2, <1>3, TypeParts

-----------------------------------------------------------------------------
(* The steps preserve the rest of the invariant.                            *)

LEMMA ControlStep ==
  ASSUME TypeOK, Control, [Next]_vars
  PROVE  Control'
<1> USE DEF At, Goto, Frame, runVars, Places
<1>1. phase' # "up" => pc' = "waiting"
  <2>1. CASE OwnStep \/ Answer \/ Submit \/ Interrupt
    <3>1. phase' = phase /\ (phase = "up" \/ pc' = pc)
      BY <2>1 DEF OwnStep, Receive, BeginRun, EmitInstruction, EmitWorking, PushInstruction,
         StartTurn, OutOfTurns, AskCancelled, CallTool, ToolCancelled, PushInterrupted,
         PushResults, ReportLimit, TellInterrupted, EmitOutcome, EndRun, Answer, ProviderFails,
         FinalAnswer, ToolUses, ToolReturns, Submit, Interrupt
    <3> QED BY <3>1 DEF Control
  <2>2. CASE Crash \/ Boot \/ UNCHANGED vars
    BY <2>2 DEF Crash, Boot, Restore, SaveEvents, SaveHistory, vars, Control
  <2> QED BY <2>1, <2>2 DEF Next
<1>2. (pc' \in {"waiting", "received"}) <=> (token' = "none")
  <2>0. (pc \in {"waiting", "received"}) <=> (token = "none")
    BY DEF Control
  <2>1. CASE OwnStep
    BY <2>0, <2>1 DEF OwnStep, Receive, BeginRun, EmitInstruction, EmitWorking, PushInstruction,
       StartTurn, OutOfTurns, AskCancelled, CallTool, ToolCancelled, PushInterrupted,
       PushResults, ReportLimit, TellInterrupted, EmitOutcome, EndRun
  <2>2. CASE Answer
    BY <2>0, <2>2 DEF Answer, ProviderFails, FinalAnswer, ToolUses, ToolReturns
  <2>3. CASE Submit \/ Interrupt \/ Crash \/ Boot \/ UNCHANGED vars
    BY <2>0, <2>3 DEF Submit, Interrupt, Crash, Boot, Restore, SaveEvents, SaveHistory, vars
  <2> QED BY <2>1, <2>2, <2>3 DEF Next
<1>3. pc' = "executing" => answered' < Len(uses')
  <2>0. pc = "executing" => answered < Len(uses)
    BY DEF Control
  <2>1. CASE OwnStep
    BY <2>0, <2>1 DEF OwnStep, Receive, BeginRun, EmitInstruction, EmitWorking, PushInstruction,
       StartTurn, OutOfTurns, AskCancelled, CallTool, ToolCancelled, PushInterrupted,
       PushResults, ReportLimit, TellInterrupted, EmitOutcome, EndRun
  <2>2. CASE Answer
    BY <2>0, <2>2 DEF Answer, ProviderFails, FinalAnswer, ToolUses, ToolReturns
  <2>3. CASE Submit \/ Interrupt \/ Crash \/ Boot \/ UNCHANGED vars
    BY <2>0, <2>3 DEF Submit, Interrupt, Crash, Boot, Restore, SaveEvents, SaveHistory, vars
  <2> QED BY <2>1, <2>2, <2>3 DEF Next
<1>4. Len(eventsDisk') <= LogCap
  BY LogsStep
<1> QED BY <1>1, <1>2, <1>3, <1>4 DEF Control

\* The run is shown by what it emits: the status from the announcement to the
\* outcome, the tool from the call to its result.
LEMMA EmitShows ==
  ASSUME TypeOK, ShowsRun, phase = "up",
         NEW kind \in Kinds, NEW id \in Nat, Emit(kind, id), Len(events') < LogCap
  PROVE  /\ (state.status = "working") <=> (pc \notin {"waiting", "received", "begun", "ending"})
         /\ state.tool = IF pc = "executing" THEN uses[answered + 1] ELSE NoCall
         /\ state'.status = IF kind \in StatusKinds THEN StatusOf(kind) ELSE state.status
         /\ state'.tool = CASE kind = "call" -> id
                            [] kind = "result" /\ state.tool = id -> NoCall
                            [] OTHER -> state.tool
<1>1. Len(events) < LogCap /\ state' = Apply(state, Event(kind, id))
  BY EmitFacts
<1>2. Event(kind, id).kind = kind /\ Event(kind, id).id = id
  BY DEF Event
<1>3. /\ state'.status = IF kind \in StatusKinds THEN StatusOf(kind) ELSE state.status
      /\ state'.tool = CASE kind = "call" -> id
                         [] kind = "result" /\ state.tool = id -> NoCall
                         [] OTHER -> state.tool
  BY <1>1, <1>2 DEF Apply
<1> QED BY <1>1, <1>3 DEF ShowsRun

\* An emit keeps log, file and state in agreement.
LEMMA EmitAgrees ==
  ASSUME TypeOK, Agrees, phase = "up", phase' = phase,
         NEW kind \in Kinds, NEW id \in Nat, Emit(kind, id)
  PROVE  Agrees' /\ FileAtRest' /\ BootAtRest'
<1> DEFINE ev == Event(kind, id)
<1>1. /\ events \in Seq(LogEvent) /\ ev \in LogEvent
      /\ eventsDisk' = events' /\ state' = Apply(state, ev)
      /\ Len(events') < LogCap => Len(events) < LogCap /\ events' = Append(events, ev)
  BY EmitFacts, EventType DEF TypeOK, Agrees
<1> HIDE DEF ev
<1>2. Len(events') < LogCap => state' = Replayed(events')
  <2> SUFFICES ASSUME Len(events') < LogCap PROVE state' = Replayed(events')
    OBVIOUS
  <2>1. state = Replayed(events)
    BY <1>1 DEF Agrees
  <2>2. Replayed(Append(events, ev)) = Apply(Replayed(events), ev)
    BY <1>1, ReplayedAppended
  <2> QED BY <1>1, <2>1, <2>2
<1> QED BY <1>1, <1>2 DEF Agrees, FileAtRest, BootAtRest

\* A run that restore closes is closed on replay as well.
LEMMA RestoreAgrees ==
  ASSUME NEW es \in Seq(LogEvent), Replayed(es).status = "working"
  PROVE  Replayed(es \o Closing(Replayed(es))) = [status |-> "interrupted", tool |-> NoCall]
<1> DEFINE st == Replayed(es)
           fin == Event("interrupted", NoCall)
           res == Event("result", st.tool)
<1>1. st \in States /\ fin \in LogEvent /\ res \in LogEvent
  BY ReplayedType, EventType DEF States, Kinds, StatusKinds, NoCall
<1>2. fin.kind = "interrupted" /\ res.kind = "result" /\ res.id = st.tool
  BY DEF Event
<1>3. Closing(st) = (IF st.tool = NoCall THEN <<>> ELSE <<res>>) \o <<fin>>
  BY DEF Closing
<1> HIDE DEF fin, res
<1>4. CASE st.tool = NoCall
  <2>1. es \o Closing(st) = Append(es, fin)
    <3>1. Closing(st) = <<fin>>
      BY <1>1, <1>3, <1>4
    <3> HIDE DEF st
    <3> QED BY <1>1, <3>1
  <2>2. Replayed(Append(es, fin)) = Apply(st, fin)
    BY <1>1, ReplayedAppended
  <2>3. Apply(st, fin) = [status |-> "interrupted", tool |-> NoCall]
    <3> HIDE DEF st
    <3> QED BY <1>2, <1>4 DEF Apply, StatusKinds, StatusOf
  <2> QED BY <2>1, <2>2, <2>3
<1>5. CASE st.tool # NoCall
  <2>1. es \o Closing(st) = Append(Append(es, res), fin)
    <3>1. Closing(st) = <<res>> \o <<fin>>
      BY <1>3, <1>5
    <3> HIDE DEF st
    <3>2. es \o (<<res>> \o <<fin>>) = (es \o <<res>>) \o <<fin>>
      BY <1>1, ConcatAssociative
    <3>3. es \o <<res>> = Append(es, res)
      BY <1>1
    <3>4. Append(es, res) \o <<fin>> = Append(Append(es, res), fin)
      BY <1>1, Appended
    <3> QED BY <3>1, <3>2, <3>3, <3>4
  <2>2. Append(es, res) \in Seq(LogEvent)
    BY <1>1, Appended
  <2>3. Replayed(Append(Append(es, res), fin)) = Apply(Apply(st, res), fin)
    BY <1>1, <2>2, ReplayedAppended
  <2>4. Apply(Apply(st, res), fin) = [status |-> "interrupted", tool |-> NoCall]
    <3> HIDE DEF st
    <3>1. Apply(st, res).tool = NoCall
      BY <1>2 DEF Apply
    <3> QED BY <1>2, <3>1 DEF Apply, StatusKinds, StatusOf
  <2> QED BY <2>1, <2>3, <2>4
<1> QED BY <1>4, <1>5

LEMMA ShowsStep ==
  ASSUME RunInv, Control', [Next]_vars
  PROVE  ShowsRun'
<1> SUFFICES ASSUME phase' = "up", Len(events') < LogCap
             PROVE  /\ (state'.status = "working")
                          <=> (pc' \notin {"waiting", "received", "begun", "ending"})
                    /\ state'.tool = IF pc' = "executing" THEN uses'[answered' + 1] ELSE NoCall
  BY DEF ShowsRun
<1> DEFINE Hidden == {"waiting", "received", "begun", "ending"}
<1>0. TypeOK /\ ShowsRun /\ CallsOK /\ Control /\ Kinds # {}
  BY TypeParts DEF RunInv, Kinds
<1>1. CASE /\ UNCHANGED logVars /\ UNCHANGED phase
           /\ pc # "executing" /\ pc' # "executing" /\ (pc \in Hidden <=> pc' \in Hidden)
  BY <1>0, <1>1 DEF ShowsRun, logVars
<1>2. CASE UNCHANGED <<logVars, phase, pc, uses, answered>>
  BY <1>0, <1>2 DEF ShowsRun, logVars
<1>3. CASE \/ Receive \/ BeginRun \/ PushInstruction \/ StartTurn \/ OutOfTurns \/ AskCancelled
           \/ PushInterrupted \/ PushResults \/ EndRun \/ FinalAnswer \/ ToolUses
  <2>1. /\ UNCHANGED logVars /\ UNCHANGED phase
        /\ pc # "executing" /\ pc' # "executing" /\ (pc \in Hidden <=> pc' \in Hidden)
    BY <1>3 DEF Receive, BeginRun, PushInstruction, StartTurn, OutOfTurns, AskCancelled,
       PushInterrupted, PushResults, EndRun, FinalAnswer, ToolUses, At, Goto, Frame
  <2> QED BY <1>1, <2>1
<1>4. CASE Interrupt \/ UNCHANGED vars
  <2>1. UNCHANGED <<logVars, phase, pc, uses, answered>>
    BY <1>4 DEF Interrupt, vars, runVars
  <2> QED BY <1>2, <2>1
<1>5. CASE EmitInstruction \/ EmitWorking \/ ProviderFails
  <2>1. /\ Emit("instruction", NoCall) \/ Emit("working", NoCall)
           \/ (Emit("error", NoCall) /\ pc = "asking")
        /\ pc \in {"begun", "announced", "asking"} /\ pc' \in {"announced", "working", "limit"}
        /\ phase = "up"
    BY <1>5 DEF EmitInstruction, EmitWorking, ProviderFails, At, Goto
  <2> QED BY <1>0, <2>1, EmitShows DEF Kinds, StatusKinds, StatusOf, NoCall
<1>6. CASE CallTool \/ ToolReturns \/ ToolCancelled
  <2>0. answered < Len(uses) /\ uses' = uses /\ phase = "up" /\ UNCHANGED phase
    BY <1>0, <1>6 DEF CallTool, ToolReturns, ToolCancelled, At, Control, Frame
  <2>1. answered + 1 \in 1..Len(uses) /\ uses[answered + 1] \in Nat
    BY <1>0, <2>0 DEF CallsOK
  <2>2. CASE CallTool
    <3>1. /\ Emit("call", uses[answered + 1]) /\ pc = "calling" /\ pc' = "executing"
          /\ answered' = answered
      BY <2>2 DEF CallTool, At, Goto
    <3> QED BY <1>0, <2>0, <2>1, <3>1, EmitShows DEF Kinds, StatusKinds
  <2>3. CASE ToolReturns \/ ToolCancelled
    <3>1. /\ Emit("result", uses[answered + 1])
          /\ pc = "executing" /\ pc' \in {"calling", "giving up"}
      BY <2>3 DEF ToolReturns, ToolCancelled, At, Goto
    <3> QED BY <1>0, <2>0, <2>1, <3>1, EmitShows DEF Kinds, StatusKinds
  <2> QED BY <1>6, <2>2, <2>3
<1>7. CASE ReportLimit \/ TellInterrupted
  <2>1. /\ UNCHANGED logVars \/ Emit("error", NoCall) \/ Emit("note", NoCall)
        /\ pc \in {"limit", "telling"} /\ pc' \in {"telling", "closing"}
        /\ phase = "up" /\ UNCHANGED phase
    BY <1>7 DEF ReportLimit, TellInterrupted, At, Goto, Frame
  <2>2. CASE UNCHANGED logVars
    BY <1>1, <2>1, <2>2
  <2>3. CASE Emit("error", NoCall) \/ Emit("note", NoCall)
    BY <1>0, <2>1, <2>3, EmitShows DEF Kinds, StatusKinds, NoCall
  <2> QED BY <2>1, <2>2, <2>3
<1>8. CASE EmitOutcome
  <2>1. /\ Emit("interrupted", NoCall) \/ Emit("idle", NoCall)
        /\ pc = "closing" /\ pc' = "ending" /\ phase = "up"
    BY <1>8 DEF EmitOutcome, At, Goto
  <2> QED BY <1>0, <2>1, EmitShows DEF Kinds, StatusKinds, StatusOf, NoCall
<1>9. CASE Submit
  <2>1. /\ UNCHANGED logVars \/ Emit("error", NoCall)
        /\ phase = "up" /\ UNCHANGED <<phase, pc, uses, answered>>
    BY <1>9 DEF Submit, runVars
  <2>2. CASE UNCHANGED logVars
    BY <1>2, <2>1, <2>2
  <2>3. CASE Emit("error", NoCall)
    BY <1>0, <2>1, <2>3, EmitShows DEF Kinds, StatusKinds, NoCall
  <2> QED BY <2>1, <2>2, <2>3
<1>10. CASE Crash \/ Restore \/ SaveEvents
  BY <1>10 DEF Crash, Restore, SaveEvents
<1>11. CASE SaveHistory
  <2>1. phase = "half" /\ pc = "waiting" /\ UNCHANGED logVars /\ UNCHANGED pc
    BY <1>0, <1>11 DEF SaveHistory, Control, runVars
  <2>2. BootAtRest
    BY DEF RunInv
  <2> QED BY <2>1, <2>2 DEF BootAtRest, logVars
<1> QED BY <1>3, <1>4, <1>5, <1>6, <1>7, <1>8, <1>9, <1>10, <1>11
    DEF Next, OwnStep, Answer, Boot

LEMMA AgreesStep ==
  ASSUME RunInv, [Next]_vars
  PROVE  Agrees' /\ FileAtRest' /\ BootAtRest'
<1>0. /\ TypeOK /\ Control /\ ShowsRun /\ Agrees /\ FileAtRest /\ BootAtRest
      /\ CallsOK /\ PlacesOK /\ LogsOK
  BY TypeParts DEF RunInv
<1>1. CASE Crash
  <2>1. /\ phase' = "down" /\ eventsDisk' = eventsDisk
        /\ wasActive' = IF phase = "up" THEN state.status = "working" ELSE wasActive
    BY <1>1 DEF Crash
  <2>2. FileAtRest'
    <3>1. CASE phase = "up"
      <4> SUFFICES ASSUME Len(eventsDisk) < LogCap
                   PROVE  /\ Replayed(eventsDisk).status # "working"
                                => Replayed(eventsDisk).tool = NoCall
                          /\ wasActive' => Replayed(eventsDisk).status = "working"
        BY <2>1 DEF FileAtRest, AtRest
      <4>1. eventsDisk = events /\ state = Replayed(eventsDisk)
        BY <1>0, <3>1 DEF Agrees
      <4>2. state.status # "working" => state.tool = NoCall
        BY <1>0, <3>1, <4>1 DEF ShowsRun
      <4> QED BY <2>1, <3>1, <4>1, <4>2
    <3>2. CASE phase # "up"
      BY <1>0, <2>1, <3>2 DEF FileAtRest, AtRest
    <3> QED BY <3>1, <3>2
  <2> QED BY <2>1, <2>2 DEF Agrees, BootAtRest
<1>2. CASE Restore
  <2> DEFINE st == Replayed(eventsDisk)
  <2>1. /\ phase = "down" /\ phase' = "restored"
        /\ eventsDisk' = eventsDisk /\ wasActive' = wasActive
        /\ eventsDisk \in Seq(LogEvent) /\ Closing(st) \in Seq(LogEvent)
    BY <1>0, <1>2, RestoreFacts DEF Restore, LogsOK, ghostVars
  <2>2. FileAtRest'
    BY <1>0, <2>1 DEF FileAtRest, AtRest
  <2>3. CASE st.status = "working"
    <3>1. /\ events' = Newest(eventsDisk \o Closing(st))
          /\ state' = [status |-> "interrupted", tool |-> NoCall]
      BY <1>2, <2>3 DEF Restore
    <3>2. eventsDisk \o Closing(st) \in Seq(LogEvent)
      BY <2>1, ConcatProperties
    <3>3. Len(events') < LogCap => events' = eventsDisk \o Closing(st)
      BY <3>1, <3>2, NewestType
    <3>4. Replayed(eventsDisk \o Closing(st)) = state'
      BY <2>1, <2>3, <3>1, RestoreAgrees
    <3>5. Len(events') < LogCap => state' = Replayed(events')
      BY <3>3, <3>4
    <3>6. BootAtRest'
      BY <3>1 DEF BootAtRest
    <3>7. Agrees'
      BY <2>1, <3>5 DEF Agrees
    <3> QED BY <2>2, <3>6, <3>7
  <2>4. CASE st.status # "working"
    <3>1. events' = eventsDisk /\ state' = st
      BY <1>2, <2>4 DEF Restore
    <3>2. Agrees'
      BY <2>1, <3>1 DEF Agrees
    <3>3. Len(eventsDisk) < LogCap => st.tool = NoCall /\ (wasActive => st.status = "interrupted")
      BY <1>0, <2>1, <2>4 DEF FileAtRest, AtRest
    <3>4. BootAtRest'
      BY <2>1, <2>4, <3>1, <3>3 DEF BootAtRest
    <3> QED BY <2>2, <3>2, <3>4
  <2> QED BY <2>3, <2>4
<1>3. CASE SaveEvents
  <2>1. /\ phase = "restored" /\ phase' = "half" /\ eventsDisk' = events
        /\ UNCHANGED <<events, state, wasActive>>
    BY <1>3 DEF SaveEvents, ghostVars
  <2>2. Len(events) < LogCap => state = Replayed(events) /\ state.status # "working"
          /\ state.tool = NoCall /\ (wasActive => state.status = "interrupted")
    BY <1>0, <2>1 DEF Agrees, BootAtRest
  <2> QED BY <2>1, <2>2 DEF Agrees, FileAtRest, BootAtRest, AtRest
<1>4. CASE SaveHistory
  <2>1. /\ phase = "half" /\ phase' = "up" /\ UNCHANGED logVars
    BY <1>4 DEF SaveHistory
  <2> QED BY <1>0, <2>1 DEF Agrees, FileAtRest, BootAtRest, logVars
<1>5. CASE OwnStep \/ Answer \/ Submit \/ Interrupt \/ UNCHANGED vars
  <2>1. UNCHANGED <<phase, wasActive>> /\ (phase = "up" \/ UNCHANGED vars)
    BY <1>5 DEF OwnStep, Receive, BeginRun, EmitInstruction, EmitWorking, PushInstruction,
       StartTurn, OutOfTurns, AskCancelled, CallTool, ToolCancelled, PushInterrupted,
       PushResults, ReportLimit, TellInterrupted, EmitOutcome, EndRun, Answer, ProviderFails,
       FinalAnswer, ToolUses, ToolReturns, Submit, Interrupt, At, Frame, ghostVars, vars
  <2>2. CASE UNCHANGED logVars
    BY <1>0, <2>1, <2>2 DEF Agrees, FileAtRest, BootAtRest, AtRest, logVars
  <2>3. CASE phase = "up" /\ \E kind \in Kinds, id \in Nat : Emit(kind, id)
    BY <1>0, <2>1, <2>3, EmitAgrees
  <2>4. UNCHANGED vars => UNCHANGED logVars
    BY DEF vars
  <2>5. (Crash => phase' # phase) /\ (Restore \/ SaveEvents => phase' # phase)
    BY DEF Crash, Restore, SaveEvents
  <2> QED BY <1>0, <2>1, <2>2, <2>3, <2>4, <2>5, LogSteps
<1> QED BY <1>1, <1>2, <1>3, <1>4, <1>5 DEF Next, Boot

LEMMA RunInit == Init => RunInv
<1> SUFFICES ASSUME Init PROVE RunInv
  OBVIOUS
<1>1. TypeOK
  BY TypeInit
<1>2. Control /\ FileAtRest /\ BootAtRest /\ ShowsRun
  BY DEF Init, Control, FileAtRest, BootAtRest, ShowsRun, NoCall
<1>3. Agrees
  <2>1. LastOf(<<>>, StatusKinds) = 0 /\ LastOf(<<>>, {"call"}) = 0
    BY DEF LastOf
  <2>2. Replayed(<<>>) = [status |-> "idle", tool |-> NoCall]
    BY <2>1 DEF Replayed
  <2> QED BY <2>2 DEF Init, Agrees
<1> QED BY <1>1, <1>2, <1>3 DEF RunInv

LEMMA RunStep == RunInv /\ [Next]_vars => RunInv'
<1> SUFFICES ASSUME RunInv, [Next]_vars PROVE RunInv'
  OBVIOUS
<1>1. TypeOK' /\ Control'
  BY TypeStep, ControlStep DEF RunInv
<1>2. ShowsRun'
  BY <1>1, ShowsStep
<1>3. Agrees' /\ FileAtRest' /\ BootAtRest'
  BY AgreesStep
<1> QED BY <1>1, <1>2, <1>3 DEF RunInv

LEMMA RunInvariant == Spec => []RunInv
BY RunInit, RunStep, PTL DEF Spec

-----------------------------------------------------------------------------
\* Every variable keeps its type; the queue and the in-memory log stay within
\* their capacities (Session::submit_instruction, Session::emit).
THEOREM TypeCorrect == Spec => []TypeOK
<1>1. RunInv => TypeOK
  BY DEF RunInv
<1> QED BY <1>1, RunInvariant, PTL

\* As long as no event has been dropped from the log, the file of a running
\* session replays to the status and the tool that the session shows
\* (Session::emit, Session::restore, enable_persistence).
THEOREM StateReplays == Spec => []StateIsReplay
<1>1. RunInv => StateIsReplay
  BY DEF RunInv, Agrees, StateIsReplay
<1> QED BY <1>1, RunInvariant, PTL

\* As long as no event has been dropped from the log, a session whose runner
\* waits shows neither work nor a tool and holds no token, whatever the run
\* before did and wherever a crash fell (run_instruction, Session::restore).
THEOREM QuietBetweenRuns == Spec => [](Len(events) < LogCap => QuietWhenWaiting)
<1>1. RunInv => (Len(events) < LogCap => QuietWhenWaiting)
  BY DEF RunInv, Control, ShowsRun, QuietWhenWaiting, At
<1> QED BY <1>1, RunInvariant, PTL

\* As long as no event has been dropped from the log, a run that was active
\* when the server died restores as interrupted, also when the boot that
\* restores it is itself cut short by a crash (Session::restore).
THEOREM ActiveRunsAreClosed == Spec => [](Len(events) < LogCap => ActiveRunRestored)
<1>1. RunInv => (Len(events) < LogCap => ActiveRunRestored)
  BY DEF RunInv, BootAtRest, ActiveRunRestored
<1> QED BY <1>1, RunInvariant, PTL

-----------------------------------------------------------------------------
(* Calls and their results.                                                 *)

ResultOf(id) == Event("result", id)

\* The call at position i has one result, and that behind it.
AnsweredOnce(es, i) ==
  \E j \in DOMAIN es :
    /\ i < j /\ es[j] = ResultOf(es[i].id)
    /\ \A k \in DOMAIN es : es[k] = ResultOf(es[i].id) => k = j

\* Every call but the open one is answered once, the open one not at all, and
\* ids behind top are not in use.
Paired(es, open, top) ==
  \A i \in DOMAIN es :
    /\ es[i].kind \in {"call", "result"} => es[i].id \in 1..top
    /\ es[i].kind = "call" /\ es[i].id # open => AnsweredOnce(es, i)
    /\ es[i].kind = "call" /\ es[i].id = open =>
         \A k \in DOMAIN es : es[k] # ResultOf(es[i].id)

LEMMA PairedWider ==
  ASSUME NEW es \in Seq(LogEvent), NEW open, NEW top \in Nat, NEW more \in Nat, top <= more,
         Paired(es, open, top)
  PROVE  Paired(es, open, more)
<1>1. \A n \in 1..top : n \in 1..more
  OBVIOUS
<1> QED BY <1>1 DEF Paired

\* An event that is no result of the call at i leaves that call as it was.
LEMMA AnsweredStays ==
  ASSUME NEW es \in Seq(LogEvent), NEW ev \in LogEvent, NEW i \in DOMAIN es,
         ev # ResultOf(es[i].id), AnsweredOnce(es, i)
  PROVE  AnsweredOnce(Append(es, ev), i)
<1> DEFINE a == Append(es, ev)
           res == ResultOf(es[i].id)
<1>1. /\ Len(es) \in Nat /\ DOMAIN es = 1..Len(es) /\ DOMAIN a = 1..(Len(es) + 1)
      /\ \A n \in 1..Len(es) : a[n] = es[n]
      /\ a[Len(es) + 1] = ev
  BY Appended
<1>2. PICK j \in DOMAIN es : /\ i < j /\ es[j] = res
                             /\ \A k \in DOMAIN es : es[k] = res => k = j
  BY DEF AnsweredOnce
<1> HIDE DEF a, res
<1>3. j \in DOMAIN a /\ a[j] = res /\ i \in DOMAIN a /\ a[i] = es[i]
  BY <1>1, <1>2
<1>4. \A k \in DOMAIN a : a[k] = res => k = j
  <2> SUFFICES ASSUME NEW k \in DOMAIN a, a[k] = res PROVE k = j
    OBVIOUS
  <2>1. k \in DOMAIN es
    BY <1>1 DEF res
  <2> QED BY <1>1, <1>2, <2>1
<1> QED BY <1>2, <1>3, <1>4 DEF AnsweredOnce, a, res

LEMMA PairedPlain ==
  ASSUME NEW es \in Seq(LogEvent), NEW ev \in LogEvent, NEW open, NEW top \in Nat,
         ev.kind \notin {"call", "result"}, Paired(es, open, top)
  PROVE  Paired(Append(es, ev), open, top)
<1> DEFINE a == Append(es, ev)
<1>1. /\ Len(es) \in Nat /\ DOMAIN es = 1..Len(es) /\ DOMAIN a = 1..(Len(es) + 1)
      /\ \A n \in 1..Len(es) : a[n] = es[n]
      /\ a[Len(es) + 1] = ev
  BY Appended
<1>2. \A id : ev # ResultOf(id)
  BY DEF ResultOf, Event
<1> HIDE DEF a
<1> SUFFICES ASSUME NEW i \in DOMAIN a, a[i].kind \in {"call", "result"}
             PROVE  /\ a[i].id \in 1..top
                    /\ a[i].kind = "call" /\ a[i].id # open => AnsweredOnce(a, i)
                    /\ a[i].kind = "call" /\ a[i].id = open =>
                         \A k \in DOMAIN a : a[k] # ResultOf(a[i].id)
  BY DEF Paired, a
<1>3. i \in DOMAIN es /\ a[i] = es[i]
  BY <1>1
<1>4. a[i].kind = "call" /\ a[i].id # open => AnsweredOnce(a, i)
  BY <1>2, <1>3, AnsweredStays DEF Paired, a
<1>5. ASSUME a[i].kind = "call", a[i].id = open, NEW k \in DOMAIN a
      PROVE  a[k] # ResultOf(a[i].id)
  BY <1>1, <1>2, <1>3, <1>5 DEF Paired
<1> QED BY <1>3, <1>4, <1>5 DEF Paired

\* A call with a new id becomes the open one.
LEMMA PairedCall ==
  ASSUME NEW es \in Seq(LogEvent), NEW top \in Nat, NEW id \in Nat, top < id,
         Paired(es, NoCall, top)
  PROVE  Paired(Append(es, Event("call", id)), id, id)
<1> DEFINE ev == Event("call", id)
           a == Append(es, ev)
<1>0. ev \in LogEvent /\ ev.kind = "call" /\ ev.id = id /\ \A n : ev # ResultOf(n)
  BY EventType DEF Kinds, Event, ResultOf
<1>1. /\ Len(es) \in Nat /\ DOMAIN es = 1..Len(es) /\ DOMAIN a = 1..(Len(es) + 1)
      /\ \A n \in 1..Len(es) : a[n] = es[n]
      /\ a[Len(es) + 1] = ev
  BY <1>0, Appended
<1> HIDE DEF a, ev
<1>2. \A n \in 1..top : n \in 1..id /\ n # id /\ n # NoCall
  BY DEF NoCall
<1> SUFFICES ASSUME NEW i \in DOMAIN a
             PROVE  /\ a[i].kind \in {"call", "result"} => a[i].id \in 1..id
                    /\ a[i].kind = "call" /\ a[i].id # id => AnsweredOnce(a, i)
                    /\ a[i].kind = "call" /\ a[i].id = id =>
                         \A k \in DOMAIN a : a[k] # ResultOf(a[i].id)
  BY DEF Paired, a, ev
<1>3. \A k \in DOMAIN a : a[k] # ResultOf(id)
  <2> SUFFICES ASSUME NEW k \in DOMAIN a, a[k] = ResultOf(id) PROVE FALSE
    OBVIOUS
  <2>1. k \in DOMAIN es /\ es[k] = ResultOf(id)
    BY <1>0, <1>1
  <2>2. es[k].kind = "result" /\ es[k].id = id
    BY <2>1 DEF ResultOf, Event
  <2> QED BY <1>2, <2>1, <2>2 DEF Paired
<1>4. CASE i \in DOMAIN es
  <2>1. a[i] = es[i]
    BY <1>1, <1>4
  <2>2. es[i].kind \in {"call", "result"} => es[i].id \in 1..top
    BY <1>4 DEF Paired
  <2>3. es[i].kind = "call" => AnsweredOnce(es, i)
    BY <1>2, <1>4, <2>2 DEF Paired
  <2>4. es[i].kind = "call" => AnsweredOnce(a, i)
    BY <1>0, <1>4, <2>3, AnsweredStays DEF a
  <2> QED BY <1>2, <1>3, <2>1, <2>2, <2>4
<1>5. CASE i = Len(es) + 1
  <2>1. a[i].kind = "call" /\ a[i].id = id /\ id \in 1..id
    BY <1>0, <1>1, <1>5
  <2> QED BY <1>3, <2>1
<1> QED BY <1>1, <1>4, <1>5

\* The result of the open call leaves none open.
LEMMA PairedResult ==
  ASSUME NEW es \in Seq(LogEvent), NEW top \in Nat, NEW id \in 1..top,
         Paired(es, id, top)
  PROVE  Paired(Append(es, ResultOf(id)), NoCall, top)
<1> DEFINE ev == ResultOf(id)
           a == Append(es, ev)
<1>0. ev \in LogEvent /\ ev.kind = "result" /\ ev.id = id
  BY EventType DEF Kinds, Event, ResultOf
<1>1. /\ Len(es) \in Nat /\ DOMAIN es = 1..Len(es) /\ DOMAIN a = 1..(Len(es) + 1)
      /\ \A n \in 1..Len(es) : a[n] = es[n]
      /\ a[Len(es) + 1] = ev
  BY <1>0, Appended
<1>2. \A n : ev = ResultOf(n) => n = id
  BY <1>0 DEF ResultOf, Event
<1> HIDE DEF a, ev
<1> SUFFICES ASSUME NEW i \in DOMAIN a
             PROVE  /\ a[i].kind \in {"call", "result"} => a[i].id \in 1..top
                    /\ a[i].kind = "call" => AnsweredOnce(a, i)
  <2>1. \A i \in DOMAIN a : a[i].kind \in {"call", "result"} => a[i].id # NoCall
    BY DEF NoCall
  <2> QED BY <2>1 DEF Paired, a, ev
<1>3. CASE i \in DOMAIN es
  <2>1. a[i] = es[i] /\ i \in DOMAIN a
    BY <1>1, <1>3
  <2>2. es[i].kind \in {"call", "result"} => es[i].id \in 1..top
    BY <1>3 DEF Paired
  <2>3. CASE es[i].kind = "call" /\ es[i].id # id
    <3>1. AnsweredOnce(es, i)
      BY <1>3, <2>3 DEF Paired
    <3>2. AnsweredOnce(a, i)
      BY <1>0, <1>2, <1>3, <2>3, <3>1, AnsweredStays DEF a
    <3> QED BY <2>1, <2>2, <3>2
  <2>4. CASE es[i].kind = "call" /\ es[i].id = id
    <3>1. \A k \in DOMAIN es : es[k] # ev
      BY <1>3, <2>4 DEF Paired, ev
    <3>2. Len(es) + 1 \in DOMAIN a /\ i < Len(es) + 1 /\ a[Len(es) + 1] = ev
      BY <1>1, <1>3
    <3>3. \A k \in DOMAIN a : a[k] = ev => k = Len(es) + 1
      BY <1>1, <3>1
    <3>4. AnsweredOnce(a, i)
      BY <2>1, <2>4, <3>2, <3>3 DEF AnsweredOnce, ev
    <3> QED BY <2>1, <2>2, <3>4
  <2> QED BY <2>1, <2>2, <2>3, <2>4
<1>4. CASE i = Len(es) + 1
  <2>1. a[i].kind = "result" /\ a[i].id = id
    BY <1>0, <1>1, <1>4
  <2> QED BY <2>1
<1> QED BY <1>1, <1>3, <1>4

\* The ids of the current response are the newest ones, in order.
Numbered ==
  pc \in {"calling", "executing"} =>
    /\ Len(uses) <= nextId
    /\ \A k \in 1..Len(uses) : uses[k] = (nextId - Len(uses)) + k

\* The newest id that the log may show.
Reached == CASE pc = "calling" -> (nextId - Len(uses)) + answered
             [] pc = "executing" -> (nextId - Len(uses)) + (answered + 1)
             [] OTHER -> nextId

LogPaired == phase # "down" /\ Len(events) < LogCap => Paired(events, state.tool, Reached)

FilePaired == phase # "up" /\ Len(eventsDisk) < LogCap =>
                Paired(eventsDisk, Replayed(eventsDisk).tool, nextId)

PairInv == RunInv /\ Numbered /\ LogPaired /\ FilePaired

LEMMA ReachedBound ==
  ASSUME TypeOK, Control, Numbered
  PROVE  Reached \in Nat /\ Reached <= nextId
<1>1. /\ nextId \in Nat /\ Len(uses) \in Nat /\ answered \in Nat /\ answered <= Len(uses)
      /\ pc = "executing" => answered < Len(uses)
  BY DEF TypeOK, Control
<1>2. CASE pc \in {"calling", "executing"}
  BY <1>1, <1>2, SMTT(20) DEF Numbered, Reached
<1>3. CASE pc \notin {"calling", "executing"}
  BY <1>1, <1>3 DEF Reached
<1> QED BY <1>2, <1>3

LEMMA NumberedStep ==
  ASSUME TypeOK, Control, Numbered, [Next]_vars
  PROVE  Numbered'
<1>1. CASE ToolUses
  <2>1. PICK n \in 1..MaxUses : /\ uses' = [i \in 1..n |-> nextId + i]
                                /\ nextId' = nextId + n
    BY <1>1 DEF ToolUses
  <2>2. nextId \in Nat /\ n \in Nat
    BY DEF TypeOK
  <2>3. Len(uses') = n
    BY <2>1, <2>2
  <2>4. \A k \in 1..n : uses'[k] = nextId + k
    BY <2>1
  <2>5. nextId' - Len(uses') = nextId /\ Len(uses') <= nextId'
    BY <2>1, <2>2, <2>3
  <2> QED BY <2>3, <2>4, <2>5 DEF Numbered
<1>2. CASE pc' \notin {"calling", "executing"}
  BY <1>2 DEF Numbered
<1>3. CASE UNCHANGED <<uses, nextId>> /\ pc \in {"calling", "executing"}
  BY <1>3 DEF Numbered
<1>4. CASE OwnStep
  <2>1. \/ pc' \notin {"calling", "executing"}
        \/ UNCHANGED <<uses, nextId>> /\ pc \in {"calling", "executing"}
    BY <1>4 DEF OwnStep, Receive, BeginRun, EmitInstruction, EmitWorking, PushInstruction,
       StartTurn, OutOfTurns, AskCancelled, CallTool, ToolCancelled, PushInterrupted, PushResults,
       ReportLimit, TellInterrupted, EmitOutcome, EndRun, At, Goto, Frame
  <2> QED BY <1>2, <1>3, <2>1
<1>5. CASE ProviderFails \/ FinalAnswer \/ ToolReturns
  <2>1. \/ pc' \notin {"calling", "executing"}
        \/ UNCHANGED <<uses, nextId>> /\ pc \in {"calling", "executing"}
    BY <1>5 DEF ProviderFails, FinalAnswer, ToolReturns, At, Goto, Frame
  <2> QED BY <1>2, <1>3, <2>1
<1>6. CASE Submit \/ Interrupt \/ Boot \/ UNCHANGED vars
  <2>1. UNCHANGED <<uses, nextId, pc>>
    BY <1>6 DEF Submit, Interrupt, Boot, Restore, SaveEvents, SaveHistory, vars, runVars
  <2> QED BY <2>1 DEF Numbered
<1>7. CASE Crash
  BY <1>7 DEF Crash, Numbered
<1> QED BY <1>1, <1>4, <1>5, <1>6, <1>7 DEF Next, Answer

\* The steps that are no call, no result and no boot use no id: what the log
\* may show stays, or becomes more.
LEMMA ReachedStep ==
  ASSUME TypeOK, Control, Numbered, [Next]_vars,
         ~CallTool, ~ToolReturns, ~ToolCancelled, ~Crash, ~Boot
  PROVE  Reached' \in Nat /\ Reached <= Reached'
<1>1. /\ nextId \in Nat /\ Len(uses) \in Nat /\ answered \in Nat /\ answered <= Len(uses)
      /\ Reached \in Nat /\ Reached <= nextId
  BY ReachedBound DEF TypeOK
<1>2. CASE ToolUses
  <2>1. PICK n \in 1..MaxUses : /\ uses' = [i \in 1..n |-> nextId + i]
                                /\ nextId' = nextId + n
    BY <1>2 DEF ToolUses
  <2>2. Len(uses') = n /\ n \in Nat
    BY <1>1, <2>1
  <2>3. pc' = "calling" /\ answered' = 0
    BY <1>2 DEF ToolUses, Goto
  <2>4. Reached' = (nextId' - Len(uses')) + answered'
    BY <2>3 DEF Reached
  <2> QED BY <1>1, <2>1, <2>2, <2>3, <2>4
<1>3. CASE UNCHANGED <<pc, uses, answered, nextId>>
  <2>1. Reached' = Reached
    BY <1>3 DEF Reached
  <2> QED BY <1>1, <2>1
<1>4. CASE UNCHANGED nextId /\ pc' \notin {"calling", "executing"}
  <2>1. Reached' = nextId
    BY <1>4 DEF Reached
  <2> QED BY <1>1, <2>1
<1>5. CASE OwnStep
  <2>1. UNCHANGED nextId /\ pc' \notin {"calling", "executing"}
    BY <1>5 DEF OwnStep, Receive, BeginRun, EmitInstruction, EmitWorking, PushInstruction,
       StartTurn, OutOfTurns, AskCancelled, PushInterrupted, PushResults,
       ReportLimit, TellInterrupted, EmitOutcome, EndRun, Goto, Frame
  <2> QED BY <1>4, <2>1
<1>6. CASE ProviderFails \/ FinalAnswer
  <2>1. UNCHANGED nextId /\ pc' \notin {"calling", "executing"}
    BY <1>6 DEF ProviderFails, FinalAnswer, Goto, Frame
  <2> QED BY <1>4, <2>1
<1>7. CASE Submit \/ Interrupt \/ UNCHANGED vars
  <2>1. UNCHANGED <<pc, uses, answered, nextId>>
    BY <1>7 DEF Submit, Interrupt, vars, runVars
  <2> QED BY <1>3, <2>1
<1> QED BY <1>2, <1>5, <1>6, <1>7 DEF Next, Answer

\* What a step of the running session leaves in the log, when it is no call
\* and no result.
LEMMA PlainSteps ==
  ASSUME [Next]_vars, ~CallTool, ~ToolReturns, ~ToolCancelled, ~Crash, ~Boot
  PROVE  /\ UNCHANGED phase
         /\ \/ UNCHANGED logVars
            \/ phase = "up" /\ \E kind \in Kinds \ {"call", "result"} : Emit(kind, NoCall)
<1>1. CASE OwnStep
  BY <1>1 DEF OwnStep, Receive, BeginRun, EmitInstruction, EmitWorking, PushInstruction, StartTurn,
     OutOfTurns, AskCancelled, PushInterrupted, PushResults, ReportLimit, TellInterrupted,
     EmitOutcome, EndRun, At, Frame, Kinds, StatusKinds
<1>2. CASE ProviderFails \/ FinalAnswer \/ ToolUses
  BY <1>2 DEF ProviderFails, FinalAnswer, ToolUses, At, Frame, Kinds, StatusKinds
<1>3. CASE Submit \/ Interrupt \/ UNCHANGED vars
  BY <1>3 DEF Submit, Interrupt, vars, Kinds, StatusKinds
<1> QED BY <1>1, <1>2, <1>3 DEF Next, Answer

LEMMA CallSteps ==
  ASSUME PairInv, [Next]_vars, CallTool \/ ToolReturns \/ ToolCancelled
  PROVE  LogPaired' /\ FilePaired'
<1> DEFINE id == uses[answered + 1]
<1>1. /\ TypeOK /\ Control /\ ShowsRun /\ Numbered /\ LogPaired
      /\ nextId \in Nat /\ Len(uses) \in Nat /\ answered \in Nat /\ events \in Seq(LogEvent)
  BY DEF PairInv, RunInv, TypeOK
<1>2. /\ phase = "up" /\ phase' = "up" /\ uses' = uses /\ nextId' = nextId
      /\ answered < Len(uses) /\ pc \in {"calling", "executing"}
  BY <1>1 DEF CallTool, ToolReturns, ToolCancelled, At, Control, Frame
<1>3. /\ Len(uses) <= nextId /\ id = (nextId - Len(uses)) + (answered + 1)
      /\ id \in Nat /\ id \in 1..id /\ id <= nextId
  <2>1. Len(uses) <= nextId /\ answered + 1 \in 1..Len(uses)
    BY <1>1, <1>2 DEF Numbered
  <2>2. id = (nextId - Len(uses)) + (answered + 1)
    BY <1>1, <1>2, <2>1 DEF Numbered
  <2> HIDE DEF id
  <2> QED BY <1>1, <1>2, <2>1, <2>2
<1>4. FilePaired'
  BY <1>2 DEF FilePaired
<1>5. SUFFICES ASSUME Len(events') < LogCap
               PROVE  Paired(events', state'.tool, Reached')
  BY <1>4 DEF LogPaired
<1>6. CASE CallTool
  <2>1. /\ Emit("call", id) /\ pc = "calling" /\ pc' = "executing" /\ answered' = answered
    BY <1>6 DEF CallTool, At, Goto
  <2>2. Event("call", id) \in LogEvent /\ "call" \in Kinds
    BY <1>3, EventType DEF Kinds
  <2>3. Len(events) < LogCap /\ events' = Append(events, Event("call", id))
    BY <1>1, <1>3, <1>5, <2>1, <2>2, EmitFacts
  <2>4. state.tool = NoCall /\ state'.tool = id
    BY <1>1, <1>2, <1>3, <1>5, <2>1, <2>2, EmitShows DEF StatusKinds
  <2>5. Reached = (nextId - Len(uses)) + answered /\ Reached' = id
    BY <1>2, <1>3, <2>1 DEF Reached
  <2>6. Paired(events, NoCall, Reached)
    BY <1>1, <1>2, <2>3, <2>4 DEF LogPaired
  <2> HIDE DEF id
  <2>7. Reached \in Nat /\ Reached < id
    BY <1>1, <1>3, <2>5
  <2> QED BY <1>1, <1>3, <2>3, <2>4, <2>5, <2>6, <2>7, PairedCall
<1>7. CASE ToolReturns \/ ToolCancelled
  <2>1. /\ Emit("result", id) /\ pc = "executing"
        /\ \/ pc' = "calling" /\ answered' = answered + 1
           \/ pc' = "giving up"
    BY <1>7 DEF ToolReturns, ToolCancelled, At, Goto
  <2>2. Event("result", id) \in LogEvent /\ "result" \in Kinds
    BY <1>3, EventType DEF Kinds
  <2>3. Len(events) < LogCap /\ events' = Append(events, Event("result", id))
    BY <1>1, <1>3, <1>5, <2>1, <2>2, EmitFacts
  <2>4. state.tool = id /\ state'.tool = NoCall
    BY <1>1, <1>2, <1>3, <1>5, <2>1, <2>2, EmitShows DEF StatusKinds
  <2>5. Reached = id
    BY <1>3, <2>1 DEF Reached
  <2>6. Paired(events, id, id)
    BY <1>1, <1>2, <2>3, <2>4, <2>5 DEF LogPaired
  <2>7. Reached' = id \/ Reached' = nextId
    BY <1>2, <1>3, <2>1 DEF Reached
  <2> HIDE DEF id
  <2>8. Paired(events', NoCall, id)
    BY <1>1, <1>3, <2>3, <2>6, PairedResult DEF ResultOf
  <2>9. events' \in Seq(LogEvent)
    BY <1>1, <2>2, <2>3, Appended DEF id
  <2> QED BY <1>1, <1>3, <2>4, <2>7, <2>8, <2>9, PairedWider
<1> QED BY <1>6, <1>7

LEMMA PlainStepsPair ==
  ASSUME PairInv, [Next]_vars, ~CallTool, ~ToolReturns, ~ToolCancelled, ~Crash, ~Boot
  PROVE  LogPaired' /\ FilePaired'
<1>1. /\ TypeOK /\ Control /\ ShowsRun /\ Numbered /\ LogPaired /\ FilePaired
      /\ events \in Seq(LogEvent) /\ state \in States
      /\ Reached \in Nat /\ Reached' \in Nat /\ Reached <= Reached'
  BY ReachedBound, ReachedStep DEF PairInv, RunInv, TypeOK, States, Statuses
<1>2. CASE UNCHANGED logVars /\ UNCHANGED phase
  <2>1. LogPaired'
    BY <1>1, <1>2, PairedWider DEF LogPaired, logVars
  <2>2. FilePaired'
    <3>1. phase # "up" => UNCHANGED nextId
      BY DEF Next, OwnStep, Receive, BeginRun, EmitInstruction, EmitWorking, PushInstruction,
         StartTurn, OutOfTurns, AskCancelled, PushInterrupted, PushResults, ReportLimit,
         TellInterrupted, EmitOutcome, EndRun, Answer, ProviderFails, FinalAnswer, ToolUses,
         Submit, Interrupt, At, vars
    <3> QED BY <1>1, <1>2, <3>1 DEF FilePaired, logVars
  <2> QED BY <2>1, <2>2
<1>3. ASSUME phase = "up", UNCHANGED phase, NEW kind \in Kinds \ {"call", "result"}, Emit(kind, NoCall)
      PROVE  LogPaired' /\ FilePaired'
  <2>1. FilePaired'
    BY <1>3 DEF FilePaired
  <2>2. SUFFICES ASSUME Len(events') < LogCap
                 PROVE  Paired(events', state'.tool, Reached')
    BY <2>1 DEF LogPaired
  <2> DEFINE ev == Event(kind, NoCall)
  <2>3. kind \in Kinds /\ NoCall \in Nat /\ ev \in LogEvent /\ ev.kind = kind
    BY EventType DEF NoCall, Event
  <2>4. Len(events) < LogCap /\ events' = Append(events, ev) /\ state' = Apply(state, ev)
    BY <1>1, <1>3, <2>2, <2>3, EmitFacts
  <2> HIDE DEF ev
  <2>5. state'.tool = state.tool
    BY <2>3, <2>4 DEF Apply
  <2>6. Paired(events, state.tool, Reached)
    BY <1>1, <1>3, <2>4 DEF LogPaired
  <2>7. Paired(events', state.tool, Reached)
    BY <1>1, <2>3, <2>4, <2>6, PairedPlain
  <2>8. events' \in Seq(LogEvent)
    BY <1>1, <2>3, <2>4, Appended
  <2> QED BY <1>1, <2>5, <2>7, <2>8, PairedWider
<1> QED BY <1>2, <1>3, PlainSteps

\* The tool that a replay shows is one that was called.
LEMMA ToolWasCalled ==
  ASSUME NEW es \in Seq(LogEvent), Replayed(es).tool # NoCall
  PROVE  \E i \in DOMAIN es : es[i].kind = "call" /\ es[i].id = Replayed(es).tool
<1> DEFINE c == LastOf(es, {"call"})
<1>1. c # 0 /\ Replayed(es).tool = es[c].id
  BY DEF Replayed
<1>2. c \in DOMAIN es /\ es[c].kind \in {"call"}
  BY <1>1, LastFound
<1> QED BY <1>1, <1>2

LEMMA RestorePairs ==
  ASSUME PairInv, Restore
  PROVE  LogPaired' /\ FilePaired'
<1> DEFINE es == eventsDisk
           st == Replayed(es)
           fin == Event("interrupted", NoCall)
           res == Event("result", st.tool)
<1>1. /\ phase = "down" /\ phase' = "restored" /\ eventsDisk' = es
      /\ pc' = "waiting" /\ nextId' = nextId /\ nextId \in Nat
      /\ es \in Seq(LogEvent) /\ st \in States /\ Closing(st) \in Seq(LogEvent)
  BY TypeParts, RestoreFacts, ReplayedType
  DEF Restore, PairInv, RunInv, Control, TypeOK, runVars
<1>2. FilePaired' /\ Reached' = nextId
  BY <1>1 DEF PairInv, FilePaired, Reached
<1>3. SUFFICES ASSUME Len(events') < LogCap
               PROVE  Paired(events', state'.tool, nextId)
  BY <1>2 DEF LogPaired
<1>4. CASE st.status # "working"
  <2>1. events' = es /\ state' = st
    BY <1>4 DEF Restore
  <2> QED BY <1>1, <1>3, <2>1 DEF PairInv, FilePaired
<1>5. CASE st.status = "working"
  <2>1. events' = Newest(es \o Closing(st)) /\ state'.tool = NoCall
    BY <1>5 DEF Restore
  <2>2. es \o Closing(st) \in Seq(LogEvent)
    BY <1>1, ConcatProperties
  <2>3. events' = es \o Closing(st)
    BY <1>3, <2>1, <2>2, NewestType
  <2>4. Len(es) < LogCap
    <3>1. Len(events') = Len(es) + Len(Closing(st)) /\ Len(es) \in Nat /\ Len(Closing(st)) \in Nat
      BY <1>1, <2>3, ConcatProperties
    <3> QED BY <1>3, <3>1
  <2>5. Paired(es, st.tool, nextId)
    BY <1>1, <2>4 DEF PairInv, FilePaired
  <2>6. /\ fin \in LogEvent /\ res \in LogEvent /\ fin.kind = "interrupted"
    BY <1>1, EventType DEF Kinds, StatusKinds, States, NoCall, Event
  <2>7. Closing(st) = (IF st.tool = NoCall THEN <<>> ELSE <<res>>) \o <<fin>>
    BY DEF Closing
  <2>8. CASE st.tool = NoCall
    <3>1. es \o Closing(st) = Append(es, fin)
      <4>1. Closing(st) = <<fin>>
        <5> HIDE DEF fin, res, st
        <5> QED BY <2>6, <2>7, <2>8
      <4> HIDE DEF st, fin
      <4> QED BY <1>1, <2>6, <4>1
    <3> HIDE DEF st, fin
    <3> QED BY <1>1, <2>1, <2>3, <2>5, <2>6, <2>8, <3>1, PairedPlain
  <2>9. CASE st.tool # NoCall
    <3>1. es \o Closing(st) = Append(Append(es, res), fin)
      <4> HIDE DEF st, fin, res
      <4>1. Closing(st) = <<res>> \o <<fin>>
        BY <2>7, <2>9
      <4>2. es \o (<<res>> \o <<fin>>) = (es \o <<res>>) \o <<fin>>
        BY <1>1, <2>6, ConcatAssociative
      <4>3. es \o <<res>> = Append(es, res)
        BY <1>1, <2>6
      <4>4. Append(es, res) \o <<fin>> = Append(Append(es, res), fin)
        BY <1>1, <2>6, Appended
      <4> QED BY <4>1, <4>2, <4>3, <4>4
    <3>2. st.tool \in 1..nextId
      <4>1. PICK i \in DOMAIN es : es[i].kind = "call" /\ es[i].id = st.tool
        BY <1>1, <2>9, ToolWasCalled
      <4> HIDE DEF st
      <4> QED BY <2>5, <4>1 DEF Paired
    <3>3. Paired(Append(es, res), NoCall, nextId)
      <4> HIDE DEF st
      <4> QED BY <1>1, <2>5, <3>2, PairedResult DEF ResultOf
    <3>4. Append(es, res) \in Seq(LogEvent)
      BY <1>1, <2>6, Appended
    <3> HIDE DEF st, fin, res
    <3> QED BY <1>1, <2>1, <2>3, <2>6, <3>1, <3>3, <3>4, PairedPlain
  <2> QED BY <2>8, <2>9
<1> QED BY <1>4, <1>5

LEMMA PairStep == PairInv /\ [Next]_vars => PairInv'
<1> SUFFICES ASSUME PairInv, [Next]_vars PROVE PairInv'
  OBVIOUS
<1>1. RunInv' /\ Numbered'
  BY RunStep, NumberedStep DEF PairInv, RunInv
<1>2. LogPaired' /\ FilePaired'
  <2>1. CASE CallTool \/ ToolReturns \/ ToolCancelled
    BY <2>1, CallSteps
  <2>2. CASE Crash
    <3>1. /\ phase' = "down" /\ eventsDisk' = eventsDisk /\ nextId' = nextId
      BY <2>2 DEF Crash
    <3>2. CASE phase = "up"
      <4> SUFFICES ASSUME Len(eventsDisk) < LogCap
                   PROVE  Paired(eventsDisk, Replayed(eventsDisk).tool, nextId)
        BY <3>1 DEF LogPaired, FilePaired
      <4>1. eventsDisk = events /\ state = Replayed(events)
        BY <3>2 DEF PairInv, RunInv, Agrees
      <4>2. Paired(events, state.tool, Reached)
        BY <3>2, <4>1 DEF PairInv, LogPaired
      <4>3. Reached \in Nat /\ Reached <= nextId /\ nextId \in Nat /\ events \in Seq(LogEvent)
        BY ReachedBound DEF PairInv, RunInv, TypeOK
      <4> QED BY <4>1, <4>2, <4>3, PairedWider
    <3>3. CASE phase # "up"
      BY <3>1, <3>3 DEF PairInv, LogPaired, FilePaired
    <3> QED BY <3>2, <3>3
  <2>3. CASE Restore
    BY <2>3, RestorePairs
  <2>4. CASE SaveEvents
    <3>1. /\ phase = "restored" /\ phase' = "half" /\ eventsDisk' = events
          /\ UNCHANGED <<events, state, pc, uses, answered, nextId>>
      BY <2>4 DEF SaveEvents, runVars
    <3>2. Reached' = Reached /\ Reached = nextId
      <4>1. pc = "waiting"
        BY <3>1 DEF PairInv, RunInv, Control
      <4> QED BY <3>1, <4>1 DEF Reached
    <3>3. Len(events) < LogCap => Paired(events, state.tool, nextId) /\ state = Replayed(events)
      BY <3>1, <3>2 DEF PairInv, LogPaired, RunInv, Agrees
    <3> QED BY <3>1, <3>2, <3>3 DEF LogPaired, FilePaired
  <2>5. CASE SaveHistory
    <3>1. /\ phase = "half" /\ phase' = "up" /\ UNCHANGED logVars
          /\ UNCHANGED <<pc, uses, answered, nextId>>
      BY <2>5 DEF SaveHistory, runVars
    <3>2. Reached' = Reached
      BY <3>1 DEF Reached
    <3> QED BY <3>1, <3>2 DEF PairInv, LogPaired, FilePaired, logVars
  <2>6. CASE /\ ~CallTool /\ ~ToolReturns /\ ~ToolCancelled /\ ~Crash /\ ~Boot
    BY <2>6, PlainStepsPair
  <2> QED BY <2>1, <2>2, <2>3, <2>4, <2>5, <2>6 DEF Boot
<1> QED BY <1>1, <1>2 DEF PairInv

LEMMA PairInvariant == Spec => []PairInv
<1>1. Init => PairInv
  <2> SUFFICES ASSUME Init PROVE PairInv
    OBVIOUS
  <2>1. events = <<>> /\ phase = "up" /\ pc = "waiting"
    BY DEF Init
  <2>2. Paired(<<>>, state.tool, Reached)
    BY DEF Paired
  <2> QED BY <2>1, <2>2, RunInit DEF PairInv, Numbered, LogPaired, FilePaired
<1> QED BY <1>1, PairStep, PTL DEF Spec

\* As long as no event has been dropped from the log, every call shown to the
\* watchers has one result, behind it, or is being executed; also when an
\* interrupt or a crash ended it (run_instruction, Session::restore).
THEOREM CallsGetAnswered == Spec => [](Len(events) < LogCap => CallsAnswered)
<1>1. PairInv => (Len(events) < LogCap => CallsAnswered)
  <2> SUFFICES ASSUME PairInv, Len(events) < LogCap, phase # "down",
                      NEW i \in DOMAIN events, events[i].kind = "call"
               PROVE  LET answers == {j \in DOMAIN events :
                                        events[j] = Event("result", events[i].id)}
                      IN  IF At("executing") /\ events[i].id = uses[answered + 1]
                          THEN answers = {}
                          ELSE Cardinality(answers) = 1 /\ \A j \in answers : i < j
    BY DEF CallsAnswered
  <2> DEFINE answers == {j \in DOMAIN events : events[j] = Event("result", events[i].id)}
  <2>1. Paired(events, state.tool, Reached)
    BY DEF PairInv, LogPaired
  <2>2. state.tool = IF At("executing") THEN uses[answered + 1] ELSE NoCall
    <3>1. CASE phase = "up"
      BY <3>1 DEF PairInv, RunInv, ShowsRun, At
    <3>2. CASE phase # "up"
      <4>1. phase \in {"restored", "half"}
        BY <3>2 DEF PairInv, RunInv, TypeOK
      <4> QED BY <3>2, <4>1 DEF PairInv, RunInv, BootAtRest, At
    <3> QED BY <3>1, <3>2
  <2>3. events[i].id # NoCall
    <3>1. events[i].id \in 1..Reached
      BY <2>1 DEF Paired
    <3> QED BY <3>1 DEF NoCall
  <2>4. CASE events[i].id = state.tool
    <3>1. answers = {}
      BY <2>1, <2>4 DEF Paired, ResultOf
    <3> QED BY <2>2, <2>3, <2>4, <3>1
  <2>5. CASE events[i].id # state.tool
    <3>1. AnsweredOnce(events, i)
      BY <2>1, <2>5 DEF Paired
    <3>2. PICK j \in DOMAIN events :
            /\ i < j /\ events[j] = ResultOf(events[i].id)
            /\ \A k \in DOMAIN events : events[k] = ResultOf(events[i].id) => k = j
      BY <3>1 DEF AnsweredOnce
    <3>3. answers = {j}
      BY <3>2 DEF ResultOf
    <3>4. Cardinality({j}) = 1
      BY FS_Singleton
    <3> QED BY <2>2, <2>5, <3>2, <3>3, <3>4
  <2> QED BY <2>4, <2>5
<1> QED BY <1>1, PairInvariant, PTL

-----------------------------------------------------------------------------
(* Which conversations either provider accepts.                             *)

\* The last message asks for tools and nobody has answered.
Open(h) == h # <<>> /\ h[Len(h)].role = "assistant" /\ h[Len(h)].ids # <<>>

\* The message at i asks for tools and the next one answers, or neither.
Follow(h, i) == IF h[i].role = "assistant" /\ h[i].ids # <<>>
                THEN h[i + 1].role = "results" /\ h[i + 1].ids = h[i].ids
                ELSE h[i + 1].role # "results"

\* The user begins, and results are right behind their tool uses.
WellFormed(h) == /\ h # <<>> => h[1].role = "user"
                 /\ \A i \in 1..(Len(h) - 1) : Follow(h, i)

LEMMA AnthropicIsPleased ==
  ASSUME NEW h \in Seq(Message), h # <<>>, WellFormed(h), ~Open(h)
  PROVE  /\ AnthropicPairs(AnthropicMessages(h))
         /\ Worded(h) => AnthropicAccepts(AnthropicMessages(h))
<1> DEFINE ms == AnthropicMessages(h)
           n == Len(h)
<1>1. n \in Nat /\ n # 0 /\ 1 \in 1..n /\ n \in 1..n /\ DOMAIN h = 1..n
  OBVIOUS
<1>2. Len(ms) = n /\ \A i \in 1..n :
        ms[i] = [role    |-> IF h[i].role = "assistant" THEN "assistant" ELSE "user",
                 uses    |-> IF h[i].role = "assistant" THEN h[i].ids ELSE <<>>,
                 results |-> IF h[i].role = "results" THEN h[i].ids ELSE <<>>,
                 text    |-> h[i].text]
  BY <1>1 DEF AnthropicMessages
<1>3. \A i \in 1..n :
        /\ ms[i].role = IF h[i].role = "assistant" THEN "assistant" ELSE "user"
        /\ ms[i].uses = IF h[i].role = "assistant" THEN h[i].ids ELSE <<>>
        /\ ms[i].results = IF h[i].role = "results" THEN h[i].ids ELSE <<>>
        /\ ms[i].text = h[i].text
  <2> TAKE i \in 1..n
  <2> HIDE DEF ms, n
  <2> QED BY <1>2
<1> HIDE DEF ms
<1>4. ms[1].role = "user" /\ ms[1].results = <<>>
  BY <1>1, <1>3 DEF WellFormed
<1>5. ASSUME NEW i \in 2..n PROVE ms[i].results = ms[i - 1].uses
  <2>1. i - 1 \in 1..(n - 1) /\ i - 1 \in 1..n /\ i \in 1..n /\ (i - 1) + 1 = i
    BY <1>1
  <2>2. Follow(h, i - 1)
    BY <2>1 DEF WellFormed
  <2> QED BY <1>3, <2>1, <2>2 DEF Follow
<1>6. ms[n].uses = <<>>
  BY <1>1, <1>3 DEF Open
<1>8. AnthropicPairs(ms)
  BY <1>2, <1>4, <1>5, <1>6 DEF AnthropicPairs
<1>9. ASSUME Worded(h), NEW i \in 1..n
      PROVE  ms[i].text \/ ms[i].uses # <<>> \/ ms[i].results # <<>>
  <2>1. h[i].role = "results" \/ h[i].text \/ (h[i].role = "assistant" /\ h[i].ids # <<>>)
    BY <1>1, <1>9 DEF Worded
  <2>2. CASE h[i].text
    BY <1>3, <2>2, Zenon
  <2>3. CASE h[i].role = "assistant" /\ h[i].ids # <<>>
    BY <1>3, <2>3
  <2>4. CASE h[i].role = "results"
    <3>1. i # 1
      BY <2>4 DEF WellFormed
    <3>2. i - 1 \in 1..(n - 1) /\ (i - 1) + 1 = i
      BY <1>1, <3>1
    <3>3. Follow(h, i - 1)
      BY <3>2 DEF WellFormed
    <3>4. h[i].ids # <<>>
      BY <2>4, <3>2, <3>3 DEF Follow
    <3> QED BY <1>3, <2>4, <3>4
  <2> QED BY <2>1, <2>2, <2>3, <2>4, Zenon
<1>10. DOMAIN ms = 1..n
  BY <1>1 DEF AnthropicMessages, ms
<1> QED BY <1>8, <1>9, <1>10 DEF AnthropicAccepts, ms

\* The messages that openai is sent for one of the history.
Tool(id) == [role |-> "tool", ids |-> <<id>>, text |-> FALSE]
Tools(ids) == [j \in DOMAIN ids |-> Tool(ids[j])]
Sent(msg) == CASE msg.role = "results" -> Tools(msg.ids)
               [] msg.role = "user" /\ ~msg.text -> <<>>
               [] OTHER -> <<msg>>
OpenAiMessage == [role : {"user", "assistant", "results", "tool"}, ids : Seq(Nat),
                  text : BOOLEAN]

LEMMA SentType ==
  ASSUME NEW msg \in Message
  PROVE  /\ Sent(msg) \in Seq(OpenAiMessage)
         /\ msg.role = "results" =>
              /\ Len(Sent(msg)) = Len(msg.ids)
              /\ \A k \in 1..Len(msg.ids) : Sent(msg)[k] = Tool(msg.ids[k])
         /\ msg.role # "results" => /\ Len(Sent(msg)) \in 0..1
                                    /\ Len(Sent(msg)) = 1 => Sent(msg)[1] = msg
         /\ msg.role = "assistant" => Len(Sent(msg)) = 1
<1>1. /\ msg.role \in {"user", "assistant", "results"} /\ msg.ids \in Seq(Nat)
      /\ msg \in OpenAiMessage
  BY DEF Message, OpenAiMessage
<1>2. CASE msg.role = "results"
  <2> DEFINE ids == msg.ids
  <2>1. ids \in Seq(Nat) /\ Len(ids) \in Nat /\ DOMAIN ids = 1..Len(ids)
    BY <1>1
  <2>2. \A k \in 1..Len(ids) : ids[k] \in Nat
    BY <2>1
  <2> HIDE DEF ids
  <2>3. \A k \in 1..Len(ids) : Tool(ids[k]) \in OpenAiMessage
    BY <2>2 DEF OpenAiMessage, Tool
  <2>4. Tools(ids) \in Seq(OpenAiMessage) /\ Len(Tools(ids)) = Len(ids)
    BY <2>1, <2>3 DEF Tools
  <2>5. \A k \in 1..Len(ids) : Tools(ids)[k] = Tool(ids[k])
    BY <2>1 DEF Tools
  <2>6. Sent(msg) = Tools(ids)
    BY <1>2 DEF Sent, ids
  <2> QED BY <1>2, <2>4, <2>5, <2>6 DEF ids
<1>3. CASE msg.role = "user" /\ ~msg.text
  <2>1. Sent(msg) = <<>>
    BY <1>3 DEF Sent
  <2> QED BY <1>3, <2>1
<1>4. CASE msg.role # "results" /\ ~(msg.role = "user" /\ ~msg.text)
  <2>1. Sent(msg) = <<msg>>
    BY <1>4 DEF Sent
  <2> QED BY <1>1, <1>4, <2>1
<1> QED BY <1>2, <1>3, <1>4

LEMMA OpenAiIsPleased ==
  ASSUME NEW h \in Seq(Message), h # <<>>, WellFormed(h), ~Open(h)
  PROVE  /\ OpenAiPairs(OpenAiMessages(h))
         /\ Worded(h) => OpenAiAccepts(OpenAiMessages(h))
<1> DEFINE n == Len(h)
           ss == [i \in DOMAIN h |-> Sent(h[i])]
           flat == Lists!FlattenSeq(ss)
<1>1. n \in Nat /\ n # 0 /\ DOMAIN h = 1..n /\ \A i \in 1..n : h[i] \in Message
  OBVIOUS
<1>2. \A i \in 1..n : /\ h[i].role \in {"user", "assistant", "results"}
                      /\ h[i].ids \in Seq(Nat) /\ Len(h[i].ids) \in Nat
                      /\ Len(h[i].ids) = 0 <=> h[i].ids = <<>>
  BY <1>1 DEF Message
<1>3. OpenAiMessages(h) = flat
  <2>1. OpenAiMessages(h) = Seqs!FlattenSeq(ss)
    BY DEF OpenAiMessages, Sent, Tools, Tool
  <2> QED BY <2>1 DEF Seqs!FlattenSeq, Lists!FlattenSeq
<1>4. ss \in Seq(Seq(OpenAiMessage)) /\ Len(ss) = n /\ \A i \in 1..n : ss[i] = Sent(h[i])
  BY <1>1, SentType
<1>5. \A i \in 1..n :
        /\ h[i].role = "results" =>
             /\ Len(ss[i]) = Len(h[i].ids)
             /\ \A k \in 1..Len(h[i].ids) : ss[i][k] = Tool(h[i].ids[k])
        /\ h[i].role # "results" => \A k \in 1..Len(ss[i]) : k = 1 /\ ss[i][k] = h[i]
        /\ h[i].role = "assistant" => Len(ss[i]) = 1
  <2> TAKE i \in 1..n
  <2>1. ss[i] = Sent(h[i]) /\ h[i] \in Message
    BY <1>1, <1>4
  <2>2. ASSUME h[i].role # "results", NEW k \in 1..Len(Sent(h[i]))
        PROVE  k = 1 /\ Sent(h[i])[k] = h[i]
    <3>1. /\ Len(Sent(h[i])) \in 0..1
          /\ Len(Sent(h[i])) = 1 => Sent(h[i])[1] = h[i]
      BY <2>1, <2>2, SentType
    <3> DEFINE l == Len(Sent(h[i]))
    <3>2. l = 1 /\ k = 1
      <4>1. l \in 0..1 /\ k \in 1..l
        BY <3>1
      <4> HIDE DEF l
      <4> QED BY <4>1
    <3> QED BY <3>1, <3>2
  <2> QED BY <2>1, <2>2, SentType
<1> HIDE DEF ss
<1>6. PICK off \in [1..(Len(ss) + 1) -> Nat] : Parts(OpenAiMessage, ss, flat, off)
  <2>1. Len(ss) # 0
    BY <1>1, <1>4
  <2> QED BY <1>4, <2>1, FlattenParts
<1> HIDE DEF flat
<1>7. Parts(OpenAiMessage, ss, flat, off) /\ Len(ss) = n
  BY <1>4, <1>6
<1>8. \A i \in 1..n : off[i] \in Nat /\ off[i + 1] = off[i] + Len(ss[i])
  <2> TAKE i \in 1..n
  <2>1. i \in 1..(Len(ss) + 1) /\ i \in 1..Len(ss)
    BY <1>1, <1>7
  <2> QED BY <1>6, <1>7, <2>1 DEF Parts
<1>9. /\ flat \in Seq(OpenAiMessage)
       /\ \A i \in 1..n : \A k \in 1..Len(ss[i]) :
            off[i] + k \in 1..Len(flat) /\ flat[off[i] + k] = ss[i][k]
  <2> HIDE DEF n
  <2> QED BY <1>7, Zenon DEF Parts
<1>10. \A m \in 1..Len(flat) : \E i \in 1..n : \E k \in 1..Len(ss[i]) : m = off[i] + k
  <2> HIDE DEF n
  <2> QED BY <1>7, Zenon DEF Parts
<1>11. Len(flat) \in Nat /\ DOMAIN flat = 1..Len(flat)
  BY <1>9
\* A message of the model is followed by the answers to its calls.
<1>12. ASSUME NEW i \in 1..n, h[i].role = "assistant", h[i].ids # <<>>
      PROVE  /\ i + 1 \in 1..n /\ h[i + 1].role = "results" /\ h[i + 1].ids = h[i].ids
             /\ off[i + 1] = off[i] + 1
  <2>1. i # n
    BY <1>12 DEF Open
  <2>2. i \in 1..(n - 1) /\ i + 1 \in 1..n
    <3> HIDE DEF n
    <3> QED BY <1>1, <2>1
  <2>3. Follow(h, i)
    BY <2>2 DEF WellFormed
  <2>4. Len(ss[i]) = 1
    BY <1>5, <1>12
  <2>5. h[i + 1].role = "results" /\ h[i + 1].ids = h[i].ids
    BY <1>12, <2>3 DEF Follow
  <2>6. off[i + 1] = off[i] + 1
    BY <1>8, <2>4
  <2> QED BY <2>2, <2>5, <2>6
<1>13. ASSUME NEW m \in 1..Len(flat), flat[m].role = "assistant"
      PROVE  /\ \E i \in 1..n : flat[m] = h[i]
             /\ LET q == Len(flat[m].ids)
                IN  /\ m + q <= Len(flat)
                    /\ \A k \in 1..q : \E j \in (m + 1)..(m + q) :
                         flat[j].role = "tool" /\ flat[j].ids = <<flat[m].ids[k]>>
  <2>0. PICK i \in 1..n : \E k \in 1..Len(ss[i]) : m = off[i] + k
    BY <1>10
  <2>1. PICK k \in 1..Len(ss[i]) : m = off[i] + k /\ flat[m] = ss[i][k]
    BY <1>9, <2>0
  <2>2. h[i].role # "results"
    <3> SUFFICES ASSUME h[i].role = "results" PROVE FALSE
      OBVIOUS
    <3>1. ss[i][k] = Tool(h[i].ids[k])
      BY <1>5
    <3> QED BY <1>13, <2>1, <3>1 DEF Tool
  <2>3. k = 1 /\ flat[m] = h[i]
    BY <1>5, <2>1, <2>2
  <2>4. h[i].role = "assistant" /\ m = off[i] + 1
    BY <1>13, <2>1, <2>3
  <2>8. \E w \in 1..n : flat[m] = h[w]
    BY <2>3
  <2> DEFINE q == Len(h[i].ids)
  <2>5. q \in Nat
    BY <1>2
  <2>6. CASE h[i].ids = <<>>
    <3>1. q = 0
      BY <2>6
    <3>2. m + 0 <= Len(flat) /\ m \in Nat
      BY <1>11
    <3> QED BY <2>3, <3>1, <3>2
  <2>7. CASE h[i].ids # <<>>
    <3>1. /\ i + 1 \in 1..n /\ h[i + 1].role = "results" /\ h[i + 1].ids = h[i].ids
          /\ off[i + 1] = m
      BY <1>12, <2>4, <2>7
    <3>2. /\ Len(ss[i + 1]) = q
          /\ \A c \in 1..q : ss[i + 1][c] = Tool(h[i].ids[c])
      BY <1>5, <3>1
    <3> DEFINE o == off[i + 1]
               l == Len(ss[i + 1])
    <3>3. \A c \in 1..l : o + c \in 1..Len(flat) /\ flat[o + c] = ss[i + 1][c]
      BY <1>9, <3>1
    <3>4. o = m /\ l = q
      BY <3>1, <3>2
    <3> HIDE DEF o, l, q
    <3>11. \A c \in 1..q : Tool(h[i].ids[c]).role = "tool" /\ Tool(h[i].ids[c]).ids = <<h[i].ids[c]>>
      BY DEF Tool
    <3>5. \A c \in 1..q : /\ m + c \in 1..Len(flat)
                          /\ flat[m + c].role = "tool" /\ flat[m + c].ids = <<h[i].ids[c]>>
      <4>1. \A c \in 1..q : m + c \in 1..Len(flat) /\ flat[m + c] = Tool(h[i].ids[c])
        BY <3>2, <3>3, <3>4
      <4> QED BY <3>11, <4>1, Zenon
    <3>6. q # 0
      BY <1>2, <2>7 DEF q
    <3>7. m + q <= Len(flat)
      <4>1. q \in 1..q
        BY <2>5, <3>6
      <4>2. m + q \in 1..Len(flat)
        BY <3>5, <4>1
      <4> QED BY <1>11, <4>2
    <3>8. \A c \in 1..q : m + c \in (m + 1)..(m + q)
      BY <1>11, <2>5
    <3>9. \A c \in 1..q : \E j \in (m + 1)..(m + q) :
            flat[j].role = "tool" /\ flat[j].ids = <<h[i].ids[c]>>
      BY <3>5, <3>8
    <3>10. flat[m].ids = h[i].ids
      BY <2>3
    <3> QED BY <2>8, <3>7, <3>9, <3>10, Zenon DEF q
  <2> QED BY <2>6, <2>7
<1>14. ASSUME NEW m \in 1..Len(flat), flat[m].role = "tool"
       PROVE  \E j \in 1..(m - 1) : flat[j].role = "assistant" /\ m <= j + Len(flat[j].ids)
  <2>0. PICK i \in 1..n : \E k \in 1..Len(ss[i]) : m = off[i] + k
    BY <1>10
  <2>1. PICK k \in 1..Len(ss[i]) : m = off[i] + k /\ flat[m] = ss[i][k]
    BY <1>9, <2>0
  <2>2. h[i].role = "results"
    <3> SUFFICES ASSUME h[i].role # "results" PROVE FALSE
      OBVIOUS
    <3>1. ss[i][k] = h[i]
      BY <1>5
    <3> QED BY <1>2, <1>14, <2>1, <3>1
  <2>3. i # 1
    BY <2>2 DEF WellFormed
  <2> DEFINE p == i - 1
  <2>4. p \in 1..(n - 1) /\ p \in 1..n /\ p + 1 = i
    BY <1>1, <2>3
  <2> HIDE DEF p
  <2>5. Follow(h, p)
    BY <2>4 DEF WellFormed
  <2>6. h[p].role = "assistant" /\ h[p].ids # <<>> /\ h[i].ids = h[p].ids
    BY <2>2, <2>4, <2>5 DEF Follow
  <2>7. off[i] = off[p] + 1 /\ Len(ss[p]) = 1 /\ ss[p][1] = h[p]
    BY <1>5, <1>12, <2>4, <2>6
  <2>8. 1 \in 1..Len(ss[p])
    BY <2>7
  <2>9. off[i] \in 1..Len(flat) /\ flat[off[i]] = h[p]
    <3>1. off[p] + 1 \in 1..Len(flat) /\ flat[off[p] + 1] = ss[p][1]
      BY <1>9, <2>4, <2>8
    <3> QED BY <2>7, <3>1
  <2>10. k \in 1..Len(h[p].ids) /\ Len(h[p].ids) \in Nat
    BY <1>2, <1>5, <2>2, <2>4, <2>6
  <2> DEFINE o == off[i]
             q == Len(h[p].ids)
  <2>11. o \in 1..(m - 1) /\ m <= o + q
    <3>1. o \in Nat /\ o # 0 /\ m = o + k /\ k \in 1..q /\ q \in Nat
      BY <1>11, <2>1, <2>9, <2>10
    <3> HIDE DEF o, q
    <3> QED BY <3>1
  <2> QED BY <2>6, <2>9, <2>11
<1>15. OpenAiPairs(flat)
  BY <1>11, <1>13, <1>14 DEF OpenAiPairs
<1>16. ASSUME Worded(h), NEW m \in 1..Len(flat), flat[m].role = "assistant"
       PROVE  flat[m].text \/ flat[m].ids # <<>>
  <2>1. PICK i \in 1..n : flat[m] = h[i]
    BY <1>13, <1>16
  <2>2. h[i].role = "results" \/ h[i].text \/ (h[i].role = "assistant" /\ h[i].ids # <<>>)
    BY <1>1, <1>16 DEF Worded
  <2> QED BY <1>16, <2>1, <2>2
<1> QED BY <1>3, <1>11, <1>15, <1>16 DEF OpenAiAccepts

-----------------------------------------------------------------------------
(* What is done to a conversation.                                          *)

LEMMA Pushed ==
  ASSUME NEW h \in Seq(Message), NEW msg \in Message, WellFormed(h),
         h = <<>> => msg.role = "user",
         IF Open(h) THEN msg.role = "results" /\ msg.ids = h[Len(h)].ids
                    ELSE msg.role # "results"
  PROVE  /\ WellFormed(Append(h, msg)) /\ Append(h, msg) # <<>>
         /\ Append(h, msg)[Len(Append(h, msg))] = msg
         /\ Open(Append(h, msg)) <=> msg.role = "assistant" /\ msg.ids # <<>>
<1> DEFINE a == Append(h, msg)
           n == Len(h)
<1>1. /\ n \in Nat /\ a # <<>> /\ Len(a) = n + 1 /\ a[n + 1] = msg
      /\ \A i \in 1..n : a[i] = h[i]
  BY AppendProperties
<1>2. n = 0 <=> h = <<>>
  OBVIOUS
<1> HIDE DEF a
<1>3. a[1].role = "user"
  <2>1. CASE h = <<>>
    BY <1>1, <1>2, <2>1
  <2>2. CASE h # <<>>
    <3>1. 1 \in 1..n
      BY <1>1, <1>2, <2>2
    <3> QED BY <1>1, <2>2, <3>1 DEF WellFormed
  <2> QED BY <2>1, <2>2
<1>4. ASSUME NEW i \in 1..n PROVE Follow(a, i)
  <2>1. CASE i = n
    <3>1. a[i] = h[n] /\ a[i + 1] = msg /\ h # <<>>
      BY <1>1, <1>2, <2>1
    <3> QED BY <2>1, <3>1 DEF Follow, Open
  <2>2. CASE i # n
    <3>1. i \in 1..(n - 1) /\ i + 1 \in 1..n
      <4> HIDE DEF n
      <4> QED BY <1>1, <2>2
    <3>2. Follow(h, i) /\ a[i] = h[i] /\ a[i + 1] = h[i + 1]
      BY <1>1, <3>1 DEF WellFormed
    <3> QED BY <3>2 DEF Follow
  <2> QED BY <2>1, <2>2
<1>5. WellFormed(a)
  <2>1. Len(a) - 1 = n
    BY <1>1
  <2> QED BY <1>3, <1>4, <2>1 DEF WellFormed
<1>6. a[Len(a)] = msg
  BY <1>1
<1>7. Open(a) <=> msg.role = "assistant" /\ msg.ids # <<>>
  BY <1>1, <1>6 DEF Open
<1> QED BY <1>1, <1>5, <1>6, <1>7 DEF a

\* What restore adds closes what was left open.
LEMMA Resolved ==
  ASSUME NEW h \in Seq(Message), WellFormed(h)
  PROVE  WellFormed(h \o Unresolved(h)) /\ ~Open(h \o Unresolved(h))
<1>1. CASE Open(h)
  <2> DEFINE res == Results(h[Len(h)].ids)
  <2>1. res \in Message /\ res.role = "results" /\ res.ids = h[Len(h)].ids
    <3>1. Len(h) \in 1..Len(h)
      BY <1>1 DEF Open
    <3>2. h[Len(h)] \in Message
      BY <3>1
    <3> QED BY <3>2 DEF Results, Message
  <2>2. Unresolved(h) = <<res>>
    BY <1>1 DEF Open, Unresolved
  <2> HIDE DEF res
  <2>3. h \o Unresolved(h) = Append(h, res)
    BY <2>1, <2>2, AppendIsConcat
  <2>4. h # <<>>
    BY <1>1 DEF Open
  <2>5. WellFormed(Append(h, res)) /\ ~Open(Append(h, res))
    BY <1>1, <2>1, <2>4, Pushed
  <2> QED BY <2>3, <2>5
<1>2. CASE ~Open(h)
  <2>1. Unresolved(h) = <<>>
    BY <1>2 DEF Open, Unresolved
  <2>2. h \o <<>> = h
    BY ConcatEmptySeq
  <2> QED BY <1>2, <2>1, <2>2
<1> QED BY <1>1, <1>2

\* The cut falls on an instruction of the user.
LEMMA Cut ==
  ASSUME NEW h \in Seq(Message), WellFormed(h), ~Open(h)
  PROVE  WellFormed(CapHistory(h)) /\ ~Open(CapHistory(h))
<1> DEFINE n == Len(h)
           starts == {i \in (n - HistCap + 2)..n : h[i].role = "user"}
           first == CHOOSE i \in starts : \A j \in starts : i <= j
<1>0. n \in Nat
  OBVIOUS
<1>1. CASE n <= HistCap
  BY <1>1 DEF CapHistory
<1>2. CASE ~(n <= HistCap)
  <2>1. CapHistory(h) = IF starts = {} THEN <<>> ELSE SubSeq(h, first, n)
    BY <1>2 DEF CapHistory
  <2>2. CASE starts = {}
    <3>1. CapHistory(h) = <<>> /\ 1..(Len(<<>>) - 1) = {}
      BY <2>1, <2>2
    <3> QED BY <3>1 DEF WellFormed, Open
  <2>3. CASE starts # {}
    <3>1. starts \in SUBSET Nat /\ starts \in SUBSET (1..n)
      <4>1. n - HistCap + 2 \in Nat /\ n - HistCap + 2 >= 1
        BY <1>0, <1>2
      <4> HIDE DEF n
      <4> QED BY <1>0, <4>1
    <3>2. \E i \in starts : \A j \in starts : i <= j
      <4> HIDE DEF starts
      <4> QED BY <2>3, <3>1, Smallest
    <3>3. first \in starts
      <4> HIDE DEF starts
      <4> QED BY <3>2
    <3> HIDE DEF first
    <3>4. first \in 1..n /\ h[first].role = "user"
      BY <3>1, <3>3
    <3> DEFINE c == SubSeq(h, first, n)
               m == (n - first) + 1
    <3>5. /\ c \in Seq(Message) /\ Len(c) = m /\ m \in Nat /\ m >= 1
          /\ \A i \in 1..m : c[i] = h[(first + i) - 1]
      <4>1. \A i \in first..n : h[i] \in Message
        BY <3>4
      <4>2. /\ c \in Seq(Message) /\ Len(c) = IF first <= n THEN n - first + 1 ELSE 0
            /\ \A i \in 1..(n - first + 1) : c[i] = h[first + i - 1]
        BY <1>0, <3>4, <4>1, SubSeqProperties
      <4>3. first <= n /\ m \in Nat /\ m >= 1
        <5> HIDE DEF n
        <5> QED BY <1>0, <3>4
      <4> QED BY <4>2, <4>3
    <3>6. CapHistory(h) = c
      BY <2>1, <2>3
    <3> HIDE DEF c, starts
    <3>7. c[1].role = "user"
      <4>1. 1 \in 1..m /\ (first + 1) - 1 = first
        BY <3>4, <3>5
      <4> HIDE DEF m
      <4> QED BY <3>4, <3>5, <4>1
    <3>8. ASSUME NEW i \in 1..(m - 1) PROVE Follow(c, i)
      <4> DEFINE k == (first + i) - 1
      <4>1. i \in 1..m /\ i + 1 \in 1..m /\ k \in 1..(n - 1) /\ (first + (i + 1)) - 1 = k + 1
        <5> HIDE DEF n
        <5> QED BY <1>0, <3>4, <3>5
      <4>2. c[i] = h[k]
        <5> HIDE DEF m
        <5> QED BY <3>5, <4>1
      <4>3. c[i + 1] = h[k + 1]
        <5>1. c[i + 1] = h[(first + (i + 1)) - 1]
          <6> HIDE DEF m, k
          <6> QED BY <3>5, <4>1
        <5> HIDE DEF k
        <5> QED BY <4>1, <5>1
      <4> HIDE DEF k
      <4>4. Follow(h, k)
        BY <4>1 DEF WellFormed
      <4> QED BY <4>2, <4>3, <4>4 DEF Follow
    <3>9. c[m] = h[n]
      <4>1. m \in 1..m /\ (first + m) - 1 = n
        <5> HIDE DEF n
        <5> QED BY <1>0, <3>4, <3>5
      <4> HIDE DEF m
      <4> QED BY <3>5, <4>1
    <3>10. ~Open(c)
      <4>1. h # <<>>
        BY <3>4
      <4> HIDE DEF m
      <4> QED BY <3>5, <3>9, <4>1 DEF Open
    <3> HIDE DEF m
    <3> QED BY <3>5, <3>6, <3>7, <3>8, <3>10 DEF WellFormed
  <2> QED BY <2>2, <2>3
<1> QED BY <1>1, <1>2

-----------------------------------------------------------------------------
(* The invariant.                                                           *)

Calling == {"calling", "executing", "giving up"}

\* Of a running session: tool uses are open while the run is at them.
Talking == /\ WellFormed(history) /\ WellFormed(historyDisk)
           /\ IF pc \in Calling THEN Open(history) /\ history[Len(history)].ids = uses
                                ELSE ~Open(history)
           /\ Open(historyDisk) => pc \in Calling
           /\ pc \in Calling \cup {"turn", "asking"} => history # <<>>

HistoryUp == phase = "up" /\ ~tornBoot /\ Len(events) < LogCap => Talking

\* Of a file: tool uses were left open by a run that its log shows.
HistoryFile ==
  phase \in {"down", "restored"} /\ ~tornBoot /\ Len(eventsDisk) < LogCap =>
    /\ WellFormed(historyDisk)
    /\ Open(historyDisk) => Replayed(eventsDisk).status = "working"

\* Of a boot: nothing is left open.
HistoryBoot ==
  phase \in {"restored", "half"} /\ ~tornBoot /\ Len(events) < LogCap =>
    WellFormed(history) /\ ~Open(history)

ConvInv == RunInv /\ HistoryUp /\ HistoryFile /\ HistoryBoot

\* The log does not shrink but in a crash, a restore or a save.
LEMMA LogGrows ==
  ASSUME RunInv, [Next]_vars, ~Crash, ~Restore, ~SaveEvents, Len(events') < LogCap
  PROVE  Len(events) < LogCap
<1>1. CallsOK /\ PlacesOK /\ Control /\ TypeOK
  BY TypeParts DEF RunInv
<1>2. UNCHANGED logVars \/ \E kind \in Kinds, id \in Nat : Emit(kind, id)
  BY <1>1, LogSteps
<1> QED BY <1>1, <1>2, EmitFacts DEF logVars

\* Steps that leave the history alone.
LEMMA QuietSteps ==
  ASSUME ConvInv, [Next]_vars,
         \/ Receive \/ BeginRun \/ EmitInstruction \/ EmitWorking \/ StartTurn \/ OutOfTurns
         \/ AskCancelled \/ CallTool \/ ToolCancelled \/ ReportLimit \/ TellInterrupted
         \/ EmitOutcome \/ ProviderFails \/ ToolReturns \/ Submit \/ Interrupt
  PROVE  HistoryUp' /\ HistoryFile' /\ HistoryBoot'
<1>1. /\ phase = "up" /\ phase' = "up" /\ UNCHANGED <<histVars, tornBoot>>
      /\ pc \in Calling <=> pc' \in Calling
      /\ pc \in Calling => uses' = uses
      /\ pc' \in {"turn", "asking"} => pc \in {"turn", "asking"}
      /\ ~Crash /\ ~Restore /\ ~SaveEvents
  BY DEF Receive, BeginRun, EmitInstruction, EmitWorking, StartTurn, OutOfTurns, AskCancelled,
     CallTool, ToolCancelled, ReportLimit, TellInterrupted, EmitOutcome, ProviderFails,
     ToolReturns, Submit, Interrupt, At, Goto, Frame, runVars, ghostVars, Calling,
     Crash, Restore, SaveEvents
<1>2. Len(events') < LogCap => Len(events) < LogCap
  BY <1>1, LogGrows DEF ConvInv
<1>3. HistoryUp'
  <2> SUFFICES ASSUME ~tornBoot, Len(events) < LogCap PROVE Talking'
    BY <1>1, <1>2 DEF HistoryUp
  <2>1. Talking
    BY <1>1 DEF ConvInv, HistoryUp
  <2> QED BY <1>1, <2>1 DEF Talking, histVars
<1> QED BY <1>1, <1>3 DEF HistoryFile, HistoryBoot

\* Steps that push a message: the first one, an answer, or results.
LEMMA PushSteps ==
  ASSUME ConvInv, [Next]_vars,
         PushInstruction \/ FinalAnswer \/ ToolUses \/ PushInterrupted \/ PushResults
  PROVE  HistoryUp' /\ HistoryFile' /\ HistoryBoot'
<1>1. /\ phase = "up" /\ phase' = "up" /\ UNCHANGED <<logVars, tornBoot>>
  BY DEF PushInstruction, FinalAnswer, ToolUses, PushInterrupted, PushResults, At, Frame,
     ghostVars
<1>2. HistoryUp'
  <2> SUFFICES ASSUME ~tornBoot, Len(events) < LogCap PROVE Talking'
    BY <1>1 DEF HistoryUp, logVars
  <2>1. Talking
    BY <1>1 DEF ConvInv, HistoryUp
  <2>2. history \in Seq(Message) /\ uses \in Seq(Nat)
    BY DEF ConvInv, RunInv, TypeOK
  <2>3. ASSUME NEW msg \in Message, Push(msg),
               history = <<>> => msg.role = "user",
               IF Open(history) THEN msg.role = "results" /\ msg.ids = history[Len(history)].ids
                                ELSE msg.role # "results"
        PROVE  /\ WellFormed(history') /\ history' # <<>> /\ historyDisk' = history'
               /\ history'[Len(history')] = msg
               /\ Open(history') <=> msg.role = "assistant" /\ msg.ids # <<>>
    <3>1. history' = Append(history, msg) /\ historyDisk' = history'
      BY <2>3 DEF Push
    <3>2. WellFormed(history)
      BY <2>1 DEF Talking
    <3>3. /\ WellFormed(Append(history, msg)) /\ Append(history, msg) # <<>>
          /\ Append(history, msg)[Len(Append(history, msg))] = msg
          /\ Open(Append(history, msg)) <=> msg.role = "assistant" /\ msg.ids # <<>>
      BY <2>2, <2>3, <3>2, Pushed
    <3> QED BY <3>1, <3>3
  <2>4. CASE PushInstruction
    <3>0. PICK text \in BOOLEAN : Push(UserText(text))
      BY <2>4 DEF PushInstruction
    <3> DEFINE msg == UserText(text)
    <3>1. msg \in Message /\ msg.role = "user"
      BY DEF UserText, Message
    <3>2. Push(msg) /\ pc = "working" /\ pc' = "turn"
      BY <2>4, <3>0 DEF PushInstruction, At, Goto
    <3> HIDE DEF msg
    <3>3. ~Open(history)
      BY <2>1, <3>2 DEF Talking, Calling
    <3>4. WellFormed(history') /\ history' # <<>> /\ historyDisk' = history' /\ ~Open(history')
      BY <2>3, <3>1, <3>2, <3>3
    <3> QED BY <3>2, <3>4 DEF Talking, Calling
  <2>5. CASE FinalAnswer
    <3>0. PICK text \in BOOLEAN : Push(Assistant(<<>>, text))
      BY <2>5 DEF FinalAnswer
    <3> DEFINE msg == Assistant(<<>>, text)
    <3>1. msg \in Message /\ msg.role = "assistant" /\ msg.ids = <<>>
      BY DEF Assistant, Message
    <3>2. Push(msg) /\ pc = "asking" /\ pc' = "limit"
      BY <2>5, <3>0 DEF FinalAnswer, At, Goto
    <3>3. ~Open(history) /\ history # <<>>
      BY <2>1, <3>2 DEF Talking, Calling
    <3> HIDE DEF msg
    <3>4. WellFormed(history') /\ historyDisk' = history' /\ ~Open(history')
      BY <2>3, <3>1, <3>2, <3>3
    <3> QED BY <3>2, <3>4 DEF Talking, Calling
  <2>6. CASE ToolUses
    <3> DEFINE msg == Assistant(uses', FALSE)
    <3>1. uses' \in Seq(Nat) /\ uses' # <<>>
      <4>1. uses' \in Seq(Nat)
        BY RunStep DEF ConvInv, RunInv, TypeOK
      <4>2. PICK n \in 1..MaxUses : uses' = [i \in 1..n |-> nextId + i]
        BY <2>6 DEF ToolUses
      <4>3. Len(uses') = n /\ n # 0
        BY <4>2
      <4> QED BY <4>1, <4>3
    <3>2. msg \in Message /\ msg.role = "assistant" /\ msg.ids = uses'
      BY <3>1 DEF Assistant, Message
    <3>3. Push(msg) /\ pc = "asking" /\ pc' = "calling"
      BY <2>6 DEF ToolUses, At, Goto
    <3>4. ~Open(history) /\ history # <<>>
      BY <2>1, <3>3 DEF Talking, Calling
    <3> HIDE DEF msg
    <3>5. /\ WellFormed(history') /\ history' # <<>> /\ historyDisk' = history'
          /\ Open(history') /\ history'[Len(history')] = msg
      BY <2>3, <3>1, <3>2, <3>3, <3>4
    <3> QED BY <3>2, <3>3, <3>5 DEF Talking, Calling
  <2>7. CASE PushInterrupted \/ PushResults
    <3> DEFINE msg == Results(uses)
    <3>1. msg \in Message /\ msg.role = "results" /\ msg.ids = uses
      BY <2>2 DEF Results, Message
    <3>2. Push(msg) /\ pc \in Calling /\ pc' \in {"turn", "limit"}
      BY <2>7 DEF PushInterrupted, PushResults, At, Goto, Calling
    <3>3. Open(history) /\ history[Len(history)].ids = uses /\ history # <<>>
      BY <2>1, <3>2 DEF Talking
    <3> HIDE DEF msg
    <3>4. WellFormed(history') /\ history' # <<>> /\ historyDisk' = history' /\ ~Open(history')
      BY <2>3, <3>1, <3>2, <3>3
    <3> QED BY <3>2, <3>4 DEF Talking, Calling
  <2> QED BY <2>4, <2>5, <2>6, <2>7
<1> QED BY <1>1, <1>2 DEF HistoryFile, HistoryBoot

LEMMA EndRunTalks ==
  ASSUME ConvInv, EndRun
  PROVE  HistoryUp' /\ HistoryFile' /\ HistoryBoot'
<1>1. /\ phase = "up" /\ phase' = "up" /\ UNCHANGED <<logVars, tornBoot>>
      /\ pc = "ending" /\ pc' = "waiting"
      /\ historyDisk' = history /\ history' = CapHistory(history)
  BY DEF EndRun, At, Goto, Frame, ghostVars
<1>2. HistoryUp'
  <2> SUFFICES ASSUME ~tornBoot, Len(events) < LogCap PROVE Talking'
    BY <1>1 DEF HistoryUp, logVars
  <2>1. WellFormed(history) /\ ~Open(history)
    BY <1>1 DEF ConvInv, HistoryUp, Talking, Calling
  <2>2. WellFormed(CapHistory(history)) /\ ~Open(CapHistory(history))
    BY <2>1, Cut DEF ConvInv, RunInv, TypeOK
  <2> QED BY <1>1, <2>1, <2>2 DEF Talking, Calling
<1> QED BY <1>1, <1>2 DEF HistoryFile, HistoryBoot

LEMMA CrashKeepsFile ==
  ASSUME ConvInv, Crash
  PROVE  HistoryUp' /\ HistoryFile' /\ HistoryBoot'
<1>1. /\ phase # "down" /\ phase' = "down" /\ UNCHANGED <<eventsDisk, historyDisk>>
      /\ tornBoot' = (tornBoot \/ phase = "half")
  BY DEF Crash
<1>2. HistoryFile'
  <2> SUFFICES ASSUME ~tornBoot, phase # "half", Len(eventsDisk) < LogCap
               PROVE  /\ WellFormed(historyDisk)
                      /\ Open(historyDisk) => Replayed(eventsDisk).status = "working"
    BY <1>1 DEF HistoryFile
  <2>1. CASE phase = "up"
    <3>1. eventsDisk = events /\ state = Replayed(events)
      BY <2>1 DEF ConvInv, RunInv, Agrees
    <3>2. Talking
      BY <2>1, <3>1 DEF ConvInv, HistoryUp
    <3>3. pc \in Calling => state.status = "working"
      BY <2>1, <3>1 DEF ConvInv, RunInv, ShowsRun, Calling
    <3> QED BY <3>1, <3>2, <3>3 DEF Talking
  <2>2. CASE phase = "restored"
    BY <2>2 DEF ConvInv, HistoryFile
  <2> QED BY <1>1, <2>1, <2>2 DEF ConvInv, RunInv, TypeOK
<1> QED BY <1>1, <1>2 DEF HistoryUp, HistoryBoot

LEMMA BootTalks ==
  ASSUME ConvInv, Boot
  PROVE  HistoryUp' /\ HistoryFile' /\ HistoryBoot'
<1>0. tornBoot' = tornBoot
  BY DEF Boot, Restore, SaveEvents, SaveHistory, ghostVars
<1>1. CASE Restore
  <2> DEFINE st == Replayed(eventsDisk)
  <2>1. /\ phase = "down" /\ phase' = "restored" /\ UNCHANGED <<eventsDisk, historyDisk>>
    BY <1>1 DEF Restore
  <2>2. HistoryFile'
    BY <1>0, <2>1 DEF ConvInv, HistoryFile
  <2>3. Len(events') < LogCap => Len(eventsDisk) < LogCap
    <3>1. eventsDisk \in Seq(LogEvent) /\ Closing(st) \in Seq(LogEvent)
      BY <1>1, RestoreFacts, TypeParts DEF ConvInv, RunInv, LogsOK
    <3>2. events' = eventsDisk \/ events' = Newest(eventsDisk \o Closing(st))
      BY <1>1 DEF Restore
    <3> HIDE DEF st
    <3>3. /\ eventsDisk \o Closing(st) \in Seq(LogEvent)
          /\ Len(eventsDisk \o Closing(st)) = Len(eventsDisk) + Len(Closing(st))
          /\ Len(eventsDisk) \in Nat /\ Len(Closing(st)) \in Nat
      BY <3>1, ConcatProperties
    <3>4. Len(Newest(eventsDisk \o Closing(st))) < LogCap
            => Newest(eventsDisk \o Closing(st)) = eventsDisk \o Closing(st)
      BY <3>3, NewestType
    <3>5. LogCap \in Nat
      BY DEF CapAssumption
    <3> DEFINE x == Len(eventsDisk)
               y == Len(Closing(st))
    <3>6. x + y < LogCap => x < LogCap
      <4>1. x \in Nat /\ y \in Nat
        BY <3>3
      <4> HIDE DEF x, y
      <4> QED BY <3>5, <4>1
    <3> QED BY <3>2, <3>3, <3>4, <3>6
  <2>4. HistoryBoot'
    <3> SUFFICES ASSUME ~tornBoot, Len(eventsDisk) < LogCap
                 PROVE  WellFormed(history') /\ ~Open(history')
      BY <1>0, <2>3 DEF HistoryBoot
    <3>1. WellFormed(historyDisk) /\ (Open(historyDisk) => st.status = "working")
      BY <2>1 DEF ConvInv, HistoryFile
    <3>2. CASE st.status = "working"
      <4>1. history' = historyDisk \o Unresolved(historyDisk)
        BY <1>1, <3>2 DEF Restore
      <4> QED BY <3>1, <4>1, Resolved DEF ConvInv, RunInv, TypeOK
    <3>3. CASE st.status # "working"
      <4>1. history' = historyDisk
        BY <1>1, <3>3 DEF Restore
      <4> QED BY <3>1, <3>3, <4>1
    <3> QED BY <3>2, <3>3
  <2> QED BY <2>1, <2>2, <2>4 DEF HistoryUp
<1>2. CASE SaveEvents
  <2>1. phase = "restored" /\ phase' = "half" /\ UNCHANGED <<events, history>>
    BY <1>2 DEF SaveEvents, histVars
  <2> QED BY <1>0, <2>1 DEF ConvInv, HistoryUp, HistoryFile, HistoryBoot
<1>3. CASE SaveHistory
  <2>1. /\ phase = "half" /\ phase' = "up" /\ UNCHANGED <<events, history, pc>>
        /\ historyDisk' = history
    BY <1>3 DEF SaveHistory, logVars, runVars
  <2>2. pc = "waiting"
    BY <2>1 DEF ConvInv, RunInv, Control
  <2> QED BY <1>0, <2>1, <2>2 DEF ConvInv, HistoryUp, HistoryFile, HistoryBoot, Talking, Calling
<1> QED BY <1>1, <1>2, <1>3 DEF Boot

LEMMA ConvStep == ConvInv /\ [Next]_vars => ConvInv'
<1> SUFFICES ASSUME ConvInv, [Next]_vars PROVE ConvInv'
  OBVIOUS
<1>1. RunInv'
  BY RunStep DEF ConvInv
<1>2. CASE UNCHANGED vars
  <2>1. UNCHANGED <<phase, tornBoot, events, eventsDisk, history, historyDisk, pc, uses>>
    BY <1>2 DEF vars, ghostVars, logVars, histVars, runVars
  <2> QED BY <1>1, <2>1
          DEF ConvInv, HistoryUp, HistoryFile, HistoryBoot, Talking
<1>3. CASE \/ Receive \/ BeginRun \/ EmitInstruction \/ EmitWorking \/ StartTurn \/ OutOfTurns
           \/ AskCancelled \/ CallTool \/ ToolCancelled \/ ReportLimit \/ TellInterrupted
           \/ EmitOutcome \/ ProviderFails \/ ToolReturns \/ Submit \/ Interrupt
  BY <1>1, <1>3, QuietSteps DEF ConvInv
<1>4. CASE PushInstruction \/ FinalAnswer \/ ToolUses \/ PushInterrupted \/ PushResults
  BY <1>1, <1>4, PushSteps DEF ConvInv
<1>5. CASE EndRun
  BY <1>1, <1>5, EndRunTalks DEF ConvInv
<1>6. CASE Crash
  BY <1>1, <1>6, CrashKeepsFile DEF ConvInv
<1>7. CASE Boot
  BY <1>1, <1>7, BootTalks DEF ConvInv
<1> QED BY <1>2, <1>3, <1>4, <1>5, <1>6, <1>7 DEF Next, OwnStep, Answer

LEMMA ConvInvariant == Spec => []ConvInv
<1>1. Init => ConvInv
  <2> SUFFICES ASSUME Init PROVE ConvInv
    OBVIOUS
  <2>1. /\ phase = "up" /\ pc = "waiting" /\ history = <<>> /\ historyDisk = <<>>
    BY DEF Init
  <2>2. WellFormed(<<>>) /\ ~Open(<<>>)
    <3>1. 1..(Len(<<>>) - 1) = {}
      OBVIOUS
    <3> QED BY <3>1 DEF WellFormed, Open
  <2> QED BY <2>1, <2>2, RunInit
          DEF ConvInv, HistoryUp, HistoryFile, HistoryBoot, Talking, Calling
<1> QED BY <1>1, ConvStep, PTL DEF Spec

-----------------------------------------------------------------------------
\* As long as no event has been dropped from the log, the tool uses and results
\* of every request pair as either provider demands it, and the request is one
\* that either accepts unless the user or the model has said nothing at all:
\* whatever was interrupted, failed or cut before it and wherever a crash fell,
\* except between the two saves of a boot (run_instruction, cap_history_rule,
\* Session::restore, messages_json).
THEOREM RequestsStayPaired == Spec => [](Len(events) < LogCap => RequestsPaired)
<1>1. ConvInv => (Len(events) < LogCap => RequestsPaired)
  <2> SUFFICES ASSUME ConvInv, Len(events) < LogCap, ~tornBoot, At("asking")
               PROVE  Matched(history) /\ (Worded(history) => Accepted(history))
    BY DEF RequestsPaired, ConversationContinues
  <2>1. WellFormed(history) /\ ~Open(history) /\ history # <<>>
    BY DEF ConvInv, HistoryUp, Talking, Calling, At
  <2>2. history \in Seq(Message)
    BY DEF ConvInv, RunInv, TypeOK
  <2> QED BY <2>1, <2>2, OpenAiIsPleased, AnthropicIsPleased DEF Accepted, Matched
<1> QED BY <1>1, ConvInvariant, PTL

=============================================================================
