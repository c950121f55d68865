---------------------------- MODULE RunOnceProofs ----------------------------
(***************************************************************************)
(* Theorems about a client that stays with its session over broken         *)
(* connections, for every cap of the log, capacity of the channel, number  *)
(* of commands, runs and breaks.                                           *)
(***************************************************************************)
EXTENDS RunOnce, SequenceTheorems, TLAPS

USE CapAssumption, BoundAssumption

-----------------------------------------------------------------------------
(* Type correctness.                                                        *)

Texts == ToSet(Commands) \cup {"other"}
SessionEvent == [kind : Kinds \ {"hello"}, who : Texts \cup {"agent", "client", "server"}]
Wire == [seq : Nat, ev : SessionEvent]
          \cup [seq : {0}, ev : [kind : {"hello"}, who : {"server"}], replay : Nat]

SessionOK == /\ stream \in Seq(SessionEvent) /\ queue \in Seq(Texts)
             /\ doing \in {"none", "begun", "working"}
             /\ tools \in 0..MaxTools /\ others \in 0..MaxOthers

\* A connection that is not attached carries nothing.
LinkOK == /\ attached \in BOOLEAN /\ breaks \in 0..MaxBreaks /\ floors \subseteq Nat
          /\ down \in Seq(Wire) /\ up \in Seq(Texts) /\ limbo \in Seq(Texts)
          /\ attached => client \in {"greeting", "online"}
          /\ ~attached => down = <<>>

ClientOK == /\ client \in {"offline", "greeting", "online", "done"}
            /\ known \in BOOLEAN /\ lastSeq \in Nat /\ cmds \in Seq(Texts)
            /\ evts \in Seq(Wire) /\ Len(evts) <= ChanCap

OnceOK == /\ baseline \in Nat
          /\ ours \in BOOLEAN /\ working \in BOOLEAN /\ failed \in BOOLEAN
          /\ lastTool \in {"none", "tool ok", "tool failed"}
          /\ exit \in {"none", "success", "failed run", "gave up"}
          /\ shown \in Seq(Nat)

Typed == SessionOK /\ LinkOK /\ ClientOK /\ OnceOK

LEMMA TypedImplies == Typed => TypeOK
<1> SUFFICES ASSUME Typed PROVE TypeOK
  OBVIOUS
<1>1. \A i \in DOMAIN stream : stream[i].kind \in Kinds
  <2> SUFFICES ASSUME NEW i \in DOMAIN stream PROVE stream[i].kind \in Kinds
    OBVIOUS
  <2>1. stream[i] \in SessionEvent
    BY DEF Typed, SessionOK
  <2> QED BY <2>1 DEF SessionEvent
<1> QED BY <1>1 DEF Typed, SessionOK, LinkOK, ClientOK, OnceOK, TypeOK

\* What the head of a queue is.
LEMMA HeadTyped ==
  ASSUME NEW S, NEW s \in Seq(S), s # <<>>
  PROVE  /\ Head(s) \in S /\ Tail(s) \in Seq(S) /\ Head(s) = s[1]
         /\ Len(s) \in Nat /\ Len(s) >= 1 /\ Len(Tail(s)) = Len(s) - 1
         /\ DOMAIN s = 1..Len(s) /\ DOMAIN Tail(s) = 1..Len(Tail(s))
         /\ \A i \in 1..Len(Tail(s)) : Tail(s)[i] = s[i + 1]
BY HeadTailProperties

\* What appending gives.
LEMMA AppendTyped ==
  ASSUME NEW S, NEW s \in Seq(S), NEW x \in S
  PROVE  /\ Append(s, x) \in Seq(S) /\ Append(s, x) # <<>>
         /\ Len(s) \in Nat /\ Len(Append(s, x)) = Len(s) + 1
         /\ DOMAIN s = 1..Len(s) /\ DOMAIN Append(s, x) = 1..(Len(s) + 1)
         /\ \A i \in 1..Len(s) : Append(s, x)[i] = s[i]
         /\ Append(s, x)[Len(s) + 1] = x
BY AppendProperties

LEMMA SingleTyped ==
  ASSUME NEW S, NEW x \in S
  PROVE  <<x>> \in Seq(S) /\ Len(<<x>>) = 1 /\ <<x>>[1] = x
OBVIOUS

LEMMA SubsetTyped ==
  ASSUME NEW S, NEW T, S \subseteq T, NEW s \in Seq(S)
  PROVE  s \in Seq(T)
<1>1. Len(s) \in Nat /\ s \in [1..Len(s) -> S]
  BY LenProperties
<1>2. s \in [1..Len(s) -> T]
  BY <1>1
<1> QED BY <1>1, <1>2

LEMMA EmptyTyped == \A S : <<>> \in Seq(S) /\ Len(<<>>) = 0 /\ DOMAIN <<>> = {}
OBVIOUS

\* The envelope of an event, a broken connection and a hello.
LEMMA WireTyped ==
  /\ \A n \in Nat : \A ev \in SessionEvent : Envelope(n, ev) \in Wire
  /\ ConnError \in Wire
  /\ \A n \in Nat : Hello(n) \in Wire
  /\ \A x \in Wire : x.seq \in Nat /\ (x.ev.kind = "hello" => x.replay \in Nat)
<1>1. Event("error", "client") \in SessionEvent
  BY DEF Event, SessionEvent, Kinds
<1>2. /\ \A n \in Nat : \A ev \in SessionEvent : Envelope(n, ev) \in Wire
      /\ ConnError \in Wire
  BY <1>1 DEF Envelope, ConnError, Wire
<1>3. \A n \in Nat : Hello(n) \in Wire
  BY DEF Hello, Event, Wire
<1>4. \A x \in Wire : x.seq \in Nat /\ (x.ev.kind = "hello" => x.replay \in Nat)
  BY DEF Wire, SessionEvent
<1> QED BY <1>2, <1>3, <1>4

\* The events of the agent and of the server.
LEMMA EventTyped ==
  /\ \A kind \in Kinds \ {"hello"} : \A who \in Texts \cup {"agent", "client", "server"} :
       Event(kind, who) \in SessionEvent
BY DEF Event, SessionEvent

LEMMA EmitTyped ==
  ASSUME Typed, NEW ev \in SessionEvent, Emit(ev)
  PROVE  /\ stream' \in Seq(SessionEvent) /\ Len(stream') = Len(stream) + 1
         /\ down' \in Seq(Wire) /\ (~attached => down' = down)
         /\ attached => down' = Append(down, Envelope(Len(stream) + 1, ev))
         /\ UNCHANGED <<attached, up, limbo, floors, breaks, client, known, lastSeq, cmds, evts>>
<1>1. /\ stream \in Seq(SessionEvent) /\ down \in Seq(Wire) /\ attached \in BOOLEAN
  BY DEF Typed, SessionOK, LinkOK
<1>2. stream' \in Seq(SessionEvent) /\ Len(stream') = Len(stream) + 1 /\ Len(stream) \in Nat
  BY <1>1 DEF Emit
<1>3. Envelope(Len(stream'), ev) \in Wire
  BY <1>2, WireTyped
<1> QED BY <1>1, <1>2, <1>3 DEF Emit, clientVars

\* The snapshot.
LEMMA SnapshotTyped ==
  ASSUME NEW s \in Seq(SessionEvent), NEW n \in Nat, n >= 1, n <= Len(s) + 1
  PROVE  /\ Snapshot(s, n) \in Seq(Wire) /\ Len(Snapshot(s, n)) = Len(s) - n + 1
         /\ \A i \in 1..(Len(s) - n + 1) : /\ Snapshot(s, n)[i].seq = n + i - 1
                                           /\ Snapshot(s, n)[i].ev = s[Snapshot(s, n)[i].seq]
<1> DEFINE k == Len(s) - n + 1
<1>1. k \in Nat /\ Len(s) \in Nat
  OBVIOUS
<1>2. ASSUME NEW i \in 1..k
      PROVE  /\ n + i - 1 \in Nat
             /\ Envelope(n + i - 1, s[n + i - 1]) \in Wire
             /\ Envelope(n + i - 1, s[n + i - 1]).seq = n + i - 1
             /\ Envelope(n + i - 1, s[n + i - 1]).ev = s[n + i - 1]
  <2>1. n + i - 1 \in 1..Len(s) /\ n + i - 1 \in Nat
    OBVIOUS
  <2>2. s[n + i - 1] \in SessionEvent
    BY <2>1
  <2> QED BY <2>1, <2>2, WireTyped DEF Envelope
<1>3. Snapshot(s, n) = [i \in 1..k |-> Envelope(n + i - 1, s[n + i - 1])]
  BY DEF Snapshot
<1> HIDE DEF k
<1>4. Snapshot(s, n) \in Seq(Wire) /\ Len(Snapshot(s, n)) = k
  <2>1. \A i \in 1..k : Envelope(n + i - 1, s[n + i - 1]) \in Wire
    BY <1>2
  <2>2. Snapshot(s, n) \in [1..k -> Wire]
    BY <1>3, <2>1
  <2> QED BY <1>1, <2>2
<1>5. \A i \in 1..k : /\ Snapshot(s, n)[i].seq = n + i - 1
                      /\ Snapshot(s, n)[i].ev = s[Snapshot(s, n)[i].seq]
  BY <1>2, <1>3
<1> QED BY <1>4, <1>5 DEF k

\* What attaching sends: the hello and the snapshot from its first number on.
From(s) == IF Len(s) <= LogCap THEN 1 ELSE Len(s) - LogCap + 1

LEMMA AttachSends ==
  ASSUME Typed, Attach
  PROVE  /\ stream' \in Seq(SessionEvent) /\ queue' \in Seq(Texts)
         /\ From(stream') \in Nat /\ From(stream') >= 1 /\ Len(stream') \in Nat
         /\ floors' = floors \cup {From(stream')}
         /\ down' \in Seq(Wire) /\ down' # <<>> /\ Head(down').seq = 0
         /\ Len(down') + From(stream') = Len(stream') + 2
         /\ \A i \in 2..Len(down') : /\ down'[i].seq + Len(down') = Len(stream') + i
                                     /\ down'[i].ev = stream'[down'[i].seq]
         /\ Head(down').ev.kind = "hello" /\ Head(down').replay = Len(stream')
<1>1. /\ stream' \in Seq(SessionEvent) /\ queue' \in Seq(Texts)
      /\ down' = <<Hello(Len(stream'))>> \o Snapshot(stream', From(stream'))
      /\ floors' = floors \cup {From(stream')}
  BY DEF Typed, SessionOK, Attach, From
<1> DEFINE n == From(stream')
           l == Len(stream')
           h == <<Hello(l)>>
           t == Snapshot(stream', n)
<1>2. n \in Nat /\ n >= 1 /\ n <= l + 1 /\ l \in Nat
  BY <1>1 DEF From
<1>3. /\ t \in Seq(Wire) /\ Len(t) = l - n + 1
      /\ \A i \in 1..(l - n + 1) : t[i].seq = n + i - 1 /\ t[i].ev = stream'[t[i].seq]
  BY <1>1, <1>2, SnapshotTyped
<1>4. /\ h \in Seq(Wire) /\ Len(h) = 1 /\ h[1].seq = 0
      /\ h[1].ev.kind = "hello" /\ h[1].replay = l
  BY <1>2, WireTyped DEF Hello, Event
<1> HIDE DEF n, l, h, t
<1>5. /\ h \o t \in Seq(Wire) /\ Len(h \o t) = l - n + 2
      /\ \A i \in 1..(l - n + 2) : (h \o t)[i] = IF i <= 1 THEN h[i] ELSE t[i - 1]
  <2>1. Len(h) + Len(t) = l - n + 2
    BY <1>2, <1>3, <1>4
  <2>2. /\ h \o t \in Seq(Wire) /\ Len(h \o t) = Len(h) + Len(t)
        /\ \A i \in 1..(Len(h) + Len(t)) :
             (h \o t)[i] = IF i <= Len(h) THEN h[i] ELSE t[i - Len(h)]
    BY <1>3, <1>4, ConcatProperties
  <2> QED BY <1>4, <2>1, <2>2
<1>6. /\ (h \o t)[1].seq = 0 /\ h \o t # <<>> /\ Head(h \o t) = (h \o t)[1]
      /\ (h \o t)[1].ev.kind = "hello" /\ (h \o t)[1].replay = l
  BY <1>2, <1>4, <1>5
<1>7. ASSUME NEW i \in 2..(l - n + 2)
      PROVE  /\ (h \o t)[i].seq + (l - n + 2) = l + i
             /\ (h \o t)[i].ev = stream'[(h \o t)[i].seq]
  <2>1. i \in 1..(l - n + 2) /\ ~(i <= 1) /\ i - 1 \in 1..(l - n + 1)
    BY <1>2
  <2>2. (h \o t)[i].seq = n + (i - 1) - 1 /\ (h \o t)[i].ev = stream'[(h \o t)[i].seq]
    BY <1>3, <1>5, <2>1
  <2> QED BY <1>2, <2>1, <2>2
<1>8. (l - n + 2) + n = l + 2
  BY <1>2
<1> QED BY <1>1, <1>2, <1>5, <1>6, <1>7, <1>8 DEF n, l, h, t

\* What a broken connection leaves.
LEMMA LostTyped ==
  ASSUME Typed, Lost
  PROVE  /\ client' = "offline" /\ attached' = FALSE /\ down' = <<>> /\ up' = <<>>
         /\ evts' = Append(evts, ConnError) /\ evts' \in Seq(Wire) /\ Len(evts') <= ChanCap
         /\ breaks' \in 0..MaxBreaks
BY WireTyped DEF Typed, ClientOK, LinkOK, Lost, Show

\* What a restart of the server leaves: it carries out no instruction.
Unasked == {ev \in SessionEvent : ev.kind # "instruction"}

LEMMA RestartTyped ==
  ASSUME Typed, ServerRestarts
  PROVE  /\ client' = "offline" /\ attached' = FALSE /\ down' = <<>> /\ limbo' = <<>>
         /\ queue' = <<>> /\ doing' = "none" /\ up' \in Seq(Texts) /\ (up' = <<>> \/ up' = up)
         /\ evts' = evts \/ evts' = Append(evts, ConnError)
         /\ evts' \in Seq(Wire) /\ Len(evts') <= ChanCap /\ breaks' \in 0..MaxBreaks
         /\ \/ stream' = stream
            \/ \E ends \in Seq(Unasked) : stream' = stream \o ends
         /\ stream' \in Seq(SessionEvent)
         /\ UNCHANGED <<known, lastSeq, cmds, tools, others, floors>>
<1>1. /\ limbo' = <<>> /\ queue' = <<>> /\ doing' = "none"
      /\ UNCHANGED <<known, lastSeq, cmds, tools, others, floors>>
  BY DEF ServerRestarts
<1>2. /\ client' = "offline" /\ attached' = FALSE /\ down' = <<>>
      /\ up' \in Seq(Texts) /\ (up' = <<>> \/ up' = up)
      /\ evts' = evts \/ evts' = Append(evts, ConnError)
      /\ evts' \in Seq(Wire) /\ Len(evts') <= ChanCap /\ breaks' \in 0..MaxBreaks
  <2>1. CASE Lost
    BY <2>1, LostTyped
  <2>2. CASE /\ client = "offline"
             /\ breaks < MaxBreaks /\ breaks' = breaks + 1
             /\ UNCHANGED <<client, attached, down, up, evts>>
    BY <2>2 DEF Typed, LinkOK, ClientOK
  <2> QED BY <2>1, <2>2 DEF ServerRestarts
<1>3. /\ Event("tool failed", "server") \in Unasked
      /\ Event("interrupted", "server") \in Unasked
  BY DEF Event, SessionEvent, Kinds, Unasked
<1>4. /\ \/ stream' = stream
         \/ \E ends \in Seq(Unasked) : stream' = stream \o ends
      /\ stream' \in Seq(SessionEvent)
  <2>1. CASE stream' = stream
    BY <2>1 DEF Typed, SessionOK
  <2>2. ASSUME NEW ends \in Seq(Unasked), stream' = stream \o ends
        PROVE  stream' \in Seq(SessionEvent)
    <3>1. ends \in Seq(SessionEvent) /\ stream \in Seq(SessionEvent)
      <4>1. Unasked \subseteq SessionEvent
        BY DEF Unasked
      <4> QED BY <2>2, <4>1, SubsetTyped DEF Typed, SessionOK
    <3> QED BY <2>2, <3>1, ConcatProperties
  <2>3. /\ <<Event("interrupted", "server")>> \in Seq(Unasked)
        /\ <<Event("tool failed", "server"), Event("interrupted", "server")>> \in Seq(Unasked)
    <3>1. \A S : \A x, y \in S : <<x>> \in Seq(S) /\ <<x, y>> \in Seq(S)
      OBVIOUS
    <3> QED BY <1>3, <3>1, Zenon
  <2>4. CASE stream' = stream \o <<Event("interrupted", "server")>>
    BY <2>2, <2>3, <2>4
  <2>5. CASE stream' = stream \o <<Event("tool failed", "server"), Event("interrupted", "server")>>
    BY <2>2, <2>3, <2>5
  <2> QED BY <2>1, <2>4, <2>5 DEF ServerRestarts
<1> QED BY <1>1, <1>2, <1>4

\* What Take does to the channel and to what has been shown.
LEMMA TakeTyped ==
  ASSUME Typed, Take
  PROVE  /\ evts # <<>> /\ evts' = Tail(evts) /\ Head(evts) \in Wire
         /\ evts' \in Seq(Wire) /\ Len(evts') <= ChanCap
         /\ shown' = IF Head(evts).seq > 0 THEN Append(shown, Head(evts).seq) ELSE shown
         /\ shown' \in Seq(Nat) /\ OnceOK'
         /\ \/ Quit
            \/ UNCHANGED <<client, known, lastSeq, cmds, sessionVars, linkVars>>
<1>1. evts \in Seq(Wire) /\ evts # <<>> /\ Len(evts) <= ChanCap /\ shown \in Seq(Nat)
  BY DEF Typed, ClientOK, OnceOK, Take
<1>2. /\ Head(evts) \in Wire /\ Tail(evts) \in Seq(Wire) /\ Len(Tail(evts)) <= ChanCap
  BY <1>1, HeadTyped
<1>3. Head(evts).seq \in Nat /\ (Head(evts).ev.kind = "hello" => Head(evts).replay \in Nat)
  BY <1>2, WireTyped
<1>4. shown' \in Seq(Nat)
  <2>1. Append(shown, Head(evts).seq) \in Seq(Nat)
    BY <1>1, <1>3, AppendProperties
  <2> QED BY <1>1, <2>1 DEF Take
<1>5. /\ baseline' \in Nat
      /\ ours' \in BOOLEAN /\ working' \in BOOLEAN /\ failed' \in BOOLEAN
      /\ lastTool' \in {"none", "tool ok", "tool failed"}
  BY <1>3 DEF Take, Sees, Typed, OnceOK
<1>6. exit' \in {"none", "success", "failed run", "gave up"}
  BY DEF Take, Typed, OnceOK
<1>7. OnceOK'
  BY <1>4, <1>5, <1>6 DEF OnceOK
<1> QED BY <1>1, <1>2, <1>4, <1>7 DEF Take

\* The program ends.
LEMMA QuitTyped ==
  ASSUME Typed, Quit, evts' \in Seq(Wire), Len(evts') <= ChanCap
  PROVE  SessionOK' /\ LinkOK' /\ ClientOK'
<1>1. limbo' \in Seq(Texts)
  <2>1. limbo \in Seq(Texts) /\ up \in Seq(Texts) /\ limbo' = limbo \o up
    BY DEF Typed, LinkOK, Quit
  <2> QED BY <2>1, ConcatProperties
<1>2. SessionOK /\ LinkOK /\ ClientOK
  BY DEF Typed
<1>3. SessionOK'
  BY <1>2 DEF SessionOK, Quit, sessionVars
<1>4. LinkOK'
  BY <1>1, <1>2, EmptyTyped DEF LinkOK, Quit
<1>5. ClientOK'
  BY <1>2 DEF ClientOK, Quit
<1> QED BY <1>3, <1>4, <1>5

LEMMA TypedInit == OnceInit => Typed
<1> SUFFICES ASSUME OnceInit PROVE Typed
  OBVIOUS
<1>1. Commands \in Seq(Texts)
  BY CommandAssumption, SubsetTyped DEF Texts
<1>2. SessionOK
  BY EmptyTyped DEF OnceInit, Init, SessionOK
<1>3. LinkOK
  <2>1. 0 \in 0..MaxBreaks /\ {} \subseteq Nat
    OBVIOUS
  <2>2. <<>> \in Seq(Wire) /\ <<>> \in Seq(Texts)
    BY EmptyTyped
  <2> QED BY <2>1, <2>2 DEF OnceInit, Init, LinkOK
<1>4. ClientOK
  BY <1>1, EmptyTyped DEF OnceInit, Init, ClientOK
<1>5. OnceOK
  BY EmptyTyped DEF OnceInit, OnceOK
<1> QED BY <1>2, <1>3, <1>4, <1>5 DEF Typed

\* The parts that a step leaves alone.
LEMMA PartsKept ==
  /\ SessionOK /\ UNCHANGED sessionVars => SessionOK'
  /\ LinkOK /\ UNCHANGED <<linkVars, client>> => LinkOK'
  /\ ClientOK /\ UNCHANGED clientVars => ClientOK'
  /\ OnceOK /\ UNCHANGED onceVars => OnceOK'
<1>1. SessionOK /\ UNCHANGED sessionVars => SessionOK'
  BY DEF SessionOK, sessionVars
<1>2. LinkOK /\ UNCHANGED <<linkVars, client>> => LinkOK'
  BY DEF LinkOK, linkVars
<1>3. ClientOK /\ UNCHANGED clientVars => ClientOK'
  BY DEF ClientOK, clientVars
<1>4. OnceOK /\ UNCHANGED onceVars => OnceOK'
  BY DEF OnceOK, onceVars
<1> QED BY <1>1, <1>2, <1>3, <1>4

\* Every step of the session is an event.
LEMMA SessionEmits ==
  ASSUME Typed, Session
  PROVE  SessionOK' /\ \E ev \in SessionEvent : Emit(ev)
<1>0. SessionOK
  BY DEF Typed
<1>1. CASE RunBegins
  <2>1. Head(queue) \in Texts /\ Tail(queue) \in Seq(Texts)
    BY <1>0, <1>1, HeadTyped DEF RunBegins, SessionOK
  <2>2. Event("instruction", Head(queue)) \in SessionEvent
    BY <2>1, EventTyped DEF Kinds
  <2>3. Emit(Event("instruction", Head(queue)))
    BY <1>1 DEF RunBegins
  <2>4. stream' \in Seq(SessionEvent)
    BY <2>2, <2>3, EmitTyped
  <2>5. SessionOK'
    BY <1>0, <1>1, <2>1, <2>4 DEF RunBegins, SessionOK
  <2> QED BY <2>2, <2>3, <2>5
<1>2. CASE RunWorks \/ RunUsesTool \/ RunEnds
  <2>1. \E kind \in {"working", "tool ok", "tool failed", "error", "idle", "interrupted"} :
          Emit(Event(kind, "agent"))
    BY <1>2 DEF RunWorks, RunUsesTool, RunEnds
  <2>2. PICK kind \in Kinds \ {"hello"} : Emit(Event(kind, "agent"))
    BY <2>1 DEF Kinds
  <2>3. Event(kind, "agent") \in SessionEvent
    BY EventTyped
  <2>4. stream' \in Seq(SessionEvent)
    BY <2>2, <2>3, EmitTyped
  <2>5. /\ queue' = queue /\ doing' \in {"none", "begun", "working"} /\ others' = others
        /\ tools' \in 0..MaxTools
    <3>1. CASE RunWorks
      BY <1>0, <3>1 DEF RunWorks, SessionOK
    <3>2. CASE RunUsesTool
      <4>1. tools \in 0..MaxTools /\ tools < MaxTools /\ tools' = tools + 1
        BY <1>0, <3>2 DEF RunUsesTool, SessionOK
      <4>2. tools' \in 0..MaxTools
        BY <4>1
      <4> QED BY <1>0, <3>2, <4>2 DEF RunUsesTool, SessionOK
    <3>3. CASE RunEnds
      BY <1>0, <3>3 DEF RunEnds, SessionOK
    <3> QED BY <1>2, <3>1, <3>2, <3>3
  <2> QED BY <1>0, <2>2, <2>3, <2>4, <2>5 DEF SessionOK
<1> QED BY <1>1, <1>2 DEF Session

LEMMA TypedStep ==
  ASSUME Typed, [Next]_allVars
  PROVE  Typed'
<1>0. SessionOK /\ LinkOK /\ ClientOK /\ OnceOK
  BY DEF Typed
<1> SUFFICES SessionOK' /\ LinkOK' /\ ClientOK' /\ OnceOK'
  BY DEF Typed
<1>1. CASE Session /\ UNCHANGED onceVars
  <2>1. SessionOK' /\ \E ev \in SessionEvent : Emit(ev)
    BY <1>0, <1>1, SessionEmits DEF Typed
  <2>2. /\ down' \in Seq(Wire) /\ (~attached => down' = down)
        /\ UNCHANGED <<attached, up, limbo, floors, breaks, client, known, lastSeq, cmds, evts>>
    BY <2>1, EmitTyped
  <2>3. LinkOK' /\ ClientOK'
    BY <1>0, <2>2 DEF LinkOK, ClientOK
  <2> QED BY <1>0, <1>1, <2>1, <2>3, PartsKept
<1>2. CASE SubmitOther /\ UNCHANGED onceVars
  <2>1. "other" \in Texts /\ queue \in Seq(Texts)
    BY <1>0 DEF SessionOK, Texts
  <2>2. queue' \in Seq(Texts) /\ others' \in 0..MaxOthers
    BY <1>0, <1>2, <2>1, AppendProperties DEF SubmitOther, SessionOK
  <2>3. SessionOK'
    BY <1>0, <1>2, <2>2 DEF SubmitOther, SessionOK
  <2> QED BY <1>0, <1>2, <2>3, PartsKept DEF SubmitOther, clientVars
<1>3. CASE Attach /\ UNCHANGED onceVars
  <2>1. /\ stream' \in Seq(SessionEvent) /\ queue' \in Seq(Texts) /\ floors' \subseteq Nat
        /\ down' \in Seq(Wire)
    BY <1>0, <1>3, AttachSends DEF LinkOK
  <2>2. /\ attached' = TRUE /\ client = "greeting"
        /\ doing' \in {"none", "begun", "working"}
        /\ UNCHANGED <<tools, others, up, limbo, breaks>> /\ UNCHANGED clientVars
    BY <1>0, <1>3 DEF Attach, SessionOK
  <2>3. SessionOK'
    BY <1>0, <2>1, <2>2 DEF SessionOK
  <2>4. LinkOK'
    BY <1>0, <2>1, <2>2 DEF LinkOK, clientVars
  <2> QED BY <1>0, <1>3, <2>2, <2>3, <2>4, PartsKept
<1>4. CASE Command /\ UNCHANGED onceVars
  <2>1. Head(up) \in Texts /\ Tail(up) \in Seq(Texts) /\ queue \in Seq(Texts)
    BY <1>0, <1>4, HeadTyped DEF Command, LinkOK, SessionOK
  <2>2. queue' \in Seq(Texts) /\ up' \in Seq(Texts)
    BY <1>4, <2>1, AppendProperties DEF Command
  <2>3. SessionOK'
    BY <1>0, <1>4, <2>2 DEF Command, SessionOK
  <2>4. LinkOK'
    BY <1>0, <1>4, <2>2 DEF Command, LinkOK, clientVars
  <2> QED BY <1>0, <1>4, <2>3, <2>4, PartsKept DEF Command
<1>5. CASE LateCommand /\ UNCHANGED onceVars
  <2>1. /\ Head(limbo) \in Texts /\ Tail(limbo) \in Seq(Texts) /\ queue \in Seq(Texts)
        /\ <<>> \in Seq(Texts)
    BY <1>0, <1>5, HeadTyped DEF LateCommand, LinkOK, SessionOK
  <2>2. Append(queue, Head(limbo)) \in Seq(Texts)
    BY <2>1, AppendProperties
  <2>3. queue' \in Seq(Texts) /\ limbo' \in Seq(Texts)
    BY <1>5, <2>1, <2>2 DEF LateCommand
  <2>4. SessionOK'
    BY <1>0, <1>5, <2>3 DEF LateCommand, SessionOK
  <2>5. LinkOK'
    BY <1>0, <1>5, <2>3 DEF LateCommand, LinkOK, clientVars
  <2> QED BY <1>0, <1>5, <2>4, <2>5, PartsKept DEF LateCommand
<1>6. CASE Dial /\ UNCHANGED onceVars
  <2>1. LinkOK'
    BY <1>0, <1>6 DEF Dial, LinkOK, linkVars
  <2>2. ClientOK'
    BY <1>0, <1>6 DEF Dial, ClientOK
  <2> QED BY <1>0, <1>6, <2>1, <2>2, PartsKept DEF Dial
<1>7. CASE (Greeted \/ Receive) /\ UNCHANGED onceVars
  <2>1. Head(down) \in Wire /\ Tail(down) \in Seq(Wire) /\ attached
    BY <1>0, <1>7, HeadTyped DEF Greeted, Receive, LinkOK
  <2>2. Head(down).seq \in Nat
    BY <2>1, WireTyped
  <2>3. /\ down' = Tail(down) /\ client' \in {"greeting", "online"}
        /\ known' \in BOOLEAN /\ lastSeq' \in Nat
        /\ evts' = evts \/ (Len(evts) < ChanCap /\ evts' = Append(evts, Head(down)))
        /\ UNCHANGED <<cmds, attached, up, limbo, floors, breaks>> /\ UNCHANGED sessionVars
    BY <1>0, <1>7, <2>2 DEF Greeted, Receive, Show, ClientOK
  <2>4. evts' \in Seq(Wire) /\ Len(evts') <= ChanCap
    <3>1. Append(evts, Head(down)) \in Seq(Wire) /\ Len(Append(evts, Head(down))) = Len(evts) + 1
      BY <1>0, <2>1, AppendTyped DEF ClientOK
    <3>2. evts \in Seq(Wire) /\ Len(evts) <= ChanCap /\ Len(evts) \in Nat
      BY <1>0 DEF ClientOK
    <3> QED BY <2>3, <3>1, <3>2
  <2>5. LinkOK'
    BY <1>0, <2>1, <2>3 DEF LinkOK
  <2>6. ClientOK'
    BY <1>0, <2>3, <2>4 DEF ClientOK
  <2> QED BY <1>0, <1>7, <2>3, <2>5, <2>6, PartsKept
<1>8. CASE SendCommand /\ UNCHANGED onceVars
  <2>1. Head(cmds) \in Texts /\ Tail(cmds) \in Seq(Texts) /\ up \in Seq(Texts)
    BY <1>0, <1>8, HeadTyped DEF SendCommand, ClientOK, LinkOK
  <2>2. up' \in Seq(Texts) /\ cmds' \in Seq(Texts)
    BY <1>8, <2>1, AppendProperties DEF SendCommand
  <2>3. LinkOK'
    BY <1>0, <1>8, <2>2 DEF SendCommand, LinkOK
  <2>4. ClientOK'
    BY <1>0, <1>8, <2>2 DEF SendCommand, ClientOK
  <2> QED BY <1>0, <1>8, <2>3, <2>4, PartsKept DEF SendCommand
<1>9. CASE Rejected /\ UNCHANGED onceVars
  <2>1. evts' = Append(evts, ConnError) /\ Len(evts) < ChanCap /\ breaks' \in 0..MaxBreaks
    BY <1>0, <1>9 DEF Rejected, Show, LinkOK
  <2>2. evts' \in Seq(Wire) /\ Len(evts') <= ChanCap
    BY <1>0, <2>1, WireTyped, AppendProperties DEF ClientOK
  <2>3. LinkOK'
    BY <1>0, <1>9, <2>1 DEF Rejected, LinkOK
  <2>4. ClientOK'
    BY <1>0, <1>9, <2>2 DEF Rejected, ClientOK
  <2> QED BY <1>0, <1>9, <2>3, <2>4, PartsKept DEF Rejected
<1>10. CASE ConnectionBreaks /\ UNCHANGED onceVars
  <2>1. /\ client' = "offline" /\ attached' = FALSE /\ down' = <<>> /\ up' = <<>>
        /\ evts' \in Seq(Wire) /\ Len(evts') <= ChanCap /\ breaks' \in 0..MaxBreaks
    BY <1>10, LostTyped DEF ConnectionBreaks
  <2>2. limbo' \in Seq(Texts)
    <3>1. limbo \in Seq(Texts) /\ up \in Seq(Texts) /\ limbo' = limbo \o up
      BY <1>0, <1>10 DEF ConnectionBreaks, LinkOK
    <3> QED BY <3>1, ConcatProperties
  <2>3. LinkOK'
    BY <1>0, <1>10, <2>1, <2>2, EmptyTyped DEF ConnectionBreaks, LinkOK
  <2>4. ClientOK'
    BY <1>0, <1>10, <2>1 DEF ConnectionBreaks, ClientOK
  <2> QED BY <1>0, <1>10, <2>3, <2>4, PartsKept DEF ConnectionBreaks
<1>11. CASE ServerRestarts /\ UNCHANGED onceVars
  <2>1. /\ client' = "offline" /\ attached' = FALSE /\ down' = <<>> /\ limbo' = <<>>
        /\ queue' = <<>> /\ doing' = "none" /\ up' \in Seq(Texts)
        /\ evts' \in Seq(Wire) /\ Len(evts') <= ChanCap /\ breaks' \in 0..MaxBreaks
        /\ stream' \in Seq(SessionEvent)
        /\ UNCHANGED <<known, lastSeq, cmds, tools, others, floors>>
    BY <1>11, RestartTyped
  <2>2. SessionOK'
    BY <1>0, <2>1 DEF SessionOK
  <2>3. LinkOK'
    BY <1>0, <2>1, EmptyTyped DEF LinkOK
  <2>4. ClientOK'
    BY <1>0, <2>1 DEF ClientOK
  <2> QED BY <1>0, <1>11, <2>2, <2>3, <2>4, PartsKept
<1>12. CASE Take
  <2>1. /\ evts' \in Seq(Wire) /\ Len(evts') <= ChanCap /\ OnceOK'
        /\ \/ Quit
           \/ UNCHANGED <<client, known, lastSeq, cmds, sessionVars, linkVars>>
    BY <1>12, TakeTyped
  <2>2. CASE Quit
    BY <2>1, <2>2, QuitTyped
  <2>3. CASE UNCHANGED <<client, known, lastSeq, cmds, sessionVars, linkVars>>
    <3>1. ClientOK'
      BY <1>0, <2>1, <2>3 DEF ClientOK
    <3> QED BY <1>0, <2>1, <2>3, <3>1, PartsKept
  <2> QED BY <2>1, <2>2, <2>3
<1>13. CASE GiveUp
  <2>1. Quit /\ evts' = evts /\ OnceOK'
    BY <1>0, <1>13 DEF GiveUp, OnceOK
  <2> QED BY <1>0, <2>1, QuitTyped DEF ClientOK
<1>14. CASE UNCHANGED allVars
  <2>1. UNCHANGED sessionVars /\ UNCHANGED linkVars /\ UNCHANGED clientVars /\ UNCHANGED onceVars
    BY <1>14 DEF allVars, vars
  <2> QED BY <1>0, <2>1, PartsKept DEF clientVars
<1> QED
  BY <1>1, <1>2, <1>3, <1>4, <1>5, <1>6, <1>7, <1>8, <1>9, <1>10, <1>11, <1>12, <1>13, <1>14
  DEF Next, Network, Client, Trouble

\* Every variable keeps its type, and the channel to the user interface its
\* capacity: a full one holds the client up (run_once, stream_once).
THEOREM TypeCorrect == Spec => []TypeOK
<1>1. OnceInit => Typed BY TypedInit
<1>2. Typed /\ [Next]_allVars => Typed' BY TypedStep
<1>3. Typed => TypeOK BY TypedImplies
<1> QED BY <1>1, <1>2, <1>3, PTL DEF Spec

-----------------------------------------------------------------------------
(* What the user interface is given.                                        *)

\* No number beyond the last one seen has been given out.
Seen == /\ \A i \in DOMAIN shown : shown[i] >= 1 /\ shown[i] <= lastSeq
        /\ \A i \in DOMAIN evts : evts[i].seq <= lastSeq

\* The last number seen has been given out.
Told == lastSeq >= 1 => lastSeq \in Numbers

Given == Seen /\ Told /\ ShownOnce /\ GapsAreDropped

\* A hello stands at the head of a connection the client has not heard of yet;
\* behind it come the events of the session with their numbers, and the first
\* of them either begins a snapshot or continues what has been seen.
First == IF client = "greeting" THEN 1 ELSE 0

Upcoming == Len(stream) + First + 1 - Len(down)

OnTheWay ==
  attached =>
    /\ client = "greeting" => down # <<>> /\ Head(down).seq = 0
    /\ Len(down) <= Len(stream) + First
    /\ \A i \in (First + 1)..Len(down) : down[i].seq + Len(down) = Len(stream) + i
    /\ \/ Upcoming \in floors
       \/ client = "online" /\ lastSeq >= 1 /\ Upcoming <= lastSeq + 1

FlowInv == Typed /\ Given /\ OnTheWay

\* How the numbers given out change when an envelope is shown or taken.
LEMMA NumbersShown ==
  ASSUME Typed, NEW x \in Wire, evts' = Append(evts, x), shown' = shown
  PROVE  Numbers' = Numbers \cup ({x.seq} \ {0})
<1>1. /\ DOMAIN evts = 1..Len(evts) /\ DOMAIN evts' = 1..(Len(evts) + 1) /\ Len(evts) \in Nat
      /\ \A i \in 1..Len(evts) : evts'[i] = evts[i]
      /\ evts'[Len(evts) + 1] = x
  BY AppendTyped DEF Typed, ClientOK
<1> DEFINE n == Len(evts)
<1>2. 1..(n + 1) = (1..n) \cup {n + 1}
  BY <1>1
<1> HIDE DEF n
<1>3. ToSet(evts') = ToSet(evts) \cup {x}
  <2>1. \A y : y \in ToSet(evts') <=> y \in ToSet(evts) \cup {x}
    BY <1>1, <1>2 DEF ToSet, n
  <2> QED BY <2>1
<1>4. {env.seq : env \in ToSet(evts')} = {env.seq : env \in ToSet(evts)} \cup {x.seq}
  BY <1>3
<1> QED BY <1>4 DEF Numbers

LEMMA NumbersTaken ==
  ASSUME Typed, evts # <<>>, evts' = Tail(evts),
         shown' = IF Head(evts).seq > 0 THEN Append(shown, Head(evts).seq) ELSE shown
  PROVE  Numbers' = Numbers
<1>1. /\ evts \in Seq(Wire) /\ shown \in Seq(Nat)
  BY DEF Typed, ClientOK, OnceOK
<1>2. ToSet(evts) = ToSet(evts') \cup {Head(evts)}
  <2> DEFINE n == Len(evts')
  <2>1. /\ DOMAIN evts = 1..(n + 1) /\ DOMAIN evts' = 1..n /\ n \in Nat
        /\ \A i \in 1..n : evts'[i] = evts[i + 1]
        /\ Head(evts) = evts[1]
    BY <1>1, HeadTyped
  <2> HIDE DEF n
  <2>2. \A i \in 1..(n + 1) : i = 1 \/ (i - 1 \in 1..n /\ i = (i - 1) + 1)
    BY <2>1
  <2>3. 1 \in 1..(n + 1) /\ \A i \in 1..n : i + 1 \in 1..(n + 1)
    BY <2>1
  <2>4. ASSUME NEW i \in 1..(n + 1) PROVE evts[i] \in ToSet(evts') \cup {Head(evts)}
    <3>1. CASE i = 1
      BY <2>1, <3>1
    <3>2. CASE i - 1 \in 1..n /\ i = (i - 1) + 1
      <4>1. evts'[i - 1] = evts[i] /\ i - 1 \in DOMAIN evts'
        BY <2>1, <3>2
      <4> QED BY <4>1 DEF ToSet
    <3> QED BY <2>2, <3>1, <3>2
  <2>5. ASSUME NEW i \in 1..n PROVE evts'[i] \in ToSet(evts)
    BY <2>1, <2>3 DEF ToSet
  <2>6. Head(evts) \in ToSet(evts)
    BY <2>1, <2>3 DEF ToSet
  <2>7. ToSet(evts) \subseteq ToSet(evts') \cup {Head(evts)}
    BY <2>1, <2>4 DEF ToSet
  <2>8. ToSet(evts') \subseteq ToSet(evts)
    BY <2>1, <2>5 DEF ToSet
  <2> QED BY <2>6, <2>7, <2>8
<1> DEFINE x == Head(evts)
<1>3. x.seq \in Nat
  BY <1>1, HeadTyped, WireTyped
<1>4. ToSet(shown') = ToSet(shown) \cup ({x.seq} \ {0})
  <2>1. CASE x.seq > 0
    <3> DEFINE n == Len(shown)
    <3>1. /\ DOMAIN shown = 1..n /\ DOMAIN shown' = 1..(n + 1) /\ n \in Nat
          /\ \A i \in 1..n : shown'[i] = shown[i]
          /\ shown'[n + 1] = x.seq
      BY <1>1, <1>3, <2>1, AppendTyped
    <3> HIDE DEF n, x
    <3>2. 1..(n + 1) = (1..n) \cup {n + 1}
      BY <3>1
    <3>3. \A y : y \in ToSet(shown') <=> y \in ToSet(shown) \cup {x.seq}
      BY <3>1, <3>2 DEF ToSet
    <3> QED BY <2>1, <3>3, <1>3
  <2>2. CASE ~(x.seq > 0)
    BY <1>3, <2>2
  <2> QED BY <2>1, <2>2
<1> HIDE DEF x
<1>5. {env.seq : env \in ToSet(evts)} = {env.seq : env \in ToSet(evts')} \cup {x.seq}
  BY <1>2 DEF x
<1> QED BY <1>4, <1>5 DEF Numbers

\* A message of the connection, which has no number, is shown.
LEMMA ConnectionShown ==
  ASSUME Typed, Given, NEW x \in Wire, x.seq = 0, evts' = Append(evts, x), shown' = shown,
         lastSeq' = lastSeq, floors \subseteq floors'
  PROVE  Given'
<1>1. Numbers' = Numbers
  BY NumbersShown
<1>2. /\ DOMAIN evts = 1..Len(evts) /\ DOMAIN evts' = 1..(Len(evts) + 1) /\ Len(evts) \in Nat
      /\ \A i \in 1..Len(evts) : evts'[i] = evts[i]
      /\ evts'[Len(evts) + 1] = x
  BY AppendTyped DEF Typed, ClientOK
<1> DEFINE n == Len(evts)
<1>3. /\ \A j \in 1..(n + 1) : j \in 1..n \/ j = n + 1
      /\ \A j \in 1..n : \A i \in 1..(j - 1) : i \in 1..n
  BY <1>2
<1>4. lastSeq \in Nat
  BY DEF Typed, ClientOK
<1> HIDE DEF n
<1>5. Seen'
  BY <1>2, <1>3, <1>4 DEF Given, Seen, n
<1>6. ShownOnce'
  <2>1. \A i, j \in DOMAIN shown' : i < j => shown'[i] < shown'[j]
    BY DEF Given, ShownOnce
  <2>2. ASSUME NEW j \in DOMAIN evts', evts'[j].seq > 0
        PROVE  /\ \A i \in DOMAIN shown' : shown'[i] < evts'[j].seq
               /\ \A i \in 1..(j - 1) : evts'[i].seq < evts'[j].seq
    <3>1. j \in 1..n
      BY <1>2, <1>3, <2>2 DEF n
    <3> QED BY <1>2, <1>3, <2>2, <3>1 DEF Given, ShownOnce, n
  <2> QED BY <2>1, <2>2 DEF ShownOnce
<1> QED BY <1>1, <1>5, <1>6 DEF Given, Told, GapsAreDropped

\* An event of the session is shown for the first time.
LEMMA EventShown ==
  ASSUME Typed, Given, NEW x \in Wire, x.seq > lastSeq,
         x.seq \in floors \/ (lastSeq >= 1 /\ x.seq <= lastSeq + 1),
         evts' = Append(evts, x), shown' = shown, lastSeq' = x.seq, floors' = floors
  PROVE  Given'
<1>1. lastSeq \in Nat /\ x.seq \in Nat /\ x.seq >= 1
  BY WireTyped DEF Typed, ClientOK
<1>2. Numbers' = Numbers \cup {x.seq}
  BY <1>1, NumbersShown
<1>3. /\ DOMAIN evts = 1..Len(evts) /\ DOMAIN evts' = 1..(Len(evts) + 1) /\ Len(evts) \in Nat
      /\ \A i \in 1..Len(evts) : evts'[i] = evts[i]
      /\ evts'[Len(evts) + 1] = x
  BY AppendTyped DEF Typed, ClientOK
<1> DEFINE n == Len(evts)
<1>4. /\ \A j \in 1..(n + 1) : j \in 1..n \/ j = n + 1
      /\ \A j \in 1..n : \A i \in 1..(j - 1) : i \in 1..n
      /\ \A i \in 1..((n + 1) - 1) : i \in 1..n
  BY <1>3
<1> HIDE DEF n
<1>5. /\ \A i \in DOMAIN shown : shown[i] \in Nat /\ shown[i] >= 1 /\ shown[i] <= lastSeq
      /\ \A i \in 1..n : evts[i].seq \in Nat /\ evts[i].seq <= lastSeq
  <2>1. \A i \in 1..n : evts[i] \in Wire
    BY <1>3 DEF Typed, ClientOK, n
  <2>2. \A i \in DOMAIN shown : shown[i] \in Nat
    <3>1. shown \in Seq(Nat)
      BY DEF Typed, OnceOK
    <3> QED BY <3>1
  <2> QED BY <1>3, <2>1, <2>2, WireTyped DEF Given, Seen, n
<1>6. /\ \A i \in DOMAIN shown : shown[i] < x.seq
      /\ \A i \in 1..n : evts[i].seq < x.seq
  BY <1>1, <1>5
<1>7. Seen'
  <2>1. \A i \in DOMAIN shown' : shown'[i] >= 1 /\ shown'[i] <= lastSeq'
    BY <1>1, <1>5
  <2>2. ASSUME NEW i \in DOMAIN evts' PROVE evts'[i].seq <= lastSeq'
    <3>1. CASE i \in 1..n
      BY <1>1, <1>3, <1>5, <3>1 DEF n
    <3>2. CASE i = n + 1
      BY <1>1, <1>3, <3>2 DEF n
    <3> QED BY <1>3, <1>4, <3>1, <3>2 DEF n
  <2> QED BY <2>1, <2>2 DEF Seen
<1>8. ShownOnce'
  <2>1. \A i, j \in DOMAIN shown' : i < j => shown'[i] < shown'[j]
    BY DEF Given, ShownOnce
  <2>2. ASSUME NEW j \in DOMAIN evts', evts'[j].seq > 0
        PROVE  /\ \A i \in DOMAIN shown' : shown'[i] < evts'[j].seq
               /\ \A i \in 1..(j - 1) : evts'[i].seq < evts'[j].seq
    <3>1. CASE j \in 1..n
      BY <1>3, <1>4, <2>2, <3>1 DEF Given, ShownOnce, n
    <3>2. CASE j = n + 1
      BY <1>3, <1>4, <1>6, <3>2 DEF n
    <3> QED BY <1>3, <1>4, <3>1, <3>2 DEF n
  <2> QED BY <2>1, <2>2 DEF ShownOnce
<1>9. Told'
  BY <1>1, <1>2 DEF Told
<1>10. GapsAreDropped'
  <2> SUFFICES ASSUME NEW k \in Numbers' PROVE k \in floors' \/ k - 1 \in Numbers'
    BY DEF GapsAreDropped
  <2>1. CASE k \in Numbers
    BY <1>2, <2>1 DEF Given, GapsAreDropped
  <2>2. CASE k = x.seq /\ k \notin floors
    <3>1. k - 1 = lastSeq /\ lastSeq >= 1
      BY <1>1, <2>2
    <3> QED BY <1>2, <3>1 DEF Given, Told
  <2> QED BY <1>2, <2>1, <2>2
<1> QED BY <1>7, <1>8, <1>9, <1>10 DEF Given

\* The user interface takes an envelope.
LEMMA EventTaken ==
  ASSUME Typed, Given, Take, lastSeq' = lastSeq, floors' = floors
  PROVE  Given'
<1>1. /\ evts # <<>> /\ evts' = Tail(evts) /\ Head(evts) \in Wire
      /\ shown' = IF Head(evts).seq > 0 THEN Append(shown, Head(evts).seq) ELSE shown
      /\ evts \in Seq(Wire) /\ shown \in Seq(Nat) /\ lastSeq \in Nat
  BY TakeTyped DEF Typed, ClientOK, OnceOK
<1>2. Numbers' = Numbers
  BY <1>1, NumbersTaken
<1> DEFINE n == Len(evts')
           h == Head(evts).seq
<1>3. /\ DOMAIN evts = 1..(n + 1) /\ DOMAIN evts' = 1..n /\ n \in Nat
      /\ \A i \in 1..n : evts'[i] = evts[i + 1]
      /\ evts[1].seq = h
  BY <1>1, HeadTyped
<1>4. h \in Nat
  BY <1>1, WireTyped
<1> HIDE DEF n, h
<1>5. /\ 1 \in 1..(n + 1)
      /\ \A j \in 1..n : j + 1 \in 1..(n + 1) /\ 1 \in 1..((j + 1) - 1)
      /\ \A j \in 1..n : \A i \in 1..(j - 1) : i \in 1..n /\ i + 1 \in 1..((j + 1) - 1)
  BY <1>3
<1>6. h <= lastSeq
  BY <1>3, <1>5 DEF Given, Seen
<1>7. /\ \A i, j \in DOMAIN shown : i < j => shown[i] < shown[j]
      /\ h > 0 => \A i \in DOMAIN shown : shown[i] < h
  BY <1>3, <1>5 DEF Given, ShownOnce
<1>8. ASSUME NEW j \in 1..n, evts'[j].seq > 0
      PROVE  /\ \A i \in DOMAIN shown : shown[i] < evts'[j].seq
             /\ h < evts'[j].seq
             /\ \A i \in 1..(j - 1) : evts'[i].seq < evts'[j].seq
  <2>1. evts'[j] = evts[j + 1] /\ j + 1 \in DOMAIN evts
    BY <1>3, <1>5
  <2>2. /\ \A i \in DOMAIN shown : shown[i] < evts[j + 1].seq
        /\ \A i \in 1..((j + 1) - 1) : evts[i].seq < evts[j + 1].seq
    BY <1>8, <2>1 DEF Given, ShownOnce
  <2> QED BY <1>3, <1>5, <2>1, <2>2
<1>9. Seen' /\ ShownOnce'
  <2>1. \A i \in 1..n : evts'[i].seq <= lastSeq
    BY <1>3, <1>5 DEF Given, Seen
  <2>2. CASE ~(h > 0)
    <3>1. shown' = shown
      BY <1>1, <2>2 DEF h
    <3> QED BY <1>3, <1>7, <1>8, <2>1, <3>1 DEF Given, Seen, ShownOnce
  <2>3. CASE h > 0
    <3> DEFINE m == Len(shown)
    <3>1. /\ DOMAIN shown = 1..m /\ DOMAIN shown' = 1..(m + 1) /\ m \in Nat
          /\ \A i \in 1..m : shown'[i] = shown[i]
          /\ shown'[m + 1] = h
      <4>1. shown' = Append(shown, h)
        BY <1>1, <2>3 DEF h
      <4> QED BY <1>1, <1>4, <4>1, AppendTyped
    <3> HIDE DEF m
    <3>2. \A i \in 1..(m + 1) : i \in 1..m \/ i = m + 1
      BY <3>1
    <3>3. Seen'
      <4>1. ASSUME NEW i \in DOMAIN shown' PROVE shown'[i] >= 1 /\ shown'[i] <= lastSeq'
        <5>1. CASE i \in 1..m
          BY <3>1, <5>1 DEF Given, Seen
        <5>2. CASE i = m + 1
          BY <1>4, <1>6, <2>3, <3>1, <5>2
        <5> QED BY <3>1, <3>2, <5>1, <5>2
      <4> QED BY <1>3, <2>1, <4>1 DEF Seen
    <3>4. ASSUME NEW i \in DOMAIN shown', NEW j \in DOMAIN shown', i < j
          PROVE  shown'[i] < shown'[j]
      <4>1. i \in 1..m
        BY <3>1, <3>4
      <4>2. CASE j \in 1..m
        BY <1>7, <3>1, <3>4, <4>1, <4>2
      <4>3. CASE j = m + 1
        BY <1>7, <2>3, <3>1, <4>1, <4>3
      <4> QED BY <3>1, <3>2, <4>2, <4>3
    <3>5. ASSUME NEW j \in DOMAIN evts', evts'[j].seq > 0
          PROVE  /\ \A i \in DOMAIN shown' : shown'[i] < evts'[j].seq
                 /\ \A i \in 1..(j - 1) : evts'[i].seq < evts'[j].seq
      BY <1>3, <1>8, <3>1, <3>2, <3>5
    <3>6. ShownOnce'
      BY <3>4, <3>5 DEF ShownOnce
    <3> QED BY <3>3, <3>6
  <2> QED BY <2>2, <2>3
<1> QED BY <1>2, <1>9 DEF Given, Told, GapsAreDropped

\* A step that gives nothing out.
LEMMA NothingShown ==
  ASSUME Given, UNCHANGED <<shown, evts, lastSeq>>, floors \subseteq floors'
  PROVE  Given'
<1>1. Seen' /\ ShownOnce' /\ Numbers' = Numbers
  BY DEF Given, Seen, ShownOnce, Numbers
<1> QED BY <1>1 DEF Given, Told, GapsAreDropped

\* What is on the way after an event of the session, to a client that is
\* attached or to nobody.
LEMMA EmitOnTheWay ==
  ASSUME Typed, OnTheWay, NEW ev \in SessionEvent, Emit(ev)
  PROVE  OnTheWay'
<1>1. /\ Len(stream') = Len(stream) + 1 /\ Len(stream) \in Nat
      /\ attached => down' = Append(down, Envelope(Len(stream) + 1, ev))
      /\ UNCHANGED <<attached, floors, client, lastSeq>>
      /\ down \in Seq(Wire) /\ Envelope(Len(stream) + 1, ev) \in Wire
  <2>1. Len(stream) \in Nat /\ down \in Seq(Wire)
    BY DEF Typed, SessionOK, LinkOK
  <2> QED BY <2>1, EmitTyped, WireTyped
<1> SUFFICES ASSUME attached PROVE OnTheWay'
  BY <1>1 DEF OnTheWay
<1> DEFINE x == Envelope(Len(stream) + 1, ev)
           n == Len(down)
           l == Len(stream)
<1>2. /\ n \in Nat /\ Len(down') = n + 1 /\ down' # <<>>
      /\ DOMAIN down = 1..n
      /\ \A i \in 1..n : down'[i] = down[i]
      /\ down'[n + 1] = x
  BY <1>1, AppendTyped
<1>3. x.seq = l + 1
  BY DEF Envelope
<1>4. First \in 0..1 /\ First' = First
  BY <1>1 DEF First
<1>5. /\ client = "greeting" => down # <<>> /\ Head(down).seq = 0
      /\ n <= l + First
      /\ \A i \in (First + 1)..n : down[i].seq + n = l + i
      /\ Upcoming \in floors \/ (client = "online" /\ lastSeq >= 1 /\ Upcoming <= lastSeq + 1)
  BY DEF OnTheWay
<1>6. Upcoming' = Upcoming
  <2> HIDE DEF x
  <2> QED BY <1>1, <1>2, <1>4 DEF Upcoming
<1>7. client = "greeting" => Head(down').seq = 0
  <2>1. down # <<>> => Head(down') = Head(down)
    <3> HIDE DEF x
    <3>1. down' = Append(down, x)
      BY <1>1 DEF x
    <3>2. down # <<>> => 1 \in 1..n
      BY <1>1, <1>2, HeadTyped
    <3> QED BY <1>1, <1>2, <3>1, <3>2, AppendProperties, HeadTyped
  <2> QED BY <1>5, <2>1
<1>8. \A i \in (First + 1)..(n + 1) : down'[i].seq + (n + 1) = (l + 1) + i
  <2> HIDE DEF x, n, l
  <2> SUFFICES ASSUME NEW i \in (First + 1)..(n + 1) PROVE down'[i].seq + (n + 1) = (l + 1) + i
    OBVIOUS
  <2>1. CASE i = n + 1
    BY <1>1, <1>2, <1>3, <2>1 DEF l
  <2>2. CASE i # n + 1
    <3>1. i \in 1..n /\ i \in (First + 1)..n
      BY <1>2, <1>4, <2>2
    <3>2. down[i].seq \in Nat
      BY <1>1, <1>2, <3>1, WireTyped
    <3>3. down'[i] = down[i] /\ down[i].seq + n = l + i /\ n \in Nat /\ l \in Nat
      BY <1>1, <1>2, <1>5, <3>1 DEF l
    <3> QED BY <3>2, <3>3
  <2> QED BY <2>1, <2>2
<1>9. n + 1 <= (l + 1) + First
  <2> HIDE DEF x
  <2> QED BY <1>1, <1>2, <1>4, <1>5
<1> HIDE DEF x
<1> QED BY <1>1, <1>2, <1>4, <1>5, <1>6, <1>7, <1>8, <1>9 DEF OnTheWay

\* What is on the way behind the head of a connection.
LEMMA TailOnTheWay ==
  ASSUME Typed, OnTheWay, attached, down # <<>>, down' = Tail(down), client' = "online",
         attached' = attached, floors' = floors, stream' = stream
  PROVE  /\ Head(down) \in Wire
         /\ client = "greeting" => Head(down).seq = 0 /\ Upcoming' = Upcoming
         /\ client = "online" => Head(down).seq = Upcoming /\ Upcoming' = Upcoming + 1
                                 /\ Upcoming >= 1
         /\ Upcoming \in Int
         /\ Len(down') <= Len(stream')
         /\ \A i \in 1..Len(down') : down'[i].seq + Len(down') = Len(stream') + i
<1>1. down \in Seq(Wire) /\ Len(stream) \in Nat /\ client \in {"greeting", "online"}
  BY DEF Typed, SessionOK, LinkOK
<1> DEFINE n == Len(down')
           l == Len(stream)
<1>2. /\ n \in Nat /\ Len(down) = n + 1 /\ DOMAIN down = 1..(n + 1)
      /\ \A i \in 1..n : down'[i] = down[i + 1]
      /\ Head(down) = down[1] /\ Head(down) \in Wire
  BY <1>1, HeadTyped
<1>3. /\ client = "greeting" => Head(down).seq = 0
      /\ n + 1 <= l + First
      /\ \A i \in (First + 1)..(n + 1) : down[i].seq + (n + 1) = l + i
  BY <1>2 DEF OnTheWay
<1>4. /\ First \in 0..1 /\ First' = 0
      /\ client = "greeting" <=> First = 1
  BY <1>1 DEF First
<1>5. Head(down).seq \in Nat
  BY <1>2, WireTyped
<1>6. Upcoming = l + First + 1 - (n + 1) /\ Upcoming' = l + 0 + 1 - n
  BY <1>2, <1>4 DEF Upcoming
<1> HIDE DEF n, l
<1>7. l \in Nat
  BY <1>1 DEF l
<1>8. client = "online" => Head(down).seq + (n + 1) = l + 1
  <2>1. client = "online" => First = 0
    BY <1>4
  <2>2. 1 \in (0 + 1)..(n + 1)
    BY <1>2
  <2> QED BY <1>2, <1>3, <2>1, <2>2
<1>9. /\ client = "greeting" => Upcoming' = Upcoming
      /\ client = "online" => Head(down).seq = Upcoming /\ Upcoming' = Upcoming + 1
                              /\ Upcoming >= 1
      /\ Upcoming \in Int /\ n <= l
  <2>1. CASE client = "greeting"
    BY <1>2, <1>3, <1>4, <1>6, <1>7, <2>1
  <2>2. CASE client = "online"
    BY <1>2, <1>3, <1>4, <1>5, <1>6, <1>7, <1>8, <2>2
  <2> QED BY <1>1, <2>1, <2>2
<1>10. ASSUME NEW i \in 1..n PROVE down'[i].seq + n = l + i
  <2>1. i + 1 \in (First + 1)..(n + 1) /\ i + 1 \in 1..(n + 1)
    BY <1>2, <1>4
  <2>2. down[i + 1].seq + (n + 1) = l + (i + 1) /\ down'[i] = down[i + 1]
    BY <1>2, <1>3, <2>1
  <2>3. down[i + 1].seq \in Nat
    BY <1>1, <1>2, <2>1, WireTyped
  <2> QED BY <1>2, <1>7, <2>2, <2>3
<1> QED BY <1>2, <1>3, <1>9, <1>10 DEF n, l

LEMMA FlowInit == OnceInit => Given /\ OnTheWay
<1> SUFFICES ASSUME OnceInit PROVE Given /\ OnTheWay
  OBVIOUS
<1>1. shown = <<>> /\ evts = <<>> /\ lastSeq = 0 /\ ~attached
  BY DEF OnceInit, Init
<1>2. DOMAIN shown = {} /\ DOMAIN evts = {} /\ Numbers = {}
  BY <1>1, EmptyTyped DEF Numbers, ToSet
<1> QED BY <1>1, <1>2 DEF Given, Seen, Told, ShownOnce, GapsAreDropped, OnTheWay

LEMMA FlowStep ==
  ASSUME FlowInv, [Next]_allVars
  PROVE  FlowInv'
<1>0. Typed /\ Given /\ OnTheWay
  BY DEF FlowInv
<1>A. Typed'
  BY <1>0, TypedStep
<1> SUFFICES Given' /\ OnTheWay'
  BY <1>A DEF FlowInv
<1>B. ConnError \in Wire /\ ConnError.seq = 0
  BY WireTyped DEF ConnError, Envelope
<1>1. CASE Session /\ UNCHANGED onceVars
  <2>1. \E ev \in SessionEvent : Emit(ev)
    BY <1>0, <1>1, SessionEmits
  <2>2. UNCHANGED <<shown, evts, lastSeq, floors>>
    BY <1>0, <1>1, <2>1, EmitTyped DEF onceVars
  <2> QED BY <1>0, <2>1, <2>2, NothingShown, EmitOnTheWay
<1>2. CASE (SubmitOther \/ Command \/ LateCommand \/ Dial \/ SendCommand) /\ UNCHANGED onceVars
  <2>1. UNCHANGED <<shown, evts, lastSeq, floors, attached>>
    BY <1>2 DEF SubmitOther, Command, LateCommand, Dial, SendCommand, onceVars, linkVars, clientVars
  <2>2. attached => UNCHANGED <<stream, down, client>>
    <3>1. CASE SubmitOther \/ Command \/ LateCommand
      BY <3>1 DEF SubmitOther, Command, LateCommand, linkVars, clientVars
    <3>2. CASE SendCommand
      BY <3>2 DEF SendCommand, sessionVars
    <3>3. CASE Dial
      BY <1>0, <3>3 DEF Dial, Typed, LinkOK
    <3> QED BY <1>2, <3>1, <3>2, <3>3
  <2>3. OnTheWay'
    BY <1>0, <2>1, <2>2 DEF OnTheWay, First, Upcoming
  <2> QED BY <1>0, <2>1, <2>3, NothingShown
<1>3. CASE Attach /\ UNCHANGED onceVars
  <2>1. /\ From(stream') \in Nat /\ From(stream') >= 1 /\ Len(stream') \in Nat
        /\ floors' = floors \cup {From(stream')}
        /\ down' # <<>> /\ Head(down').seq = 0 /\ down' \in Seq(Wire)
        /\ Len(down') + From(stream') = Len(stream') + 2
        /\ \A i \in 2..Len(down') : down'[i].seq + Len(down') = Len(stream') + i
    BY <1>0, <1>3, AttachSends
  <2>2. client' = "greeting" /\ UNCHANGED <<shown, evts, lastSeq>>
    BY <1>3 DEF Attach, clientVars, onceVars
  <2>3. First' = 1
    BY <2>2 DEF First
  <2> DEFINE n == Len(down')
             l == Len(stream')
             k == From(stream')
  <2>4. n \in Nat
    BY <2>1
  <2>5. n + k = l + 2 /\ k \in Nat /\ k >= 1 /\ l \in Nat
    BY <2>1
  <2> HIDE DEF n, l, k
  <2>6. l + 1 + 1 - n = k /\ n <= l + 1
    BY <2>4, <2>5
  <2>7. Upcoming' = From(stream') /\ Len(down') <= Len(stream') + 1
    BY <2>3, <2>6 DEF Upcoming, n, l, k
  <2>8. \A i \in (1 + 1)..Len(down') : down'[i].seq + Len(down') = Len(stream') + i
    BY <2>1
  <2>9. OnTheWay'
    BY <2>1, <2>2, <2>3, <2>7, <2>8 DEF OnTheWay
  <2> QED BY <1>0, <2>1, <2>2, <2>9, NothingShown
<1>4. CASE Greeted /\ UNCHANGED onceVars
  <2>1. /\ client = "greeting" /\ down # <<>> /\ down' = Tail(down) /\ client' = "online"
        /\ evts' = Append(evts, Head(down))
        /\ UNCHANGED <<lastSeq, attached, floors, stream, shown>>
    BY <1>4 DEF Greeted, Show, onceVars, sessionVars
  <2>2. attached
    BY <1>0, <2>1 DEF Typed, LinkOK
  <2>3. /\ Head(down) \in Wire /\ Head(down).seq = 0 /\ Upcoming' = Upcoming
        /\ Len(down') <= Len(stream')
        /\ \A i \in 1..Len(down') : down'[i].seq + Len(down') = Len(stream') + i
    BY <1>0, <2>1, <2>2, TailOnTheWay
  <2>4. Given'
    BY <1>0, <2>1, <2>3, ConnectionShown
  <2>5. Upcoming \in floors
    BY <1>0, <2>1, <2>2 DEF OnTheWay
  <2>6. First' = 0 /\ Len(stream') + 0 = Len(stream')
    BY <1>A, <2>1 DEF First, Typed, SessionOK
  <2>7. OnTheWay'
    BY <2>1, <2>3, <2>5, <2>6 DEF OnTheWay
  <2> QED BY <2>4, <2>7
<1>5. CASE Receive /\ UNCHANGED onceVars
  <2>1. /\ client = "online" /\ down # <<>> /\ down' = Tail(down) /\ client' = "online"
        /\ UNCHANGED <<attached, floors, stream, shown>>
    BY <1>5 DEF Receive, onceVars, sessionVars
  <2>2. attached
    BY <1>0, <2>1 DEF Typed, LinkOK
  <2>3. /\ Head(down) \in Wire /\ Head(down).seq = Upcoming /\ Upcoming' = Upcoming + 1
        /\ Upcoming >= 1 /\ Upcoming \in Int
        /\ Len(down') <= Len(stream')
        /\ \A i \in 1..Len(down') : down'[i].seq + Len(down') = Len(stream') + i
    BY <1>0, <2>1, <2>2, TailOnTheWay
  <2>4. Upcoming \in floors \/ (lastSeq >= 1 /\ Upcoming <= lastSeq + 1)
    BY <1>0, <2>2 DEF OnTheWay
  <2>5. lastSeq \in Nat
    BY <1>0 DEF Typed, ClientOK
  <2>6. /\ Given' /\ lastSeq' \in Nat
        /\ lastSeq' >= Upcoming
    <3>1. CASE Head(down).seq <= lastSeq
      <4>1. UNCHANGED <<lastSeq, evts>>
        BY <1>5, <3>1 DEF Receive
      <4>2. Given'
        BY <1>0, <2>1, <4>1, NothingShown
      <4> QED BY <2>3, <2>5, <3>1, <4>1, <4>2
    <3>2. CASE ~(Head(down).seq <= lastSeq)
      <4>1. evts' = Append(evts, Head(down)) /\ lastSeq' = Head(down).seq
        BY <1>5, <3>2 DEF Receive, Show
      <4>2. Head(down).seq > lastSeq
        BY <2>3, <2>5, <3>2
      <4>3. Given'
        BY <1>0, <2>1, <2>3, <2>4, <4>1, <4>2, EventShown
      <4> QED BY <2>3, <4>1, <4>3
    <3> QED BY <3>1, <3>2
  <2>7. lastSeq' >= 1 /\ Upcoming' <= lastSeq' + 1
    <3>1. \A u \in Int : \A q \in Nat : u >= 1 /\ q >= u => q >= 1 /\ u + 1 <= q + 1
      OBVIOUS
    <3> QED BY <2>3, <2>6, <3>1
  <2>8. First' = 0 /\ Len(stream') + 0 = Len(stream')
    BY <1>A, <2>1 DEF First, Typed, SessionOK
  <2>9. OnTheWay'
    BY <2>1, <2>3, <2>7, <2>8 DEF OnTheWay
  <2> QED BY <2>6, <2>9
<1>6. CASE Rejected /\ UNCHANGED onceVars
  <2>1. /\ evts' = Append(evts, ConnError) /\ ~attached'
        /\ UNCHANGED <<lastSeq, shown, floors>>
    BY <1>6 DEF Rejected, Show, onceVars
  <2> QED BY <1>0, <1>B, <2>1, ConnectionShown DEF OnTheWay
<1>7. CASE ConnectionBreaks /\ UNCHANGED onceVars
  <2>1. /\ evts' = Append(evts, ConnError) /\ ~attached'
        /\ UNCHANGED <<lastSeq, shown, floors>>
    BY <1>7 DEF ConnectionBreaks, Lost, Show, onceVars
  <2> QED BY <1>0, <1>B, <2>1, ConnectionShown DEF OnTheWay
<1>8. CASE ServerRestarts /\ UNCHANGED onceVars
  <2>1. /\ evts' = evts \/ evts' = Append(evts, ConnError)
        /\ ~attached' /\ UNCHANGED <<lastSeq, floors>>
    BY <1>0, <1>8, RestartTyped
  <2>2. shown' = shown
    BY <1>8 DEF onceVars
  <2>3. Given'
    BY <1>0, <1>B, <2>1, <2>2, ConnectionShown, NothingShown
  <2> QED BY <2>1, <2>3 DEF OnTheWay
<1>9. CASE Take
  <2>1. \/ Quit
        \/ UNCHANGED <<client, known, lastSeq, cmds, sessionVars, linkVars>>
    BY <1>0, <1>9, TakeTyped
  <2>2. lastSeq' = lastSeq /\ floors' = floors
    BY <2>1 DEF Quit, linkVars
  <2>3. Given'
    BY <1>0, <1>9, <2>2, EventTaken
  <2>4. CASE Quit
    BY <2>3, <2>4 DEF Quit, OnTheWay
  <2>5. CASE UNCHANGED <<client, known, lastSeq, cmds, sessionVars, linkVars>>
    <3>1. OnTheWay'
      BY <1>0, <2>5 DEF OnTheWay, First, Upcoming, sessionVars, linkVars
    <3> QED BY <2>3, <3>1
  <2> QED BY <2>1, <2>4, <2>5
<1>10. CASE GiveUp
  <2>1. ~attached' /\ UNCHANGED <<shown, evts, lastSeq, floors>>
    BY <1>10 DEF GiveUp, Quit
  <2> QED BY <1>0, <2>1, NothingShown DEF OnTheWay
<1>11. CASE UNCHANGED allVars
  <2>1. UNCHANGED <<shown, evts, lastSeq, floors, attached, stream, down, client>>
    BY <1>11 DEF allVars, vars, sessionVars, linkVars, clientVars, onceVars
  <2>2. OnTheWay'
    BY <1>0, <2>1 DEF OnTheWay, First, Upcoming
  <2> QED BY <1>0, <2>1, <2>2, NothingShown
<1> QED
  BY <1>1, <1>2, <1>3, <1>4, <1>5, <1>6, <1>7, <1>8, <1>9, <1>10, <1>11
  DEF Next, Network, Client, Trouble

\* Over all replays and reconnects no event is given out twice or out of order
\* (the comparison with last_seq in stream_once), whatever broke in between.
THEOREM NothingShownTwice == Spec => []ShownOnce
<1>1. OnceInit => FlowInv BY TypedInit, FlowInit DEF FlowInv
<1>2. FlowInv /\ [Next]_allVars => FlowInv' BY FlowStep
<1>3. FlowInv => ShownOnce BY DEF FlowInv, Given
<1> QED BY <1>1, <1>2, <1>3, PTL DEF Spec

\* An event is left out only if the log had dropped it when the client
\* attached (handle_socket's snapshot, stream_once's last_seq).
THEOREM OnlyDroppedIsMissing == Spec => []GapsAreDropped
<1>1. OnceInit => FlowInv BY TypedInit, FlowInit DEF FlowInv
<1>2. FlowInv /\ [Next]_allVars => FlowInv' BY FlowStep
<1>3. FlowInv => GapsAreDropped BY DEF FlowInv, Given
<1> QED BY <1>1, <1>2, <1>3, PTL DEF Spec

-----------------------------------------------------------------------------
(* A command is in one place.                                               *)

Single(s, c) == \A i, j \in DOMAIN s : s[i] = c /\ s[j] = c => i = j
In(s, c) == \E i \in DOMAIN s : s[i] = c

\* The instruction event of a command.
Ran(c) == Event("instruction", c)

\* A command is still with the user interface, on a connection, on a given-up
\* connection, in the channel of the session, or its run has begun: in one of
\* these places, and once.
InOnePlace(c) ==
  /\ Single(cmds, c) /\ Single(up, c) /\ Single(limbo, c) /\ Single(queue, c)
  /\ Single(stream, Ran(c))
  /\ In(cmds, c) => ~In(up, c) /\ ~In(limbo, c) /\ ~In(queue, c) /\ ~In(stream, Ran(c))
  /\ In(up, c) => ~In(limbo, c) /\ ~In(queue, c) /\ ~In(stream, Ran(c))
  /\ In(limbo, c) => ~In(queue, c) /\ ~In(stream, Ran(c))
  /\ In(queue, c) => ~In(stream, Ran(c))

PlaceInv == \A c \in ToSet(Commands) : InOnePlace(c)

LEMMA EmptyPlace == \A c : Single(<<>>, c) /\ ~In(<<>>, c)
BY EmptyTyped DEF Single, In

\* The head of one queue becomes, as y, the end of another.
LEMMA MoveHead ==
  ASSUME NEW S, NEW T, NEW s \in Seq(S), s # <<>>, NEW t \in Seq(T), NEW y \in T,
         NEW c, NEW v, y = v => Head(s) = c,
         Single(s, c), Single(t, v), In(s, c) => ~In(t, v)
  PROVE  /\ Single(Tail(s), c) /\ Single(Append(t, y), v)
         /\ In(Tail(s), c) => ~In(Append(t, y), v) /\ In(s, c)
         /\ In(Append(t, y), v) => In(t, v) \/ In(s, c)
<1> DEFINE n == Len(Tail(s))
           m == Len(t)
           r == Tail(s)
           u == Append(t, y)
<1>1. /\ n \in Nat /\ DOMAIN s = 1..(n + 1) /\ DOMAIN r = 1..n /\ Head(s) = s[1]
      /\ \A i \in 1..n : r[i] = s[i + 1]
  BY HeadTyped
<1>2. /\ m \in Nat /\ DOMAIN t = 1..m /\ DOMAIN u = 1..(m + 1)
      /\ \A i \in 1..m : u[i] = t[i]
      /\ u[m + 1] = y
  BY AppendTyped
<1> HIDE DEF n, m, r, u
<1>3. /\ \A i \in 1..n : i + 1 \in 1..(n + 1) /\ i + 1 # 1
      /\ \A i, j \in 1..n : i + 1 = j + 1 => i = j
      /\ 1 \in 1..(n + 1)
      /\ \A i \in 1..(m + 1) : i \in 1..m \/ i = m + 1
      /\ \A i \in 1..m : i \in 1..(m + 1)
  <2>1. n \in Nat /\ m \in Nat
    BY <1>1, <1>2
  <2> QED BY <2>1
<1>4. Single(r, c)
  <2>1. \A i, j \in 1..(n + 1) : s[i] = c /\ s[j] = c => i = j
    BY <1>1 DEF Single
  <2>2. \A i, j \in 1..n : r[i] = c /\ r[j] = c => i = j
    BY <1>1, <1>3, <2>1
  <2> QED BY <1>1, <2>2 DEF Single
<1>5. In(r, c) => In(s, c) /\ Head(s) # c
  BY <1>1, <1>3 DEF Single, In
<1>6. Head(s) = c => In(s, c)
  BY <1>1, <1>3 DEF In
<1>7. In(u, v) => In(t, v) \/ y = v
  BY <1>2, <1>3 DEF In
<1>8. Single(u, v)
  <2>1. CASE y = v
    <3>1. \A i \in 1..m : u[i] # v
      BY <1>2, <1>6, <2>1 DEF In
    <3> QED BY <1>2, <1>3, <3>1 DEF Single
  <2>2. CASE y # v
    BY <1>2, <1>3, <2>2 DEF Single
  <2> QED BY <2>1, <2>2
<1> QED BY <1>4, <1>5, <1>6, <1>7, <1>8 DEF r, u

\* What joins two queues.
LEMMA MoveAll ==
  ASSUME NEW S, NEW s \in Seq(S), NEW t \in Seq(S), NEW c,
         Single(s, c), Single(t, c), In(t, c) => ~In(s, c)
  PROVE  Single(s \o t, c) /\ (In(s \o t, c) => In(s, c) \/ In(t, c))
<1> DEFINE n == Len(s)
           m == Len(t)
           u == s \o t
<1>1. /\ n \in Nat /\ m \in Nat /\ DOMAIN s = 1..n /\ DOMAIN t = 1..m
      /\ DOMAIN u = 1..(n + m)
      /\ \A i \in 1..(n + m) : u[i] = IF i <= n THEN s[i] ELSE t[i - n]
  BY ConcatProperties, LenProperties
<1> HIDE DEF n, m, u
<1>2. /\ \A i \in 1..(n + m) : \/ i <= n /\ i \in 1..n
                               \/ ~(i <= n) /\ i - n \in 1..m
      /\ \A i, j \in 1..(n + m) : i - n = j - n => i = j
  BY <1>1
<1>3. \A i \in 1..(n + m) : u[i] = c =>
        \/ i \in 1..n /\ s[i] = c /\ In(s, c)
        \/ i - n \in 1..m /\ t[i - n] = c /\ In(t, c)
  BY <1>1, <1>2 DEF In
<1>4. Single(u, c)
  <2> SUFFICES ASSUME NEW i \in 1..(n + m), NEW j \in 1..(n + m), u[i] = c, u[j] = c
               PROVE  i = j
    BY <1>1 DEF Single
  <2>1. CASE In(s, c)
    <3>1. i \in 1..n /\ s[i] = c /\ j \in 1..n /\ s[j] = c
      BY <1>3, <2>1
    <3> QED BY <1>1, <3>1 DEF Single
  <2>2. CASE ~In(s, c)
    <3>1. i - n \in 1..m /\ t[i - n] = c /\ j - n \in 1..m /\ t[j - n] = c
      BY <1>3, <2>2
    <3>2. i - n = j - n
      BY <1>1, <3>1 DEF Single
    <3> QED BY <1>2, <3>2
  <2> QED BY <2>1, <2>2
<1>5. In(u, c) => In(s, c) \/ In(t, c)
  BY <1>1, <1>3 DEF In
<1> QED BY <1>4, <1>5 DEF u

\* What is not this command comes behind.
LEMMA AddOthers ==
  ASSUME NEW S, NEW s \in Seq(S), NEW t \in Seq(S), NEW c, Single(s, c), ~In(t, c)
  PROVE  Single(s \o t, c) /\ (In(s \o t, c) => In(s, c))
<1>1. Single(t, c)
  BY DEF Single, In
<1> QED BY <1>1, MoveAll

LEMMA AddOther ==
  ASSUME NEW S, NEW s \in Seq(S), NEW y \in S, NEW c, Single(s, c), y # c
  PROVE  Single(Append(s, y), c) /\ (In(Append(s, y), c) => In(s, c))
<1> DEFINE n == Len(s)
           u == Append(s, y)
<1>1. /\ n \in Nat /\ DOMAIN s = 1..n /\ DOMAIN u = 1..(n + 1)
      /\ \A i \in 1..n : u[i] = s[i]
      /\ u[n + 1] = y
  BY AppendTyped
<1> HIDE DEF n, u
<1>2. \A i \in 1..(n + 1) : i \in 1..n \/ i = n + 1
  BY <1>1
<1>3. Single(u, c) /\ (In(u, c) => In(s, c))
  BY <1>1, <1>2 DEF Single, In
<1> QED BY <1>3 DEF u

LEMMA PlaceInit == OnceInit => PlaceInv
<1> SUFFICES ASSUME OnceInit, NEW c \in ToSet(Commands) PROVE InOnePlace(c)
  BY DEF PlaceInv
<1>1. cmds = Commands /\ up = <<>> /\ limbo = <<>> /\ queue = <<>> /\ stream = <<>>
  BY DEF OnceInit, Init
<1>2. Single(Commands, c)
  BY CommandAssumption DEF IsInjective, Single
<1> QED BY <1>1, <1>2, EmptyPlace DEF InOnePlace

\* One step and one command.
LEMMA PlaceStep ==
  ASSUME Typed, NEW c \in ToSet(Commands), InOnePlace(c), [Next]_allVars
  PROVE  InOnePlace(c)'
<1>0. /\ stream \in Seq(SessionEvent) /\ queue \in Seq(Texts) /\ up \in Seq(Texts)
      /\ limbo \in Seq(Texts) /\ cmds \in Seq(Texts)
      /\ c # "other" /\ "other" \in Texts
  BY CommandAssumption DEF Typed, SessionOK, LinkOK, ClientOK, Texts
<1>1. CASE RunBegins
  <2> DEFINE h == Head(queue)
  <2>1. /\ queue # <<>> /\ queue' = Tail(queue) /\ stream' = Append(stream, Event("instruction", h))
        /\ UNCHANGED <<cmds, up, limbo>>
    BY <1>1 DEF RunBegins, Emit, clientVars
  <2>2. h \in Texts
    BY <1>0, <2>1, HeadTyped
  <2>3. Event("instruction", h) \in SessionEvent
    BY <2>2, EventTyped DEF Kinds
  <2>4. Event("instruction", h) = Ran(c) => h = c
    BY DEF Event, Ran
  <2>5. /\ Single(queue', c) /\ Single(stream', Ran(c))
        /\ In(queue', c) => ~In(stream', Ran(c)) /\ In(queue, c)
        /\ In(stream', Ran(c)) => In(stream, Ran(c)) \/ In(queue, c)
    BY <1>0, <2>1, <2>3, <2>4, MoveHead DEF InOnePlace
  <2> QED BY <2>1, <2>5 DEF InOnePlace
<1>2. CASE RunWorks \/ RunUsesTool \/ RunEnds
  <2>1. \E kind \in {"working", "tool ok", "tool failed", "error", "idle", "interrupted"} :
          Emit(Event(kind, "agent"))
    BY <1>2 DEF RunWorks, RunUsesTool, RunEnds
  <2>2. PICK kind \in {"working", "tool ok", "tool failed", "error", "idle", "interrupted"} :
          Emit(Event(kind, "agent"))
    BY <2>1
  <2>3. Event(kind, "agent") \in SessionEvent /\ Event(kind, "agent") # Ran(c)
    BY EventTyped DEF Kinds, Event, Ran
  <2>4. stream' = Append(stream, Event(kind, "agent")) /\ UNCHANGED <<cmds, up, limbo, queue>>
    BY <1>2, <2>2 DEF Emit, RunWorks, RunUsesTool, RunEnds, clientVars
  <2>5. Single(stream', Ran(c)) /\ (In(stream', Ran(c)) => In(stream, Ran(c)))
    BY <1>0, <2>3, <2>4, AddOther DEF InOnePlace
  <2> QED BY <2>4, <2>5 DEF InOnePlace
<1>3. CASE SubmitOther
  <2>1. queue' = Append(queue, "other") /\ UNCHANGED <<stream, cmds, up, limbo>>
    BY <1>3 DEF SubmitOther, linkVars, clientVars
  <2>2. Single(queue', c) /\ (In(queue', c) => In(queue, c))
    BY <1>0, <2>1, AddOther DEF InOnePlace
  <2> QED BY <2>1, <2>2 DEF InOnePlace
<1>4. CASE Attach
  <2>1. /\ stream' = stream \/ stream' = <<>>
        /\ queue' = queue \/ queue' = <<>>
        /\ UNCHANGED <<cmds, up, limbo>>
    BY <1>4 DEF Attach, clientVars
  <2>2. /\ Single(stream', Ran(c)) /\ (In(stream', Ran(c)) => In(stream, Ran(c)))
        /\ Single(queue', c) /\ (In(queue', c) => In(queue, c))
    BY <2>1, EmptyPlace DEF InOnePlace
  <2> QED BY <2>1, <2>2 DEF InOnePlace
<1>5. CASE Command
  <2>1. /\ up # <<>> /\ up' = Tail(up) /\ queue' = Append(queue, Head(up))
        /\ UNCHANGED <<stream, cmds, limbo>>
    BY <1>5 DEF Command, clientVars
  <2>2. Head(up) \in Texts
    BY <1>0, <2>1, HeadTyped
  <2>3. /\ Single(up', c) /\ Single(queue', c)
        /\ In(up', c) => ~In(queue', c) /\ In(up, c)
        /\ In(queue', c) => In(queue, c) \/ In(up, c)
    BY <1>0, <2>1, <2>2, MoveHead DEF InOnePlace
  <2> QED BY <2>1, <2>3 DEF InOnePlace
<1>6. CASE LateCommand
  <2>1. limbo # <<>> /\ UNCHANGED <<stream, cmds, up>>
    BY <1>6 DEF LateCommand, clientVars
  <2>2. Head(limbo) \in Texts
    BY <1>0, <2>1, HeadTyped
  <2>3. CASE queue' = Append(queue, Head(limbo)) /\ limbo' = Tail(limbo)
    <3>1. /\ Single(limbo', c) /\ Single(queue', c)
          /\ In(limbo', c) => ~In(queue', c) /\ In(limbo, c)
          /\ In(queue', c) => In(queue, c) \/ In(limbo, c)
      BY <1>0, <2>1, <2>2, <2>3, MoveHead DEF InOnePlace
    <3> QED BY <2>1, <3>1 DEF InOnePlace
  <2>4. CASE queue' = queue /\ limbo' = <<>>
    BY <2>1, <2>4, EmptyPlace DEF InOnePlace
  <2> QED BY <1>6, <2>3, <2>4 DEF LateCommand
<1>7. CASE SendCommand
  <2>1. /\ cmds # <<>> /\ cmds' = Tail(cmds) /\ up' = Append(up, Head(cmds))
        /\ UNCHANGED <<stream, queue, limbo>>
    BY <1>7 DEF SendCommand, sessionVars
  <2>2. Head(cmds) \in Texts
    BY <1>0, <2>1, HeadTyped
  <2>3. /\ Single(cmds', c) /\ Single(up', c)
        /\ In(cmds', c) => ~In(up', c) /\ In(cmds, c)
        /\ In(up', c) => In(up, c) \/ In(cmds, c)
    BY <1>0, <2>1, <2>2, MoveHead DEF InOnePlace
  <2> QED BY <2>1, <2>3 DEF InOnePlace
<1>8. CASE Dial \/ Greeted \/ Receive \/ Rejected \/ UNCHANGED allVars
  <2>1. UNCHANGED <<stream, queue, limbo, up, cmds>>
    <3>1. CASE Dial \/ Greeted \/ Receive
      BY <3>1 DEF Dial, Greeted, Receive, sessionVars, linkVars
    <3>2. CASE Rejected
      BY <3>2 DEF Rejected, sessionVars
    <3>3. CASE UNCHANGED allVars
      BY <3>3 DEF allVars, vars, sessionVars, linkVars, clientVars
    <3> QED BY <1>8, <3>1, <3>2, <3>3
  <2> QED BY <2>1 DEF InOnePlace
<1>9. CASE ConnectionBreaks \/ Quit
  <2>1. /\ limbo' = limbo \o up /\ up' = <<>>
        /\ UNCHANGED <<stream, queue, cmds>>
    <3>1. CASE ConnectionBreaks
      BY <3>1 DEF ConnectionBreaks, Lost, sessionVars
    <3>2. CASE Quit
      BY <3>2 DEF Quit, sessionVars
    <3> QED BY <1>9, <3>1, <3>2
  <2>2. Single(limbo', c) /\ (In(limbo', c) => In(limbo, c) \/ In(up, c))
    BY <1>0, <2>1, MoveAll DEF InOnePlace
  <2> QED BY <2>1, <2>2, EmptyPlace DEF InOnePlace
<1>10. CASE ServerRestarts
  <2>1. /\ limbo' = <<>> /\ queue' = <<>> /\ (up' = <<>> \/ up' = up) /\ cmds' = cmds
        /\ stream' = stream \/ \E ends \in Seq(Unasked) : stream' = stream \o ends
    BY <1>10, RestartTyped
  <2>2. ASSUME NEW ends \in Seq(Unasked), stream' = stream \o ends
        PROVE  Single(stream', Ran(c)) /\ (In(stream', Ran(c)) => In(stream, Ran(c)))
    <3>1. ends \in Seq(SessionEvent)
      <4>1. Unasked \subseteq SessionEvent
        BY DEF Unasked
      <4> QED BY <4>1, SubsetTyped
    <3>2. ~In(ends, Ran(c))
      <4>1. \A i \in DOMAIN ends : ends[i] \in Unasked
        OBVIOUS
      <4>2. Ran(c) \notin Unasked
        BY DEF Ran, Event, Unasked
      <4> QED BY <4>1, <4>2 DEF In
    <3> QED BY <1>0, <2>2, <3>1, <3>2, AddOthers DEF InOnePlace
  <2>3. Single(stream', Ran(c)) /\ (In(stream', Ran(c)) => In(stream, Ran(c)))
    BY <2>1, <2>2 DEF InOnePlace
  <2>4. Single(up', c) /\ (In(up', c) => In(up, c))
    BY <2>1, EmptyPlace DEF InOnePlace
  <2> QED BY <2>1, <2>3, <2>4, EmptyPlace DEF InOnePlace
<1>11. CASE Take /\ UNCHANGED <<client, known, lastSeq, cmds, sessionVars, linkVars>>
  BY <1>11 DEF InOnePlace, sessionVars, linkVars
<1>12. Take => Quit \/ UNCHANGED <<client, known, lastSeq, cmds, sessionVars, linkVars>>
  BY TakeTyped
<1>13. GiveUp => Quit
  BY DEF GiveUp
<1> QED
  BY <1>1, <1>2, <1>3, <1>4, <1>5, <1>6, <1>7, <1>8, <1>9, <1>10, <1>11, <1>12, <1>13
  DEF Next, Session, Network, Client, Trouble

\* However often the connection breaks, an instruction is carried out at most
\* once: what has left the channel of commands of stream_once is never put
\* back.
THEOREM CommandsRunOnce == Spec => []CommandsOnce
<1>1. OnceInit => Typed /\ PlaceInv
  BY TypedInit, PlaceInit
<1>2. Typed /\ PlaceInv /\ [Next]_allVars => (Typed /\ PlaceInv)'
  <2> SUFFICES ASSUME Typed, PlaceInv, [Next]_allVars PROVE Typed' /\ PlaceInv'
    OBVIOUS
  <2>1. ASSUME NEW c \in ToSet(Commands) PROVE InOnePlace(c)'
    BY <2>1, PlaceStep DEF PlaceInv
  <2> QED BY <2>1, TypedStep DEF PlaceInv
<1>3. Typed /\ PlaceInv => CommandsOnce
  <2> SUFFICES ASSUME Typed, PlaceInv, NEW c \in ToSet(Commands)
               PROVE  /\ \A i, j \in DOMAIN stream :
                           stream[i] = Event("instruction", c) /\ stream[j] = stream[i] => i = j
                      /\ \A i, j \in DOMAIN queue : queue[i] = c /\ queue[j] = c => i = j
                      /\ c \in ToSet(queue) => Event("instruction", c) \notin ToSet(stream)
    BY DEF CommandsOnce
  <2>1. InOnePlace(c)
    BY DEF PlaceInv
  <2>2. Single(stream, Ran(c)) /\ Single(queue, c) /\ (In(queue, c) => ~In(stream, Ran(c)))
    BY <2>1 DEF InOnePlace
  <2> QED BY <2>2 DEF Single, In, Ran, ToSet
<1> QED BY <1>1, <1>2, <1>3, PTL DEF Spec

-----------------------------------------------------------------------------
(* A success is deserved.                                                   *)
(* A broken connection shows an error, so a success rests on one connection.*)
(* On it the numbers have no gap, and no restart cuts a run.                *)

Busy == {"working", "tool ok", "tool failed", "error"}
InRun == {"tool ok", "tool failed", "error", "idle", "interrupted"}

\* Event i is followed by what a run leaves that no restart cuts.
Unbroken(i) == /\ stream[i].kind = "instruction" => stream[i + 1].kind = "working"
               /\ stream[i].kind \in Busy => stream[i + 1].kind \in InRun

\* Event i says what the session is doing.
Stage(i) == /\ stream[i].kind = "instruction" <=> doing = "begun"
            /\ stream[i].kind \in Busy <=> doing = "working"

\* No break is told up to the k-th envelope that waits.
CleanTo(k) == ~failed /\ \A i \in 1..k : evts[i] # ConnError
Clean == CleanTo(Len(evts))

\* The number taken last, the one given out before the k-th envelope that
\* waits, and the one given out last.
Taken == IF shown = <<>> THEN 0 ELSE shown[Len(shown)]
Before(k) == IF k = 1 THEN Taken ELSE evts[k - 1].seq
LastGiven == IF evts = <<>> THEN Taken ELSE evts[Len(evts)].seq

\* The replay boundary of the connection, also before it is taken.
IsHello(x) == x.ev.kind = "hello"
Boundary == IF evts # <<>> /\ IsHello(evts[1]) THEN evts[1].replay ELSE baseline

Unstarted == shown = <<>> /\ ~ours /\ ~working

\* What waits without a break before it is the hello, or the next event of the
\* session, and the run goes on behind the boundary.
Event1(k) == /\ evts[k].seq >= 1 /\ evts[k].seq <= Len(stream)
             /\ evts[k].ev = stream[evts[k].seq]
             /\ Before(k) >= 1 => /\ evts[k].seq = Before(k) + 1
                                  /\ Before(k) > Boundary => Unbroken(Before(k))
Waits(k) == (k = 1 /\ IsHello(evts[1]) /\ Unstarted) \/ Event1(k)
Waiting == \A k \in 1..Len(evts) : CleanTo(k) => Waits(k)

\* Only a client that knows its session has seen events of it.
Acquainted == client = "online" \/ lastSeq >= 1 => known

\* Our run, which began with event p, as far as it has been taken.
GoesOn(p) ==
  \A i \in (p + 1)..Taken : stream[i].kind \notin {"instruction", "idle", "interrupted"}
WasCut(p) == \E q \in p..Taken : RunOf(Mine, p, q) /\ stream[q].kind = "interrupted"
Follows(p) == /\ p <= Taken /\ p > baseline /\ stream[p] = Event("instruction", Mine)
              /\ working <=> Taken > p
              /\ \A i \in p..Taken : stream[i].kind \notin {"error", "idle"}
              /\ GoesOn(p) \/ WasCut(p)
              /\ lastTool = "tool failed" \/ ~LastToolFailed(p, Taken)
Following == /\ working => ours
             /\ Taken <= Len(stream) \/ failed
             /\ ours /\ ~failed => \E p \in 1..Len(stream) : Follows(p)

\* A connection of which no break was told is the first one.
Fresh == evts = <<>> /\ lastSeq = 0 /\ Unstarted
Unread == IF client = "greeting" THEN Head(down).replay ELSE Boundary
Live == /\ client = "greeting" => Fresh /\ IsHello(Head(down))
        /\ lastSeq = LastGiven
        /\ lastSeq >= 1 => Upcoming = lastSeq + 1
        /\ \A i \in (First + 1)..Len(down) : down[i].ev = stream[down[i].seq]
        /\ \A i \in 1..Len(stream) : Unread < i /\ i < Len(stream) => Unbroken(i)
        /\ Unread < Len(stream) => Stage(Len(stream))

Connection == Clean => IF attached THEN Live ELSE Fresh

Deserved == Waiting /\ Acquainted /\ Following /\ Connection

\* The events so far stay where they are.
Grows == /\ stream' \in Seq(SessionEvent) /\ Len(stream) <= Len(stream')
         /\ \A i \in 1..Len(stream) : stream'[i] = stream[i]

LEMMA SameGrows == Typed /\ stream' = stream => Grows
BY DEF Typed, SessionOK, Grows

LEMMA UnbrokenStays ==
  ASSUME Typed, Grows, NEW i \in Nat, i >= 1, i + 1 <= Len(stream)
  PROVE  Unbroken(i)' <=> Unbroken(i)
<1>1. i \in 1..Len(stream) /\ i + 1 \in 1..Len(stream)
  BY DEF Typed, SessionOK
<1> QED BY <1>1 DEF Unbroken, Grows

LEMMA NotEmpty ==
  ASSUME NEW S, NEW s \in Seq(S)
  PROVE  /\ Len(s) \in Nat /\ DOMAIN s = 1..Len(s) /\ \A i \in 1..Len(s) : s[i] \in S
         /\ s # <<>> <=> Len(s) >= 1
         /\ s # <<>> <=> 1 \in 1..Len(s)
         /\ s # <<>> => Len(s) \in 1..Len(s)
<1>1. s # <<>> => Len(s) >= 1
  BY HeadTyped
<1>2. Len(s) >= 1 => s # <<>>
  BY EmptyTyped
<1>3. Len(s) \in Nat /\ DOMAIN s = 1..Len(s) /\ \A i \in 1..Len(s) : s[i] \in S
  OBVIOUS
<1> QED BY <1>1, <1>2, <1>3

LEMMA TakenType == Typed => Taken \in Nat
BY NotEmpty DEF Typed, OnceOK, Taken

\* Envelopes that wait are as they were when more come behind them.
LEMMA WaitingKept ==
  ASSUME Typed, Waiting, Grows, evts' \in Seq(Wire), Len(evts) <= Len(evts'),
         \A i \in 1..Len(evts) : evts'[i] = evts[i],
         UNCHANGED <<shown, ours, working, failed, baseline>>
  PROVE  /\ \A k \in 1..Len(evts) : CleanTo(k)' => Waits(k)'
         /\ CleanTo(Len(evts))' => Clean
         /\ evts # <<>> => Boundary' = Boundary
<1> DEFINE n == Len(evts)
<1>1. /\ evts \in Seq(Wire) /\ n \in Nat /\ Len(stream) \in Nat /\ Len(stream') \in Nat
      /\ evts # <<>> => 1 \in 1..n /\ evts' # <<>>
      /\ Taken \in Nat
  <2>1. evts \in Seq(Wire) /\ n \in Nat /\ Len(stream) \in Nat /\ Len(stream') \in Nat
    BY DEF Typed, ClientOK, SessionOK, Grows
  <2>2. evts # <<>> => n >= 1 /\ 1 \in 1..n
    BY <2>1, NotEmpty
  <2>3. n >= 1 => Len(evts') >= 1
    BY <2>1, NotEmpty
  <2>4. Len(evts') >= 1 => evts' # <<>>
    BY NotEmpty
  <2> QED BY <2>1, <2>2, <2>3, <2>4, TakenType
<1>2. evts # <<>> => Boundary' = Boundary
  BY <1>1 DEF Boundary, IsHello
<1>3. CleanTo(n)' => Clean
  BY DEF CleanTo, Clean
<1>4. Taken' = Taken
  BY DEF Taken
<1>5. ASSUME NEW k \in 1..n, CleanTo(k)' PROVE Waits(k)'
  <2>1. /\ \A i \in 1..k : i \in 1..n
        /\ k # 1 => k - 1 \in 1..n
        /\ 1 \in 1..n /\ evts # <<>>
    BY <1>1
  <2>2. CleanTo(k)
    BY <1>5, <2>1 DEF CleanTo
  <2>3. Waits(k)
    BY <2>2 DEF Waiting
  <2>4. Before(k)' = Before(k)
    BY <1>4, <2>1 DEF Before
  <2>5. CASE k = 1 /\ IsHello(evts[1]) /\ Unstarted
    BY <2>1, <2>5 DEF Waits, IsHello, Unstarted
  <2>6. CASE Event1(k)
    <3>1. /\ evts[k].seq >= 1 /\ evts[k].seq <= Len(stream)
          /\ evts[k].ev = stream[evts[k].seq]
          /\ Before(k) >= 1 => /\ evts[k].seq = Before(k) + 1
                               /\ Before(k) > Boundary => Unbroken(Before(k))
      BY <2>6 DEF Event1
    <3>2. evts'[k] = evts[k] /\ evts[k].seq \in Nat
      BY <1>1, WireTyped
    <3>3. evts[k].seq \in 1..Len(stream) /\ evts[k].seq <= Len(stream')
      BY <1>1, <3>1, <3>2 DEF Grows
    <3>4. evts'[k].ev = stream'[evts'[k].seq]
      BY <3>1, <3>2, <3>3 DEF Grows
    <3>5. Before(k) \in Nat
      <4>1. CASE k = 1
        BY <1>1, <4>1 DEF Before
      <4>2. CASE k # 1
        BY <1>1, <2>1, <4>2, WireTyped DEF Before
      <4> QED BY <4>1, <4>2
    <3>6. Before(k) >= 1 /\ Before(k) > Boundary => Unbroken(Before(k))'
      <4> SUFFICES ASSUME Before(k) >= 1, Before(k) > Boundary PROVE Unbroken(Before(k))'
        OBVIOUS
      <4>1. Unbroken(Before(k)) /\ Before(k) + 1 = evts[k].seq
        BY <3>1
      <4>2. Before(k) + 1 <= Len(stream)
        BY <3>1, <4>1
      <4>3. PICK b \in Nat : b = Before(k)
        BY <3>5
      <4>4. Unbroken(b)'
        BY <4>1, <4>2, <4>3, UnbrokenStays
      <4> QED BY <2>4, <4>3, <4>4 DEF Unbroken
    <3>7. Event1(k)'
      BY <1>2, <2>1, <2>4, <3>1, <3>2, <3>3, <3>4, <3>6 DEF Event1
    <3> QED BY <3>7 DEF Waits
  <2> QED BY <2>3, <2>5, <2>6 DEF Waits
<1> QED BY <1>2, <1>3, <1>5

\* Our run is as it was when the session goes on.
LEMMA FollowingKept ==
  ASSUME Typed, Following, Grows, UNCHANGED <<shown, ours, working, failed, baseline, lastTool>>
  PROVE  Following'
<1>1. /\ Taken' = Taken /\ Len(stream) \in Nat /\ Len(stream') \in Nat /\ Taken \in Nat
  BY TakenType DEF Taken, Typed, SessionOK, Grows
<1> SUFFICES ASSUME ~failed PROVE Following'
  BY DEF Following
<1>2. Taken <= Len(stream)
  BY DEF Following
<1>3. ASSUME NEW p \in 1..Len(stream), Follows(p) PROVE p \in 1..Len(stream') /\ Follows(p)'
  <2>1. /\ p \in 1..Len(stream') /\ \A i \in p..Taken : i \in 1..Len(stream)
        /\ \A i \in (p + 1)..Taken : i \in 1..Len(stream)
    BY <1>1, <1>2 DEF Grows
  <2>2. stream'[p] = stream[p] /\ \A i \in p..Taken : stream'[i] = stream[i]
    BY <2>1 DEF Grows
  <2>3. GoesOn(p) => GoesOn(p)'
    <3>1. \A i \in (p + 1)..Taken : stream'[i] = stream[i]
      BY <2>1 DEF Grows
    <3> QED BY <1>1, <3>1 DEF GoesOn
  <2>8. LastToolFailed(p, Taken)' => LastToolFailed(p, Taken)
    <3>1. ASSUME NEW i \in p..Taken PROVE \A j \in i..Taken : stream'[j] = stream[j]
      <4>1. \A j \in i..Taken : j \in p..Taken
        BY <1>1
      <4> QED BY <2>2, <4>1
    <3> SUFFICES ASSUME NEW i \in p..Taken, stream'[i].kind = "tool failed",
                        \A j \in i..Taken : stream'[j].kind # "tool ok"
                 PROVE  LastToolFailed(p, Taken)
      BY <1>1 DEF LastToolFailed
    <3>2. stream[i].kind = "tool failed" /\ \A j \in i..Taken : stream[j].kind # "tool ok"
      BY <2>2, <3>1
    <3> QED BY <3>2 DEF LastToolFailed
  <2>9. lastTool' = "tool failed" \/ ~LastToolFailed(p, Taken)'
    BY <1>3, <2>8 DEF Follows
  <2>4. WasCut(p) => WasCut(p)'
    <3> SUFFICES ASSUME NEW q \in p..Taken, RunOf(Mine, p, q), stream[q].kind = "interrupted"
                 PROVE  RunOf(Mine, p, q)' /\ stream'[q].kind = "interrupted"
      BY <1>1 DEF WasCut
    <3>1. \A i \in (p + 1)..(q - 1) : i \in p..Taken
      BY <1>1
    <3> QED BY <2>2, <3>1 DEF RunOf
  <2>5. GoesOn(p)' \/ WasCut(p)'
    BY <1>3, <2>3, <2>4 DEF Follows
  <2>6. /\ p <= Taken' /\ p > baseline' /\ stream'[p] = Event("instruction", Mine)
        /\ \A i \in p..Taken' : stream'[i].kind \notin {"error", "idle"}
    BY <1>1, <1>3, <2>2 DEF Follows
  <2>7. working' <=> Taken' > p
    BY <1>1, <1>3 DEF Follows
  <2> QED BY <2>1, <2>5, <2>6, <2>7, <2>9 DEF Follows
<1>4. ours => \E p \in 1..Len(stream') : Follows(p)'
  BY <1>3 DEF Following
<1> QED BY <1>1, <1>2, <1>4 DEF Following, Grows

\* An event comes behind what is on the way.
LEMMA EmitMoves ==
  ASSUME Typed, NEW ev \in SessionEvent, Emit(ev), attached
  PROVE  /\ Upcoming' = Upcoming /\ First' = First /\ First \in 0..1
         /\ Len(down) \in Nat /\ Len(down') = Len(down) + 1
         /\ \A i \in 1..Len(down) : down'[i] = down[i]
         /\ down'[Len(down) + 1] = Envelope(Len(stream) + 1, ev)
         /\ Len(stream) \in Nat /\ Len(stream') = Len(stream) + 1 /\ stream' = Append(stream, ev)
         /\ down # <<>> => Head(down') = Head(down)
         /\ UNCHANGED <<attached, floors, client, lastSeq, known, evts>>
<1>1. /\ Len(stream') = Len(stream) + 1 /\ Len(stream) \in Nat /\ stream' = Append(stream, ev)
      /\ down' = Append(down, Envelope(Len(stream) + 1, ev))
      /\ UNCHANGED <<attached, floors, client, lastSeq, known, evts>>
      /\ down \in Seq(Wire) /\ Envelope(Len(stream) + 1, ev) \in Wire
  <2>1. Len(stream) \in Nat /\ down \in Seq(Wire)
    BY DEF Typed, SessionOK, LinkOK
  <2>2. stream' = Append(stream, ev)
    BY DEF Emit
  <2>3. Envelope(Len(stream) + 1, ev) \in Wire
    BY <2>1, WireTyped
  <2> QED BY <2>1, <2>2, <2>3, EmitTyped
<1> DEFINE x == Envelope(Len(stream) + 1, ev)
<1> HIDE DEF x
<1>2. /\ Len(down) \in Nat /\ Len(down') = Len(down) + 1
      /\ \A i \in 1..Len(down) : down'[i] = down[i]
      /\ down'[Len(down) + 1] = x
  BY <1>1, AppendTyped DEF x
<1>3. First \in 0..1 /\ First' = First
  BY <1>1 DEF First
<1>4. Upcoming' = Upcoming
  BY <1>1, <1>2, <1>3 DEF Upcoming
<1>5. down # <<>> => Head(down') = Head(down)
  <2>1. down' = Append(down, x) /\ x \in Wire
    BY <1>1 DEF x
  <2>2. down # <<>> => 1 \in 1..Len(down)
    BY <1>1, NotEmpty
  <2> QED BY <1>1, <1>2, <2>1, <2>2, AppendProperties, HeadTyped
<1> QED BY <1>1, <1>2, <1>3, <1>4, <1>5 DEF x

\* What is on the way are events of the session.
LEMMA DownRange ==
  ASSUME Typed, OnTheWay, attached
  PROVE  \A i \in (First + 1)..Len(down) : down[i].seq \in 1..Len(stream)
<1> SUFFICES ASSUME NEW i \in (First + 1)..Len(down) PROVE down[i].seq \in 1..Len(stream)
  OBVIOUS
<1>1. /\ Len(stream) \in Nat /\ down \in Seq(Wire) /\ Len(down) \in Nat
      /\ First \in 0..1
  BY DEF Typed, SessionOK, LinkOK, First
<1>2. Len(down) <= Len(stream) + First /\ down[i].seq + Len(down) = Len(stream) + i
  BY DEF OnTheWay
<1>3. i \in 1..Len(down)
  BY <1>1
<1>4. down[i].seq \in Nat
  BY <1>1, <1>3, WireTyped
<1> DEFINE x == down[i].seq
           n == Len(down)
           l == Len(stream)
           f == First
<1>5. /\ x \in Nat /\ n \in Nat /\ l \in Nat /\ f \in 0..1 /\ i \in Int
      /\ i >= f + 1 /\ i <= n /\ n <= l + f /\ x + n = l + i
  BY <1>1, <1>2, <1>4
<1> HIDE DEF x, n, l, f
<1>6. x \in 1..l
  BY <1>5
<1> QED BY <1>6 DEF x, l

\* What a step of the session adds fits what the session was doing.
LEMMA SessionStages ==
  ASSUME Typed, Session
  PROVE  \E ev \in SessionEvent :
           /\ Emit(ev)
           /\ \/ doing = "none" /\ ev.kind = "instruction" /\ doing' = "begun"
              \/ doing = "begun" /\ ev.kind = "working" /\ doing' = "working"
              \/ doing = "working" /\ ev.kind \in {"tool ok", "tool failed", "error"}
                 /\ doing' = "working"
              \/ doing = "working" /\ ev.kind \in {"idle", "interrupted"} /\ doing' = "none"
<1>1. CASE RunBegins
  <2>1. Head(queue) \in Texts
    BY <1>1, HeadTyped DEF RunBegins, Typed, SessionOK
  <2>2. Event("instruction", Head(queue)) \in SessionEvent
    BY <2>1, EventTyped DEF Kinds
  <2>3. Event("instruction", Head(queue)).kind = "instruction"
    BY DEF Event
  <2> QED BY <1>1, <2>2, <2>3 DEF RunBegins
<1>2. \A kind \in {"working", "tool ok", "tool failed", "error", "idle", "interrupted"} :
        Event(kind, "agent") \in SessionEvent /\ Event(kind, "agent").kind = kind
  BY EventTyped DEF Kinds, Event
<1>3. CASE RunWorks
  BY <1>2, <1>3 DEF RunWorks
<1>4. CASE RunUsesTool
  <2>1. PICK kind \in {"tool ok", "tool failed", "error"} : Emit(Event(kind, "agent"))
    BY <1>4 DEF RunUsesTool
  <2> QED BY <1>2, <1>4, <2>1 DEF RunUsesTool
<1>5. CASE RunEnds
  <2>1. PICK kind \in {"idle", "interrupted"} : Emit(Event(kind, "agent"))
    BY <1>5 DEF RunEnds
  <2> QED BY <1>2, <1>5, <2>1 DEF RunEnds
<1> QED BY <1>1, <1>3, <1>4, <1>5 DEF Session

LEMMA DeservedSession ==
  ASSUME FlowInv, Deserved, Session, UNCHANGED onceVars
  PROVE  Deserved'
<1>0. Typed /\ OnTheWay /\ Waiting /\ Acquainted /\ Following /\ Connection
  BY DEF FlowInv, Deserved
<1>1. PICK ev \in SessionEvent :
        /\ Emit(ev)
        /\ \/ doing = "none" /\ ev.kind = "instruction" /\ doing' = "begun"
           \/ doing = "begun" /\ ev.kind = "working" /\ doing' = "working"
           \/ doing = "working" /\ ev.kind \in {"tool ok", "tool failed", "error"}
              /\ doing' = "working"
           \/ doing = "working" /\ ev.kind \in {"idle", "interrupted"} /\ doing' = "none"
  BY <1>0, SessionStages
<1>2. /\ stream' = Append(stream, ev) /\ stream \in Seq(SessionEvent)
      /\ stream' \in Seq(SessionEvent) /\ Len(stream) \in Nat /\ Len(stream') = Len(stream) + 1
      /\ \A i \in 1..Len(stream) : stream'[i] = stream[i]
      /\ stream'[Len(stream) + 1] = ev
  <2>1. stream' = Append(stream, ev)
    BY <1>1 DEF Emit
  <2>2. stream \in Seq(SessionEvent)
    BY <1>0 DEF Typed, SessionOK
  <2> QED BY <2>1, <2>2, AppendTyped
<1>3. Grows
  BY <1>2 DEF Grows
<1>4. /\ UNCHANGED <<attached, client, known, lastSeq, evts>>
      /\ UNCHANGED <<baseline, ours, working, failed, lastTool, shown>>
  BY <1>0, <1>1, EmitTyped DEF onceVars
<1>5. Following'
  BY <1>0, <1>3, <1>4, FollowingKept
<1>6. /\ \A k \in 1..Len(evts) : CleanTo(k)' => Waits(k)'
      /\ evts # <<>> => Boundary' = Boundary
  BY <1>0, <1>3, <1>4, WaitingKept DEF Typed, ClientOK
<1>7. Boundary' = Boundary /\ LastGiven' = LastGiven /\ Clean' = Clean /\ Fresh' = Fresh
  BY <1>4 DEF Boundary, IsHello, LastGiven, Taken, Clean, CleanTo, Fresh, Unstarted
<1>8. Waiting' /\ Acquainted'
  BY <1>0, <1>4, <1>6 DEF Waiting, Acquainted
<1>9. ASSUME Clean, attached, Live PROVE Live'
  <2>1. /\ Upcoming' = Upcoming /\ First' = First /\ First \in 0..1
        /\ Len(down) \in Nat /\ Len(down') = Len(down) + 1
        /\ \A i \in 1..Len(down) : down'[i] = down[i]
        /\ down'[Len(down) + 1] = Envelope(Len(stream) + 1, ev)
        /\ down # <<>> => Head(down') = Head(down)
    BY <1>0, <1>1, <1>9, EmitMoves
  <2>2. client = "greeting" => down # <<>>
    BY <1>0, <1>9 DEF OnTheWay
  <2>3. client' = "greeting" => Fresh' /\ IsHello(Head(down'))
    BY <1>4, <1>7, <1>9, <2>1, <2>2 DEF Live, IsHello
  <2>4. Unread' = Unread
    BY <1>4, <1>7, <2>1, <2>2 DEF Unread
  <2>5. \A i \in (First + 1)..(Len(down) + 1) : down'[i].ev = stream'[down'[i].seq]
    <3> SUFFICES ASSUME NEW i \in (First + 1)..(Len(down) + 1)
                 PROVE  down'[i].ev = stream'[down'[i].seq]
      OBVIOUS
    <3>1. CASE i = Len(down) + 1
      BY <1>2, <2>1, <3>1 DEF Envelope
    <3>2. CASE i # Len(down) + 1
      <4>1. i \in (First + 1)..Len(down) /\ i \in 1..Len(down)
        BY <2>1, <3>2
      <4>2. down[i].seq \in 1..Len(stream)
        BY <1>0, <1>9, <4>1, DownRange
      <4>3. down[i].ev = stream[down[i].seq]
        BY <1>9, <4>1 DEF Live
      <4> QED BY <1>2, <2>1, <4>1, <4>2, <4>3
    <3> QED BY <3>1, <3>2
  <2>6. ASSUME NEW i \in 1..(Len(stream) + 1), Unread < i, i < Len(stream) + 1
        PROVE  Unbroken(i)'
    <3>1. i \in 1..Len(stream)
      BY <1>2, <2>6
    <3>2. CASE i = Len(stream)
      <4>1. Stage(i)
        BY <1>9, <2>6, <3>2 DEF Live
      <4>2. stream'[i] = stream[i] /\ stream'[i + 1] = ev
        BY <1>2, <3>1, <3>2
      <4> QED BY <1>1, <4>1, <4>2 DEF Stage, Unbroken, Busy, InRun
    <3>3. CASE i # Len(stream)
      <4>1. i < Len(stream) /\ i \in Nat /\ i >= 1 /\ i + 1 <= Len(stream)
        BY <1>2, <3>1, <3>3
      <4>2. Unbroken(i)
        BY <1>9, <2>6, <3>1, <4>1 DEF Live
      <4> QED BY <1>0, <1>3, <4>1, <4>2, UnbrokenStays
    <3> QED BY <3>2, <3>3
  <2>7. Stage(Len(stream))'
    <3>1. stream'[Len(stream')] = ev
      BY <1>2
    <3> QED BY <1>1, <3>1 DEF Stage, Busy
  <2>8. lastSeq' = LastGiven' /\ (lastSeq' >= 1 => Upcoming' = lastSeq' + 1)
    BY <1>4, <1>7, <1>9, <2>1 DEF Live
  <2> QED BY <1>2, <2>1, <2>3, <2>4, <2>5, <2>6, <2>7, <2>8 DEF Live
<1>10. Connection'
  BY <1>0, <1>4, <1>7, <1>9 DEF Connection
<1> QED BY <1>5, <1>8, <1>10 DEF Deserved

\* Steps that neither add an event of the session nor give one out.
LEMMA DeservedQuiet ==
  ASSUME FlowInv, Deserved,
         UNCHANGED <<attached, stream, doing, lastSeq, known, evts, onceVars>>,
         attached => UNCHANGED <<down, client>>,
         client' = "online" => client = "online"
  PROVE  Deserved'
<1>0. Typed /\ Waiting /\ Acquainted /\ Following /\ Connection
  BY DEF FlowInv, Deserved
<1>1. UNCHANGED <<baseline, ours, working, failed, lastTool, shown, stream, doing, evts>>
  BY DEF onceVars
<1>2. Grows
  BY <1>0, SameGrows
<1>3. Following'
  BY <1>0, <1>1, <1>2, FollowingKept
<1>4. Waiting'
  BY <1>0, <1>1, <1>2, WaitingKept DEF Waiting, Typed, ClientOK
<1>5. Acquainted'
  BY <1>0 DEF Acquainted
<1>6. Boundary' = Boundary /\ LastGiven' = LastGiven /\ Clean' = Clean /\ Fresh' = Fresh
  BY <1>1 DEF Boundary, IsHello, LastGiven, Taken, Clean, CleanTo, Fresh, Unstarted
<1>7. ASSUME attached, Live PROVE Live'
  BY <1>1, <1>6, <1>7 DEF Live, Unread, Upcoming, First, Unbroken, Stage, IsHello
<1>8. Connection'
  BY <1>0, <1>6, <1>7 DEF Connection
<1> QED BY <1>3, <1>4, <1>5, <1>8 DEF Deserved

\* An envelope is given out.
LEMMA GivenBehind ==
  ASSUME Typed, Waiting, Following, Grows, NEW x \in Wire, evts' = Append(evts, x),
         NEW n \in Nat, n = Len(evts) + 1, UNCHANGED onceVars
  PROVE  /\ (CleanTo(n)' => Waits(n)') => Waiting'
         /\ Following'
         /\ Clean' => Clean /\ x # ConnError
         /\ LastGiven' = x.seq /\ evts' # <<>> /\ evts'[n] = x
         /\ evts # <<>> => Boundary' = Boundary
         /\ evts = <<>> => n = 1
         /\ Before(n)' = LastGiven
<1>1. UNCHANGED <<baseline, ours, working, failed, lastTool, shown>>
  BY DEF onceVars
<1> DEFINE m == Len(evts)
<1>2. /\ m \in Nat /\ evts \in Seq(Wire) /\ evts' \in Seq(Wire)
      /\ Len(evts') = m + 1 /\ evts' # <<>>
      /\ \A i \in 1..m : evts'[i] = evts[i]
      /\ evts'[m + 1] = x
  BY AppendTyped DEF Typed, ClientOK
<1> HIDE DEF m
<1>3. n = m + 1 /\ m <= m + 1
  BY <1>2 DEF m
<1>4. Following'
  BY <1>1, FollowingKept
<1>5. /\ \A k \in 1..m : CleanTo(k)' => Waits(k)'
      /\ evts # <<>> => Boundary' = Boundary
  BY <1>1, <1>2, <1>3, WaitingKept DEF m
<1>6. (CleanTo(n)' => Waits(n)') => Waiting'
  <2>1. \A k \in 1..(m + 1) : k \in 1..m \/ k = n
    BY <1>2, <1>3
  <2>2. 1..Len(evts') = 1..(m + 1)
    BY <1>2
  <2> QED BY <1>5, <2>1, <2>2 DEF Waiting
<1>7. Clean' => Clean /\ x # ConnError
  <2> SUFFICES ASSUME ~failed', \A i \in 1..(m + 1) : evts'[i] # ConnError
               PROVE  Clean /\ x # ConnError
    BY <1>2 DEF Clean, CleanTo
  <2>1. m + 1 \in 1..(m + 1) /\ \A i \in 1..m : i \in 1..(m + 1)
    BY <1>2
  <2> QED BY <1>1, <1>2, <2>1 DEF Clean, CleanTo, m
<1>8. LastGiven' = x.seq /\ evts'[n] = x
  BY <1>2, <1>3 DEF LastGiven
<1>9. evts = <<>> => n = 1
  BY EmptyTyped, <1>3 DEF m
<1>10. Before(n)' = LastGiven
  <2>1. CASE evts = <<>>
    BY <1>1, <1>9, <2>1 DEF Before, LastGiven, Taken
  <2>2. CASE evts # <<>>
    <3>1. m \in 1..m /\ n # 1 /\ n - 1 = m
      BY <1>2, <1>3, <2>2, NotEmpty DEF m
    <3>2. evts'[n - 1] = evts[m]
      BY <1>2, <3>1
    <3> QED BY <2>2, <3>1, <3>2 DEF Before, LastGiven, m
  <2> QED BY <2>1, <2>2
<1> QED BY <1>2, <1>4, <1>5, <1>6, <1>7, <1>8, <1>9, <1>10

\* A break is told.
LEMMA DeservedBreak ==
  ASSUME FlowInv, Deserved, Grows, evts' = Append(evts, ConnError), client' # "online",
         UNCHANGED <<lastSeq, known, onceVars>>
  PROVE  Deserved'
<1>0. Typed /\ Waiting /\ Acquainted /\ Following
  BY DEF FlowInv, Deserved
<1>1. PICK n \in Nat : n = Len(evts) + 1
  BY <1>0 DEF Typed, ClientOK
<1>2. /\ (CleanTo(n)' => Waits(n)') => Waiting'
      /\ Following' /\ (Clean' => Clean /\ ConnError # ConnError) /\ evts'[n] = ConnError
  BY <1>0, <1>1, GivenBehind, WireTyped
<1>3. n \in 1..n
  BY <1>0, <1>1 DEF Typed, ClientOK
<1>4. ~CleanTo(n)'
  BY <1>2, <1>3 DEF CleanTo
<1>5. Acquainted'
  BY <1>0 DEF Acquainted
<1> QED BY <1>2, <1>4, <1>5 DEF Deserved, Connection

LEMMA DeservedTrouble ==
  ASSUME FlowInv, Deserved, Trouble, UNCHANGED onceVars
  PROVE  Deserved'
<1>0. Typed /\ Waiting /\ Acquainted /\ Following /\ Connection
  BY DEF FlowInv, Deserved
<1>1. CASE Rejected
  <2>1. /\ evts' = Append(evts, ConnError) /\ client' # "online" /\ stream' = stream
        /\ UNCHANGED <<lastSeq, known>>
    BY <1>1 DEF Rejected, Show, sessionVars
  <2>2. Grows
    BY <1>0, <2>1, SameGrows
  <2> QED BY <2>1, <2>2, DeservedBreak
<1>2. CASE ConnectionBreaks
  <2>1. /\ evts' = Append(evts, ConnError) /\ client' # "online" /\ stream' = stream
        /\ UNCHANGED <<lastSeq, known>>
    BY <1>2 DEF ConnectionBreaks, Lost, Show, sessionVars
  <2>2. Grows
    BY <1>0, <2>1, SameGrows
  <2> QED BY <2>1, <2>2, DeservedBreak
<1>3. CASE ServerRestarts
  <2>1. /\ UNCHANGED <<lastSeq, known>> /\ client' # "online" /\ ~attached'
        /\ stream' = stream \/ \E ends \in Seq(Unasked) : stream' = stream \o ends
        /\ stream' \in Seq(SessionEvent)
    BY <1>0, <1>3, RestartTyped
  <2>2. Grows
    <3>1. ASSUME NEW ends \in Seq(Unasked), stream' = stream \o ends PROVE Grows
      <4>1. Unasked \subseteq SessionEvent
        BY DEF Unasked
      <4>2. ends \in Seq(SessionEvent) /\ stream \in Seq(SessionEvent)
        BY <1>0, <4>1, SubsetTyped DEF Typed, SessionOK
      <4> DEFINE a == Len(stream)
                 b == Len(ends)
      <4>3. /\ a \in Nat /\ b \in Nat /\ Len(stream') = a + b
            /\ \A i \in 1..(a + b) : stream'[i] = IF i <= a THEN stream[i] ELSE ends[i - a]
        BY <3>1, <4>2, ConcatProperties, LenProperties
      <4> HIDE DEF a, b
      <4>4. a <= a + b /\ \A i \in 1..a : i <= a /\ i \in 1..(a + b)
        BY <4>3
      <4> QED BY <2>1, <4>3, <4>4 DEF Grows, a
    <3> QED BY <1>0, <2>1, <3>1, SameGrows
  <2>3. CASE evts' = Append(evts, ConnError)
    BY <2>1, <2>2, <2>3, DeservedBreak
  <2>4. CASE client = "offline" /\ UNCHANGED <<attached, evts>>
    <3>1. ~attached
      BY <1>0, <2>4 DEF Typed, LinkOK
    <3>2. UNCHANGED <<baseline, ours, working, failed, lastTool, shown>>
      BY DEF onceVars
    <3>3. Following'
      BY <1>0, <2>2, <3>2, FollowingKept
    <3>4. Waiting'
      BY <1>0, <2>2, <2>4, <3>2, WaitingKept DEF Waiting, Typed, ClientOK
    <3>5. Acquainted'
      BY <1>0, <2>1 DEF Acquainted
    <3>6. Connection'
      BY <1>0, <2>1, <2>4, <3>1, <3>2 DEF Connection, Clean, CleanTo, Fresh, Unstarted
    <3> QED BY <3>3, <3>4, <3>5, <3>6 DEF Deserved
  <2> QED BY <1>3, <2>3, <2>4 DEF ServerRestarts, Lost, Show
<1> QED BY <1>1, <1>2, <1>3 DEF Trouble

LEMMA DeservedAttach ==
  ASSUME FlowInv, Deserved, Attach, UNCHANGED onceVars
  PROVE  Deserved'
<1>0. Typed /\ Given /\ Waiting /\ Acquainted /\ Following /\ Connection
  BY DEF FlowInv, Deserved
<1>1. /\ client' = "greeting" /\ client = "greeting" /\ ~attached /\ attached'
      /\ stream' = (IF known THEN stream ELSE <<>>)
      /\ UNCHANGED <<evts, lastSeq, known>>
  BY DEF Attach, clientVars
<1>2. UNCHANGED <<baseline, ours, working, failed, lastTool, shown>>
  BY DEF onceVars
<1>3. /\ stream' \in Seq(SessionEvent) /\ Len(stream') \in Nat
      /\ \A i \in 2..Len(down') : down'[i].ev = stream'[down'[i].seq]
      /\ IsHello(Head(down')) /\ Head(down').replay = Len(stream')
  BY <1>0, AttachSends DEF IsHello
<1>4. Following' /\ Waiting'
  <2>1. CASE known
    <3>1. Grows
      BY <1>0, <1>1, <2>1, SameGrows
    <3> QED BY <1>0, <1>1, <1>2, <3>1, FollowingKept, WaitingKept DEF Waiting, Typed, ClientOK
  <2>2. CASE ~known
    <3>1. lastSeq = 0
      BY <1>0, <2>2 DEF Acquainted, Typed, ClientOK
    <3>2. shown = <<>>
      <4>1. shown \in Seq(Nat)
        BY <1>0 DEF Typed, OnceOK
      <4>2. DOMAIN shown = {}
        <5> SUFFICES ASSUME NEW i \in DOMAIN shown PROVE FALSE
          OBVIOUS
        <5>1. shown[i] >= 1 /\ shown[i] <= 0 /\ shown[i] \in Nat
          BY <1>0, <3>1, <4>1 DEF Given, Seen
        <5> QED BY <5>1
      <4> QED BY <4>1, <4>2, NotEmpty
    <3>3. Taken = 0 /\ Taken' = 0
      BY <1>2, <3>2 DEF Taken
    <3>4. Following'
      <4>1. ~(ours /\ ~failed)
        <5> SUFFICES ASSUME ours, ~failed PROVE FALSE
          OBVIOUS
        <5>1. PICK p \in 1..Len(stream) : p <= 0
          BY <1>0, <3>3 DEF Following, Follows
        <5> QED BY <5>1
      <4> QED BY <1>0, <1>2, <1>3, <3>3, <4>1 DEF Following
    <3>5. ASSUME NEW k \in 1..Len(evts), CleanTo(k)' PROVE Waits(k)'
      <4>1. CleanTo(k)
        BY <1>1, <1>2, <3>5 DEF CleanTo
      <4>2. ~Event1(k)
        <5>1. evts[k].seq <= 0 /\ evts[k].seq \in Nat
          BY <1>0, <3>1, NotEmpty, WireTyped DEF Given, Seen, Typed, ClientOK
        <5> QED BY <5>1 DEF Event1
      <4>3. k = 1 /\ IsHello(evts[1]) /\ Unstarted
        BY <1>0, <4>1, <4>2 DEF Waiting, Waits
      <4> QED BY <1>1, <1>2, <4>3 DEF Waits, IsHello, Unstarted
    <3> QED BY <1>1, <3>4, <3>5 DEF Waiting
  <2> QED BY <2>1, <2>2
<1>5. Acquainted'
  BY <1>0, <1>1 DEF Acquainted
<1>6. ASSUME Clean' PROVE Live'
  <2>1. Clean /\ Fresh
    BY <1>0, <1>1, <1>2, <1>6 DEF Clean, CleanTo, Connection
  <2>2. Fresh' /\ lastSeq' = 0 /\ LastGiven' = 0
    BY <1>1, <1>2, <2>1 DEF Fresh, Unstarted, LastGiven, Taken
  <2>3. First' = 1 /\ Unread' = Len(stream')
    BY <1>1, <1>3 DEF First, Unread
  <2>4. \A i \in (First' + 1)..Len(down') : down'[i].ev = stream'[down'[i].seq]
    BY <1>3, <2>3
  <2>5. ~(lastSeq' >= 1) /\ ~(Unread' < Len(stream'))
    BY <1>3, <2>2, <2>3
  <2>6. \A i \in 1..Len(stream') : ~(Unread' < i /\ i < Len(stream'))
    BY <1>3, <2>3
  <2> QED BY <1>3, <2>2, <2>4, <2>5, <2>6 DEF Live
<1>7. Connection'
  BY <1>1, <1>6 DEF Connection
<1> QED BY <1>4, <1>5, <1>7 DEF Deserved

\* The events on the way are the session's behind their head as well.
LEMMA TailEvents ==
  ASSUME Typed, attached, Live, down # <<>>, down' = Tail(down), client' = "online",
         stream' = stream
  PROVE  /\ \A i \in (First' + 1)..Len(down') : down'[i].ev = stream'[down'[i].seq]
         /\ client = "online" => Head(down).ev = stream[Head(down).seq]
<1> DEFINE n == Len(down')
<1>1. /\ n \in Nat /\ Len(down) = n + 1
      /\ \A i \in 1..n : down'[i] = down[i + 1]
      /\ Head(down) = down[1]
  BY HeadTyped DEF Typed, LinkOK
<1> HIDE DEF n
<1>2. First' = 0 /\ First \in 0..1 /\ (client = "online" => First = 0)
  BY DEF First
<1>3. \A i \in (First + 1)..(n + 1) : down[i].ev = stream[down[i].seq]
  BY <1>1 DEF Live
<1>4. \A i \in 1..n : i + 1 \in (First + 1)..(n + 1)
  BY <1>1, <1>2
<1>5. client = "online" => 1 \in (First + 1)..(n + 1)
  BY <1>1, <1>2
<1>6. ASSUME NEW i \in (First' + 1)..Len(down') PROVE i \in 1..n
  BY <1>1, <1>2, <1>6 DEF n
<1> QED BY <1>1, <1>3, <1>4, <1>5, <1>6

LEMMA DeservedGreeted ==
  ASSUME FlowInv, Deserved, Greeted, UNCHANGED onceVars
  PROVE  Deserved'
<1>0. Typed /\ OnTheWay /\ Waiting /\ Acquainted /\ Following /\ Connection
  BY DEF FlowInv, Deserved
<1>1. /\ client = "greeting" /\ down # <<>> /\ down' = Tail(down) /\ client' = "online"
      /\ evts' = Append(evts, Head(down)) /\ known' = TRUE
      /\ UNCHANGED <<lastSeq, attached, floors, stream, doing>>
  BY DEF Greeted, Show, sessionVars
<1>2. attached
  BY <1>0, <1>1 DEF Typed, LinkOK
<1>3. UNCHANGED <<baseline, ours, working, failed, lastTool, shown>>
  BY DEF onceVars
<1>4. /\ Head(down) \in Wire /\ Head(down).seq = 0 /\ Upcoming' = Upcoming
  BY <1>0, <1>1, <1>2, TailOnTheWay
<1>5. Grows
  BY <1>0, <1>1, SameGrows
<1>6. PICK n \in Nat : n = Len(evts) + 1
  BY <1>0 DEF Typed, ClientOK
<1>7. /\ (CleanTo(n)' => Waits(n)') => Waiting'
      /\ Following' /\ (Clean' => Clean)
      /\ LastGiven' = Head(down).seq /\ evts' # <<>> /\ evts'[n] = Head(down)
      /\ evts = <<>> => n = 1
  BY <1>0, <1>1, <1>4, <1>5, <1>6, GivenBehind
<1>8. ASSUME Clean PROVE Live /\ Fresh /\ IsHello(Head(down)) /\ n = 1
  BY <1>0, <1>1, <1>2, <1>7, <1>8 DEF Connection, Live, Fresh
<1>9. CleanTo(n)' => Clean
  <2>1. \A i \in 1..Len(evts) : i \in 1..n /\ evts'[i] = evts[i]
    BY <1>0, <1>1, <1>4, <1>6, AppendTyped DEF Typed, ClientOK
  <2> QED BY <1>3, <2>1 DEF CleanTo, Clean
<1>10. CleanTo(n)' => Waits(n)'
  <2> SUFFICES ASSUME Clean PROVE Waits(n)'
    BY <1>9
  <2>1. n = 1 /\ IsHello(evts'[1]) /\ Unstarted'
    BY <1>3, <1>7, <1>8 DEF Fresh, Unstarted, IsHello
  <2> QED BY <1>6, <2>1 DEF Waits, IsHello
<1>11. Acquainted'
  BY <1>1 DEF Acquainted
<1>12. ASSUME Clean' PROVE Live'
  <2>1. Live /\ Fresh /\ IsHello(Head(down)) /\ n = 1
    BY <1>7, <1>8, <1>12
  <2>2. LastGiven' = 0 /\ lastSeq' = 0
    BY <1>1, <1>4, <1>7, <2>1 DEF Fresh
  <2>3. Unread' = Unread
    BY <1>1, <1>7, <2>1 DEF Unread, Boundary, IsHello
  <2>4. \A i \in (First' + 1)..Len(down') : down'[i].ev = stream'[down'[i].seq]
    BY <1>0, <1>1, <1>2, <2>1, TailEvents
  <2>5. /\ \A i \in 1..Len(stream') : Unread' < i /\ i < Len(stream') => Unbroken(i)'
        /\ Unread' < Len(stream') => Stage(Len(stream))'
    BY <1>1, <2>1, <2>3 DEF Live, Unbroken, Stage
  <2>6. lastSeq' = LastGiven' /\ ~(lastSeq' >= 1) /\ client' # "greeting"
    BY <1>1, <2>2
  <2> QED BY <2>4, <2>5, <2>6 DEF Live
<1>13. Connection'
  BY <1>1, <1>2, <1>12 DEF Connection
<1> QED BY <1>7, <1>10, <1>11, <1>13 DEF Deserved

LEMMA DeservedReceive ==
  ASSUME FlowInv, Deserved, Receive, UNCHANGED onceVars
  PROVE  Deserved'
<1>0. Typed /\ OnTheWay /\ Waiting /\ Acquainted /\ Following /\ Connection
  BY DEF FlowInv, Deserved
<1>1. /\ client = "online" /\ down # <<>> /\ down' = Tail(down) /\ client' = "online"
      /\ known' = known /\ known
      /\ UNCHANGED <<attached, floors, stream, doing>>
  BY <1>0 DEF Receive, sessionVars, Acquainted
<1>2. attached
  BY <1>0, <1>1 DEF Typed, LinkOK
<1>3. UNCHANGED <<baseline, ours, working, failed, lastTool, shown>>
  BY DEF onceVars
<1> DEFINE x == Head(down)
<1>4. /\ x \in Wire /\ x.seq = Upcoming /\ Upcoming' = Upcoming + 1
      /\ Upcoming >= 1 /\ Upcoming \in Int
  BY <1>0, <1>1, <1>2, TailOnTheWay
<1>5. Grows
  BY <1>0, <1>1, SameGrows
<1>6. /\ lastSeq \in Nat /\ x.seq \in Nat /\ Len(stream) \in Nat
  BY <1>0, <1>4, WireTyped DEF Typed, ClientOK, SessionOK
<1>7. x.seq <= Len(stream)
  <2>1. Len(down) >= 1 /\ Len(down) \in Nat
    BY <1>0, <1>1, HeadTyped DEF Typed, LinkOK
  <2>2. Upcoming = Len(stream) + 0 + 1 - Len(down)
    BY <1>1 DEF Upcoming, First
  <2> QED BY <1>4, <1>6, <2>1, <2>2
<1>8. Acquainted'
  BY <1>1 DEF Acquainted
<1>9. CASE x.seq <= lastSeq
  <2>1. UNCHANGED <<lastSeq, evts>>
    BY <1>9 DEF Receive
  <2>2. Following' /\ Waiting'
    BY <1>0, <1>3, <1>5, <2>1, FollowingKept, WaitingKept DEF Waiting, Typed, ClientOK
  <2>3. ~Clean
    <3> SUFFICES ASSUME Clean PROVE FALSE
      OBVIOUS
    <3>1. Live
      BY <1>0, <1>2 DEF Connection
    <3> QED BY <1>4, <1>6, <1>9, <3>1 DEF Live
  <2>4. ~Clean'
    BY <1>3, <2>1, <2>3 DEF Clean, CleanTo
  <2> QED BY <1>8, <2>2, <2>4 DEF Deserved, Connection
<1>10. CASE ~(x.seq <= lastSeq)
  <2>1. evts' = Append(evts, x) /\ lastSeq' = x.seq
    BY <1>10 DEF Receive, Show
  <2>2. PICK n \in Nat : n = Len(evts) + 1
    BY <1>0 DEF Typed, ClientOK
  <2>3. /\ (CleanTo(n)' => Waits(n)') => Waiting'
        /\ Following' /\ (Clean' => Clean)
        /\ LastGiven' = x.seq /\ evts' # <<>> /\ evts'[n] = x
        /\ evts # <<>> => Boundary' = Boundary
        /\ evts = <<>> => n = 1
        /\ Before(n)' = LastGiven
    BY <1>0, <1>4, <1>5, <2>1, <2>2, GivenBehind
  <2>4. CleanTo(n)' => Clean
    <3>1. \A i \in 1..Len(evts) : i \in 1..n /\ evts'[i] = evts[i]
      BY <1>0, <1>4, <2>1, <2>2, AppendTyped DEF Typed, ClientOK
    <3> QED BY <1>3, <3>1 DEF CleanTo, Clean
  <2>5. ASSUME Clean
        PROVE  /\ Live /\ LastGiven = lastSeq /\ x.ev = stream[x.seq]
               /\ lastSeq >= 1 => x.seq = lastSeq + 1
               /\ Boundary' = Boundary /\ Unread = Boundary
    <3>1. Live
      BY <1>0, <1>2, <2>5 DEF Connection
    <3>2. x.ev = stream[x.seq]
      BY <1>0, <1>1, <1>2, <3>1, TailEvents
    <3>3. lastSeq >= 1 => x.seq = lastSeq + 1
      BY <1>4, <3>1 DEF Live
    <3>4. ~IsHello(x)
      <4>1. stream[x.seq] \in SessionEvent
        BY <1>0, <1>4, <1>6, <1>7, NotEmpty DEF Typed, SessionOK
      <4> QED BY <3>2, <4>1 DEF IsHello, SessionEvent
    <3>5. Boundary' = Boundary
      BY <1>3, <2>3, <3>4 DEF Boundary, IsHello
    <3> QED BY <1>1, <3>1, <3>2, <3>3, <3>5 DEF Live, Unread
  <2>6. ASSUME Clean PROVE Waits(n)'
    <3>1. /\ evts'[n].seq >= 1 /\ evts'[n].seq <= Len(stream')
          /\ evts'[n].ev = stream'[evts'[n].seq]
      BY <1>1, <1>4, <1>7, <2>3, <2>5, <2>6
    <3>2. Before(n)' = lastSeq
      BY <2>3, <2>5, <2>6
    <3>3. lastSeq >= 1 => evts'[n].seq = lastSeq + 1
      BY <2>3, <2>5, <2>6
    <3>4. lastSeq >= 1 /\ lastSeq > Boundary' => Unbroken(lastSeq)
      <4> SUFFICES ASSUME lastSeq >= 1, lastSeq > Boundary' PROVE Unbroken(lastSeq)
        OBVIOUS
      <4>1. x.seq = lastSeq + 1
        BY <2>5, <2>6
      <4>2. lastSeq \in 1..Len(stream) /\ lastSeq < Len(stream)
        BY <1>6, <1>7, <4>1
      <4>3. Unread < lastSeq
        <5>1. Boundary' = Unread
          BY <2>5, <2>6
        <5> QED BY <5>1
      <4> QED BY <2>5, <2>6, <4>2, <4>3 DEF Live
    <3>5. lastSeq >= 1 /\ lastSeq > Boundary' => Unbroken(Before(n))'
      BY <1>1, <3>2, <3>4 DEF Unbroken
    <3>6. Event1(n)'
      BY <2>2, <3>1, <3>2, <3>3, <3>5 DEF Event1
    <3> QED BY <2>2, <3>6 DEF Waits
  <2>7. ASSUME Clean' PROVE Live'
    <3>1. Clean
      BY <2>3, <2>7
    <3>2. /\ Live /\ Boundary' = Boundary /\ Unread = Boundary
      BY <2>5, <3>1
    <3>3. Unread' = Unread
      BY <1>1, <3>2 DEF Unread
    <3>4. lastSeq' = LastGiven' /\ Upcoming' = lastSeq' + 1
      BY <1>4, <2>1, <2>3
    <3>5. \A i \in (First' + 1)..Len(down') : down'[i].ev = stream'[down'[i].seq]
      BY <1>0, <1>1, <1>2, <3>2, TailEvents
    <3>6. /\ \A i \in 1..Len(stream') : Unread' < i /\ i < Len(stream') => Unbroken(i)'
          /\ Unread' < Len(stream') => Stage(Len(stream))'
      BY <1>1, <3>2, <3>3 DEF Live, Unbroken, Stage
    <3> QED BY <1>1, <3>4, <3>5, <3>6 DEF Live
  <2>8. Connection'
    BY <1>1, <1>2, <2>7 DEF Connection
  <2> QED BY <1>8, <2>3, <2>4, <2>6, <2>8 DEF Deserved
<1> QED BY <1>9, <1>10

\* What Take leaves of the channel.
LEMMA TakeShifts ==
  ASSUME Typed, Take
  PROVE  /\ evts # <<>> /\ 1 \in 1..Len(evts) /\ evts[1] \in Wire /\ Head(evts) = evts[1]
         /\ Len(evts') \in Nat /\ Len(evts) = Len(evts') + 1
         /\ \A i \in 1..Len(evts') : i + 1 \in 1..Len(evts) /\ evts'[i] = evts[i + 1]
         /\ Taken' = IF evts[1].seq > 0 THEN evts[1].seq ELSE Taken
         /\ Sees(evts[1])
         /\ stream' = stream
         /\ exit' = "none" => /\ UNCHANGED <<client, known, lastSeq, attached, down, doing>>
                              /\ ~(working /\ evts[1].ev.kind = "idle")
<1>1. /\ evts \in Seq(Wire) /\ shown \in Seq(Nat) /\ evts # <<>> /\ evts' = Tail(evts)
  BY DEF Typed, ClientOK, OnceOK, Take
<1> DEFINE n == Len(evts')
<1>2. /\ n \in Nat /\ Len(evts) = n + 1 /\ Head(evts) = evts[1] /\ Head(evts) \in Wire
      /\ \A i \in 1..n : evts'[i] = evts[i + 1]
  BY <1>1, HeadTyped
<1> HIDE DEF n
<1>3. 1 \in 1..(n + 1) /\ \A i \in 1..n : i + 1 \in 1..(n + 1)
  BY <1>2
<1>4. Taken' = IF evts[1].seq > 0 THEN evts[1].seq ELSE Taken
  <2>1. shown' = IF evts[1].seq > 0 THEN Append(shown, evts[1].seq) ELSE shown
    BY <1>2 DEF Take
  <2>2. evts[1].seq \in Nat
    BY <1>2, WireTyped
  <2>3. CASE evts[1].seq > 0
    <3>1. PICK x \in Nat : x = evts[1].seq /\ x > 0
      BY <2>2, <2>3
    <3>2. /\ Append(shown, x) # <<>> /\ Len(Append(shown, x)) = Len(shown) + 1
          /\ Append(shown, x)[Len(shown) + 1] = x
      <4>1. shown \in Seq(Nat)
        BY <1>1
      <4> QED BY <4>1, AppendTyped
    <3>3. shown' = Append(shown, x)
      BY <2>1, <3>1
    <3>4. Taken' = x
      BY <3>2, <3>3 DEF Taken
    <3> QED BY <3>1, <3>4
  <2>4. CASE ~(evts[1].seq > 0)
    BY <2>1, <2>4 DEF Taken
  <2> QED BY <2>3, <2>4
<1>5. Sees(evts[1])
  BY <1>2 DEF Take
<1>6. stream' = stream
  BY DEF Take, Quit, sessionVars
<1>7. exit' = "none" => /\ UNCHANGED <<client, known, lastSeq, attached, down, doing>>
                        /\ ~(working /\ evts[1].ev.kind = "idle")
  BY <1>2 DEF Take, sessionVars, linkVars
<1> QED BY <1>1, <1>2, <1>3, <1>4, <1>5, <1>6, <1>7 DEF n

\* What is taken without a break before it.
LEMMA TakesHead ==
  ASSUME Typed, Waiting, evts # <<>>, ~failed, evts[1] # ConnError
  PROVE  \/ /\ IsHello(evts[1]) /\ evts[1].seq = 0 /\ evts[1].replay \in Nat
            /\ Unstarted /\ Taken = 0 /\ ~Event1(1)
         \/ /\ Event1(1) /\ ~IsHello(evts[1]) /\ evts[1].ev \in SessionEvent
            /\ evts[1].seq \in 1..Len(stream) /\ evts[1].ev = stream[evts[1].seq]
<1>1. 1 \in 1..Len(evts) /\ evts[1] \in Wire /\ stream \in Seq(SessionEvent)
  BY NotEmpty DEF Typed, ClientOK, SessionOK
<1>2. CleanTo(1)
  BY DEF CleanTo
<1>3. Waits(1)
  BY <1>1, <1>2 DEF Waiting
<1>4. CASE Event1(1)
  <2>1. evts[1].seq \in 1..Len(stream)
    BY <1>1, <1>4, WireTyped DEF Event1
  <2>2. evts[1].ev = stream[evts[1].seq] /\ stream[evts[1].seq] \in SessionEvent
    BY <1>1, <1>4, <2>1, NotEmpty DEF Event1
  <2> QED BY <1>4, <2>1, <2>2 DEF IsHello, SessionEvent
<1>5. CASE IsHello(evts[1]) /\ Unstarted
  <2>1. evts[1].seq = 0 /\ evts[1].replay \in Nat
    BY <1>1, <1>5 DEF IsHello, Wire, SessionEvent
  <2>2. Taken = 0
    BY <1>5 DEF Unstarted, Taken
  <2>3. ~Event1(1)
    BY <2>1 DEF Event1
  <2> QED BY <1>5, <2>1, <2>2, <2>3
<1> QED BY <1>3, <1>4, <1>5 DEF Waits

\* The next event of our run.
LEMMA NextTaken ==
  ASSUME Typed, Waiting, evts # <<>>, ~failed, Event1(1), ~IsHello(evts[1]),
         NEW p \in 1..Len(stream), Follows(p), NEW n \in Nat, n = evts[1].seq
  PROVE  /\ p <= Taken /\ Taken \in Nat /\ n = Taken + 1 /\ p > baseline
         /\ n \in 1..Len(stream) /\ stream[n] = evts[1].ev /\ stream[n] \in SessionEvent
         /\ Taken = p => ~working /\ stream[n].kind = "working"
         /\ Taken # p => working /\ (GoesOn(p) => stream[n].kind \in InRun)
<1>1. /\ Taken \in Nat /\ p \in Nat /\ p >= 1 /\ baseline \in Nat /\ Len(stream) \in Nat
      /\ stream \in Seq(SessionEvent)
  <2>1. stream \in Seq(SessionEvent) /\ Len(stream) \in Nat
    BY DEF Typed, SessionOK
  <2>2. baseline \in Nat
    BY DEF Typed, OnceOK
  <2>3. p \in Nat /\ p >= 1
    BY <2>1
  <2> QED BY <2>1, <2>2, <2>3, TakenType
<1>2. p <= Taken /\ p > baseline /\ stream[p] = Event("instruction", Mine)
  BY DEF Follows
<1>3. Before(1) = Taken /\ Boundary = baseline
  BY DEF Before, Boundary
<1>4. n = Taken + 1 /\ Unbroken(Taken) /\ n <= Len(stream) /\ stream[n] = evts[1].ev
  BY <1>1, <1>2, <1>3 DEF Event1
<1>5. n \in 1..Len(stream) /\ Taken \in 1..Len(stream)
  BY <1>1, <1>2, <1>4
<1>6. stream[n] \in SessionEvent /\ stream[Taken] \in SessionEvent
  BY <1>1, <1>5, NotEmpty
<1>7. ASSUME Taken = p PROVE ~working /\ stream[n].kind = "working"
  <2>1. ~(Taken > p)
    BY <1>1, <1>7
  <2>2. stream[Taken].kind = "instruction"
    BY <1>2, <1>7 DEF Event
  <2> QED BY <1>4, <2>1, <2>2 DEF Follows, Unbroken
<1>8. ASSUME Taken # p PROVE working /\ (GoesOn(p) => stream[n].kind \in InRun)
  <2>1. Taken > p /\ Taken \in (p + 1)..Taken
    BY <1>1, <1>2, <1>8
  <2>2. GoesOn(p) => stream[Taken].kind \in Busy
    BY <1>6, <2>1 DEF GoesOn, SessionEvent, Kinds, Busy
  <2> QED BY <1>4, <2>1, <2>2 DEF Follows, Unbroken
<1> QED BY <1>1, <1>2, <1>4, <1>5, <1>6, <1>7, <1>8

LEMMA LastToolStays ==
  ASSUME NEW p \in Nat, NEW t \in Nat, NEW n \in Nat, n = t + 1
  PROVE  stream[n].kind # "tool failed" /\ LastToolFailed(p, n) => LastToolFailed(p, t)
<1>1. ASSUME NEW i \in p..n, i # n
      PROVE  i \in p..t /\ \A j \in i..t : j \in i..n
  BY <1>1
<1>2. ASSUME stream[n].kind # "tool failed", NEW i \in p..n, stream[i].kind = "tool failed"
      PROVE  i # n
  BY <1>2
<1>3. ASSUME NEW i \in p..n, i # n, stream[i].kind = "tool failed",
             \A j \in i..n : stream[j].kind # "tool ok"
      PROVE  LastToolFailed(p, t)
  BY <1>1, <1>3 DEF LastToolFailed
<1> QED BY <1>2, <1>3 DEF LastToolFailed

\* An event behind a run that goes on, without an end of it, an error or a tool.
LEMMA RunEndsAt ==
  ASSUME Typed, NEW p \in 1..Len(stream), Follows(p), GoesOn(p), NEW n \in Nat, n = Taken + 1,
         stream[n].kind \in {"idle", "interrupted"}
  PROVE  RunOf(Mine, p, n)
<1>1. Taken \in Nat /\ p \in Nat /\ p <= Taken /\ stream[p] = Event("instruction", Mine)
  <2>1. p \in Nat
    BY DEF Typed, SessionOK
  <2>2. p <= Taken /\ stream[p] = Event("instruction", Mine)
    BY DEF Follows
  <2> QED BY <2>1, <2>2, TakenType
<1>2. p < n /\ (p + 1)..(n - 1) = (p + 1)..Taken
  BY <1>1
<1>3. \A i \in (p + 1)..(n - 1) : stream[i].kind \notin {"instruction", "idle", "interrupted"}
  BY <1>2 DEF GoesOn
<1> QED BY <1>1, <1>2, <1>3 DEF RunOf

\* Our run as far as event n, in terms of what holds behind Take.
LEMMA FollowsOn ==
  ASSUME Typed, stream' = stream, NEW p \in 1..Len(stream), NEW n \in Nat, Taken' = n,
         p <= n, p > baseline', stream[p] = Event("instruction", Mine),
         working' <=> n > p,
         \A i \in p..n : stream[i].kind \notin {"error", "idle"},
         \/ \A i \in (p + 1)..n : stream[i].kind \notin {"instruction", "idle", "interrupted"}
         \/ \E q \in p..n : RunOf(Mine, p, q) /\ stream[q].kind = "interrupted",
         lastTool' = "tool failed" \/ ~LastToolFailed(p, n)
  PROVE  Follows(p)'
<1>1. GoesOn(p)' \/ WasCut(p)'
  BY DEF GoesOn, WasCut, RunOf
<1>2. lastTool' = "tool failed" \/ ~LastToolFailed(p, Taken)'
  BY DEF LastToolFailed
<1> QED BY <1>1, <1>2 DEF Follows

\* Our run goes on with the event that is taken.
LEMMA RunTaken ==
  ASSUME Typed, Waiting, Take, exit' = "none", ~failed, ours, working => ours, evts # <<>>,
         evts[1].ev.kind # "error", Event1(1), ~IsHello(evts[1]),
         NEW p \in 1..Len(stream), Follows(p)
  PROVE  Follows(p)'
<1>1. PICK n \in Nat : n = evts[1].seq /\ n >= 1
  <2>1. evts[1].seq \in Nat
    BY TakeShifts, WireTyped
  <2> QED BY <2>1 DEF Event1
<1>2. PICK t \in Nat : t = Taken
  BY TakenType
<1>3. /\ p <= t /\ n = t + 1 /\ p > baseline
      /\ n \in 1..Len(stream) /\ stream[n] = evts[1].ev /\ stream[n] \in SessionEvent
      /\ t = p => ~working /\ stream[n].kind = "working"
      /\ t # p => working /\ (GoesOn(p) => stream[n].kind \in InRun)
  BY <1>1, <1>2, NextTaken
<1>4. /\ stream' = stream /\ Taken' = n
      /\ Sees(evts[1]) /\ ~(working /\ stream[n].kind = "idle")
  BY <1>1, <1>3, TakeShifts
<1>5. /\ baseline' = baseline
      /\ working' <=> working \/ stream[n].kind \in {"working", "interrupted"}
      /\ lastTool' = IF stream[n].kind \in {"tool ok", "tool failed"} THEN stream[n].kind
                     ELSE lastTool
  BY <1>3, <1>4 DEF Sees, IsHello
<1>6. p \in Nat /\ p < n /\ n > p /\ p <= n
  BY <1>3
<1>7. working'
  BY <1>3, <1>5
<1>8. /\ stream[p] = Event("instruction", Mine)
      /\ \A i \in p..t : stream[i].kind \notin {"error", "idle"}
      /\ GoesOn(p) \/ WasCut(p)
  BY <1>2 DEF Follows
<1>9. stream[n].kind \notin {"error", "idle"}
  BY <1>3, <1>4
<1>10. /\ \A i \in p..n : i \in p..t \/ i = n
       /\ \A i \in (p + 1)..n : i \in (p + 1)..t \/ i = n
       /\ \A i \in p..t : i \in p..n
       /\ n \in p..n
  <2>1. n = t + 1 /\ p <= n /\ p \in Nat
    BY <1>3, <1>6
  <2> QED BY <2>1
<1>11. \A i \in p..n : stream[i].kind \notin {"error", "idle"}
  BY <1>8, <1>9, <1>10
<1>15. lastTool' = "tool failed" \/ ~LastToolFailed(p, n)
  <2>1. lastTool = "tool failed" \/ ~LastToolFailed(p, t)
    BY <1>2 DEF Follows
  <2>2. CASE stream[n].kind = "tool failed"
    BY <1>5, <2>2
  <2>3. CASE stream[n].kind = "tool ok"
    <3>1. \A i \in p..n : n \in i..n
      BY <1>6
    <3> QED BY <2>3, <3>1 DEF LastToolFailed
  <2>4. CASE stream[n].kind \notin {"tool ok", "tool failed"}
    BY <1>3, <1>5, <1>6, <2>1, <2>4, LastToolStays
  <2> QED BY <2>2, <2>3, <2>4
<1>12. CASE WasCut(p)
  <2>1. PICK q \in p..t : RunOf(Mine, p, q) /\ stream[q].kind = "interrupted"
    BY <1>2, <1>12 DEF WasCut
  <2>2. \E r \in p..n : RunOf(Mine, p, r) /\ stream[r].kind = "interrupted"
    BY <1>10, <2>1
  <2> QED BY <1>3, <1>4, <1>5, <1>6, <1>7, <1>8, <1>11, <1>15, <2>2, FollowsOn
<1>13. CASE GoesOn(p) /\ stream[n].kind = "interrupted"
  <2>1. RunOf(Mine, p, n)
    BY <1>2, <1>3, <1>13, RunEndsAt
  <2>2. \E r \in p..n : RunOf(Mine, p, r) /\ stream[r].kind = "interrupted"
    BY <1>10, <1>13, <2>1
  <2> QED BY <1>3, <1>4, <1>5, <1>6, <1>7, <1>8, <1>11, <1>15, <2>2, FollowsOn
<1>14. CASE GoesOn(p) /\ stream[n].kind # "interrupted"
  <2>1. stream[n].kind \in {"working", "tool ok", "tool failed"}
    BY <1>3, <1>9, <1>14 DEF InRun
  <2>2. \A i \in (p + 1)..t : stream[i].kind \notin {"instruction", "idle", "interrupted"}
    BY <1>2, <1>14 DEF GoesOn
  <2>3. \A i \in (p + 1)..n : stream[i].kind \notin {"instruction", "idle", "interrupted"}
    BY <1>10, <2>1, <2>2
  <2> QED BY <1>3, <1>4, <1>5, <1>6, <1>7, <1>8, <1>11, <1>15, <2>3, FollowsOn
<1> QED BY <1>8, <1>12, <1>13, <1>14

\* Our instruction is taken.
LEMMA RunStarts ==
  ASSUME Typed, Take, ~ours, ours', ~working, evts # <<>>, ~IsHello(evts[1]),
         evts[1].ev \in SessionEvent,
         NEW n \in 1..Len(stream), n = evts[1].seq, evts[1].ev = stream[n]
  PROVE  Follows(n)'
<1>1. n \in Nat /\ n >= 1
  BY DEF Typed, SessionOK
<1>2. /\ stream' = stream /\ Taken' = n /\ Sees(evts[1])
  BY <1>1, TakeShifts
<1>3. /\ evts[1].ev.kind = "instruction" /\ evts[1].ev.who = Mine /\ n > baseline
      /\ baseline' = baseline /\ ~working'
  BY <1>1, <1>2 DEF Sees, IsHello
<1>4. stream[n] = Event("instruction", Mine)
  BY <1>1, <1>3 DEF SessionEvent, Event
<1>5. stream[n].kind = "instruction"
  BY <1>4 DEF Event
<1>6. /\ n <= n /\ ~(n > n)
      /\ \A i \in n..n : i = n
      /\ (n + 1)..n = {}
  BY <1>1
<1>7. ~LastToolFailed(n, n)
  BY <1>5, <1>6 DEF LastToolFailed
<1>8. /\ n > baseline' /\ (working' <=> n > n)
      /\ \A i \in n..n : stream[i].kind \notin {"error", "idle"}
      /\ \A i \in (n + 1)..n : stream[i].kind \notin {"instruction", "idle", "interrupted"}
  BY <1>3, <1>5, <1>6
<1> QED BY <1>1, <1>2, <1>4, <1>6, <1>7, <1>8, FollowsOn

\* What waits behind the head is as it was.
LEMMA WaitingBehind ==
  ASSUME Typed, Waiting, Take, exit' = "none", ~failed, evts # <<>>, evts[1] # ConnError
  PROVE  /\ Waiting'
         /\ Clean' => Clean /\ Boundary' = Boundary /\ LastGiven' = LastGiven
<1>1. /\ 1 \in 1..Len(evts) /\ evts[1] \in Wire /\ evts \in Seq(Wire)
      /\ Len(evts') \in Nat /\ Len(evts) = Len(evts') + 1 /\ evts' \in Seq(Wire)
      /\ \A i \in 1..Len(evts') : i + 1 \in 1..Len(evts) /\ evts'[i] = evts[i + 1]
      /\ Taken' = IF evts[1].seq > 0 THEN evts[1].seq ELSE Taken
      /\ Sees(evts[1]) /\ stream' = stream
  BY TakeShifts, TakeTyped DEF Typed, ClientOK
<1> DEFINE n == Len(evts')
<1>2. n \in Nat /\ Len(evts) = n + 1
  BY <1>1
<1> HIDE DEF n
<1>3. /\ evts' # <<>> <=> 1 \in 1..n
      /\ evts' # <<>> => n \in 1..n
      /\ evts' = <<>> => n = 0
  BY <1>1, <1>2, NotEmpty DEF n
<1>4. Taken' = evts[1].seq
  <2>1. CASE IsHello(evts[1]) /\ evts[1].seq = 0 /\ Taken = 0
    BY <1>1, <2>1
  <2>2. CASE Event1(1)
    BY <1>1, <2>2, WireTyped DEF Event1
  <2> QED BY <2>1, <2>2, TakesHead
<1>5. ASSUME NEW k \in 1..n, CleanTo(k)'
      PROVE  /\ k + 1 \in 1..(n + 1) /\ k + 1 # 1 /\ k + 1 \in Nat
             /\ CleanTo(k + 1) /\ Event1(k + 1)
  <2>1. k + 1 \in 1..(n + 1) /\ k + 1 # 1 /\ k + 1 \in Nat
    BY <1>2
  <2>2. \A i \in 1..(k + 1) : i = 1 \/ i - 1 \in 1..k
    BY <1>2
  <2>3. \A i \in 1..k : evts'[i] = evts[i + 1] /\ evts'[i] # ConnError
    <3>1. \A i \in 1..k : i \in 1..n
      BY <1>2
    <3> QED BY <1>1, <1>5, <3>1 DEF CleanTo, n
  <2>4. \A i \in 1..(k + 1) : evts[i] # ConnError
    <3> SUFFICES ASSUME NEW i \in 1..(k + 1), i # 1 PROVE evts[i] # ConnError
      OBVIOUS
    <3>1. i - 1 \in 1..k /\ (i - 1) + 1 = i
      BY <2>2
    <3> QED BY <2>3, <3>1
  <2>5. CleanTo(k + 1)
    BY <2>4 DEF CleanTo
  <2> QED BY <1>2, <2>1, <2>5 DEF Waiting, Waits, n
<1>6. evts' # <<>> /\ CleanTo(1)' => ~IsHello(evts'[1])
  <2> SUFFICES ASSUME evts' # <<>>, CleanTo(1)' PROVE ~IsHello(evts'[1])
    OBVIOUS
  <2>1. 1 \in 1..n
    BY <1>3
  <2>2. Event1(1 + 1) /\ 1 + 1 \in 1..(n + 1)
    BY <1>5, <2>1
  <2>3. PICK e \in 1..(n + 1) : e = 1 + 1
    BY <2>2
  <2>4. Event1(e) /\ evts[e] \in Wire /\ evts'[1] = evts[e]
    BY <1>1, <1>2, <2>1, <2>2, <2>3, NotEmpty DEF n
  <2>5. evts[e].seq \in 1..Len(stream) /\ evts[e].ev = stream[evts[e].seq]
    <3>1. evts[e].seq \in Nat /\ Len(stream) \in Nat
      BY <2>4, WireTyped DEF Typed, SessionOK
    <3> QED BY <2>4, <3>1 DEF Event1
  <2>6. evts[e].ev \in SessionEvent
    BY <2>5, NotEmpty DEF Typed, SessionOK
  <2> QED BY <2>4, <2>6 DEF IsHello, SessionEvent
<1>7. baseline' = Boundary
  BY <1>1 DEF Sees, Boundary, IsHello
<1>8. evts' = <<>> \/ CleanTo(1)' => Boundary' = Boundary
  <2>1. CASE evts' = <<>>
    BY <1>7, <2>1 DEF Boundary
  <2>2. CASE evts' # <<>> /\ CleanTo(1)'
    BY <1>6, <1>7, <2>2 DEF Boundary, IsHello
  <2> QED BY <2>1, <2>2
<1>9. ASSUME NEW k \in 1..n, CleanTo(k)' PROVE Waits(k)'
  <2>1. PICK e \in 1..(n + 1) : e = k + 1
    BY <1>5, <1>9
  <2>2. e # 1 /\ Event1(e) /\ evts'[k] = evts[e] /\ e - 1 = k
    BY <1>1, <1>2, <1>5, <1>9, <2>1 DEF n
  <2>3. CleanTo(1)' /\ evts' # <<>>
    <3>1. 1 \in 1..n /\ \A i \in 1..1 : i \in 1..k
      BY <1>2
    <3> QED BY <1>3, <1>9, <3>1 DEF CleanTo
  <2>4. Boundary' = Boundary
    BY <1>8, <2>3
  <2>5. Before(k)' = Before(e)
    <3>1. CASE k = 1
      <4>1. Before(e) = evts[1].seq
        BY <2>2, <3>1 DEF Before
      <4> QED BY <1>4, <3>1, <4>1 DEF Before
    <3>2. CASE k # 1
      <4>1. k - 1 \in 1..n /\ (k - 1) + 1 = k
        BY <1>2, <3>2
      <4>2. evts'[k - 1] = evts[k]
        BY <1>1, <4>1 DEF n
      <4>3. Before(e) = evts[k].seq
        BY <2>2 DEF Before
      <4> QED BY <3>2, <4>2, <4>3 DEF Before
    <3> QED BY <3>1, <3>2
  <2>6. PICK b : b = Before(e)
    OBVIOUS
  <2>7. /\ evts'[k].seq >= 1 /\ evts'[k].seq <= Len(stream')
        /\ evts'[k].ev = stream'[evts'[k].seq]
        /\ b >= 1 => /\ evts'[k].seq = b + 1
                     /\ b > Boundary => Unbroken(b)
    BY <1>1, <2>2, <2>6 DEF Event1
  <2>8. Unbroken(b)' <=> Unbroken(b)
    BY <1>1 DEF Unbroken
  <2>9. Event1(k)'
    BY <2>4, <2>5, <2>6, <2>7, <2>8 DEF Event1, Unbroken
  <2> QED BY <2>9 DEF Waits
<1>10. Waiting'
  BY <1>9 DEF Waiting, n
<1>11. ASSUME Clean' PROVE Clean /\ Boundary' = Boundary /\ LastGiven' = LastGiven
  <2>0. PICK m \in Nat : m = n
    BY <1>2
  <2>1. CleanTo(m)'
    BY <1>11, <2>0 DEF Clean, CleanTo, n
  <2>2. CASE evts' = <<>>
    <3>1. Len(evts) = 1 /\ evts # <<>>
      BY <1>2, <1>3, <2>2
    <3>2. Clean
      BY <3>1 DEF Clean, CleanTo
    <3>3. LastGiven' = LastGiven
      BY <1>4, <2>2, <3>1 DEF LastGiven
    <3> QED BY <1>8, <2>2, <3>2, <3>3
  <2>3. CASE evts' # <<>>
    <3>1. m \in 1..n /\ 1 \in 1..m
      BY <1>3, <2>0, <2>3
    <3>2. CleanTo(m + 1)
      BY <1>5, <2>1, <3>1
    <3>3. Clean
      BY <1>2, <2>0, <3>2 DEF Clean
    <3>4. CleanTo(1)'
      <4>1. \A i \in 1..1 : i \in 1..m
        BY <3>1
      <4> QED BY <2>1, <4>1 DEF CleanTo
    <3>5. LastGiven' = LastGiven
      BY <1>1, <1>2, <2>0, <2>3, <3>1 DEF LastGiven, n
    <3> QED BY <1>8, <3>3, <3>4, <3>5
  <2> QED BY <2>2, <2>3
<1> QED BY <1>10, <1>11

LEMMA DeservedTake ==
  ASSUME FlowInv, Deserved, Take, exit' = "none"
  PROVE  Deserved'
<1>0. Typed /\ Waiting /\ Acquainted /\ Following /\ Connection
  BY DEF FlowInv, Deserved
<1>1. /\ evts # <<>> /\ Sees(evts[1]) /\ stream' = stream
      /\ UNCHANGED <<client, known, lastSeq, attached, down, doing>>
      /\ Taken' = IF evts[1].seq > 0 THEN evts[1].seq ELSE Taken
  BY <1>0, TakeShifts
<1>2. /\ ours' <=> ours \/ /\ evts[1].ev.kind = "instruction"
                           /\ evts[1].seq > baseline /\ evts[1].ev.who = Mine
      /\ working' <=> working \/ (ours /\ evts[1].ev.kind \in {"working", "interrupted"})
      /\ failed' <=> failed \/ evts[1].ev.kind = "error"
  BY <1>0, <1>1 DEF Sees, Typed, OnceOK
<1>3. Acquainted'
  BY <1>0, <1>1 DEF Acquainted
<1>4. working' => ours'
  BY <1>0, <1>2 DEF Following
<1>5. CASE failed'
  BY <1>3, <1>4, <1>5 DEF Deserved, Waiting, Following, Connection, Clean, CleanTo
<1>6. CASE ~failed'
  <2>1. ~failed /\ evts[1].ev.kind # "error" /\ evts[1] # ConnError
    BY <1>2, <1>6 DEF ConnError, Envelope, Event
  <2>2. Waiting' /\ (Clean' => Clean /\ Boundary' = Boundary /\ LastGiven' = LastGiven)
    BY <1>0, <1>1, <2>1, WaitingBehind
  <2>3. Connection'
    <3> SUFFICES ASSUME Clean' PROVE attached' /\ Live'
      BY DEF Connection
    <3>1. attached /\ Live /\ client # "greeting"
      BY <1>0, <1>1, <2>2 DEF Connection, Fresh, Live
    <3>2. Unread' = Unread /\ Upcoming' = Upcoming /\ First' = First
      BY <1>1, <2>2, <3>1 DEF Unread, Upcoming, First
    <3> QED BY <1>1, <2>2, <3>1, <3>2 DEF Live, Unbroken, Stage
  <2>4. Following'
    <3>1. CASE IsHello(evts[1]) /\ evts[1].seq = 0 /\ Unstarted /\ Taken = 0
      <4>1. ~ours' /\ Taken' = 0 /\ Taken' <= Len(stream')
        BY <1>0, <1>1, <1>2, <3>1 DEF IsHello, Unstarted, Typed, SessionOK
      <4> QED BY <1>4, <4>1 DEF Following
    <3>2. CASE /\ Event1(1) /\ ~IsHello(evts[1]) /\ evts[1].ev \in SessionEvent
               /\ evts[1].seq \in 1..Len(stream) /\ evts[1].ev = stream[evts[1].seq]
      <4>1. Taken' <= Len(stream')
        BY <1>0, <1>1, <3>2 DEF Typed, SessionOK
      <4>2. ASSUME ours PROVE \E p \in 1..Len(stream) : Follows(p)'
        <5>1. PICK p \in 1..Len(stream) : Follows(p)
          BY <1>0, <2>1, <4>2 DEF Following
        <5>2. Follows(p)'
          BY <1>0, <1>1, <2>1, <3>2, <4>2, <5>1, RunTaken
        <5> QED BY <5>2
      <4>3. ASSUME ~ours, ours' PROVE \E p \in 1..Len(stream) : Follows(p)'
        <5>1. ~working
          BY <1>0, <4>3 DEF Following
        <5>2. PICK n \in 1..Len(stream) : n = evts[1].seq
          BY <3>2
        <5>3. Follows(n)'
          BY <1>0, <1>1, <3>2, <4>3, <5>1, <5>2, RunStarts
        <5> QED BY <5>3
      <4> QED BY <1>1, <1>4, <4>1, <4>2, <4>3 DEF Following
    <3> QED BY <1>0, <1>1, <2>1, <3>1, <3>2, TakesHead
  <2> QED BY <1>3, <2>2, <2>3, <2>4 DEF Deserved
<1> QED BY <1>5, <1>6

\* A run that has been followed to an idle status without an error.
LEMMA DeservedEnd ==
  ASSUME FlowInv, Deserved, Take, exit' = "success"
  PROVE  SuccessIsDeserved'
<1>0. Typed /\ Waiting /\ Following
  BY DEF FlowInv, Deserved
<1>1. /\ evts # <<>> /\ Head(evts) = evts[1] /\ stream' = stream
      /\ working /\ evts[1].ev.kind = "idle" /\ ~failed /\ lastTool # "tool failed"
  BY <1>0, TakeShifts DEF Take
<1>2. evts[1] # ConnError /\ ~IsHello(evts[1])
  <2>1. ConnError.ev.kind = "error"
    BY DEF ConnError, Envelope, Event
  <2>2. evts[1].ev.kind # "error" /\ evts[1].ev.kind # "hello"
    BY <1>1
  <2> QED BY <2>1, <2>2 DEF IsHello
<1>3. Event1(1) /\ evts[1].seq \in 1..Len(stream)
  BY <1>0, <1>1, <1>2, TakesHead
<1>4. PICK p \in 1..Len(stream) : Follows(p)
  BY <1>0, <1>1 DEF Following
<1>5. PICK n \in Nat : n = evts[1].seq
  BY <1>0, <1>3 DEF Typed, SessionOK
<1>6. PICK t \in Nat : t = Taken
  BY <1>0, TakenType
<1>7. /\ p <= t /\ n = t + 1 /\ n \in 1..Len(stream) /\ stream[n].kind = "idle"
      /\ stream[n] \in SessionEvent
  BY <1>0, <1>1, <1>2, <1>3, <1>4, <1>5, <1>6, NextTaken
<1>8. \A i \in p..t : stream[i].kind \notin {"error", "idle"}
  BY <1>4, <1>6 DEF Follows
<1>9. /\ p \in Nat /\ DOMAIN stream = 1..Len(stream) /\ Len(stream) \in Nat
  <2>1. stream \in Seq(SessionEvent)
    BY <1>0 DEF Typed, SessionOK
  <2>2. DOMAIN stream = 1..Len(stream) /\ Len(stream) \in Nat
    BY <2>1, NotEmpty
  <2>3. \A m \in Nat : \A i \in 1..m : i \in Nat
    OBVIOUS
  <2> QED BY <2>2, <2>3
<1>10. \E r \in p..n : RunOf(Mine, p, r) /\ (r = n \/ stream[r].kind = "interrupted")
  <2>1. CASE GoesOn(p)
    <3>1. RunOf(Mine, p, n) /\ n \in p..n
      BY <1>0, <1>4, <1>6, <1>7, <1>9, <2>1, RunEndsAt
    <3> QED BY <3>1
  <2>2. CASE WasCut(p)
    <3>1. PICK r \in p..t : RunOf(Mine, p, r) /\ stream[r].kind = "interrupted"
      BY <1>6, <2>2 DEF WasCut
    <3>2. r \in p..n
      BY <1>7, <1>9
    <3> QED BY <3>1, <3>2
  <2> QED BY <1>4, <2>1, <2>2 DEF Follows
<1>11. (\A i \in p..n : stream[i].kind # "error") /\ \A i \in p..(n - 1) : stream[i].kind # "idle"
  <2>1. /\ \A i \in p..n : i \in p..t \/ i = n
        /\ \A i \in p..(n - 1) : i \in p..t
    BY <1>7, <1>9
  <2> QED BY <1>7, <1>8, <2>1
<1>12. ~LastToolFailed(p, n)
  <2>1. ~LastToolFailed(p, t)
    BY <1>1, <1>4, <1>6 DEF Follows
  <2> QED BY <1>7, <1>9, <2>1, LastToolStays
<1>13. IdleBehind(Mine, p, n)
  BY <1>7, <1>10, <1>11 DEF IdleBehind
<1>14. IdleBehind(Mine, p, n)' /\ LastToolFailed(p, n)' = LastToolFailed(p, n)
  BY <1>1, <1>13 DEF IdleBehind, RunOf, LastToolFailed
<1>15. p \in DOMAIN stream' /\ n \in DOMAIN stream'
  BY <1>1, <1>7, <1>9
<1> QED BY <1>1, <1>11, <1>12, <1>14, <1>15 DEF SuccessIsDeserved

DeservedInv == FlowInv /\ (exit = "none" => Deserved) /\ SuccessIsDeserved

LEMMA DeservedInit == OnceInit => DeservedInv
<1> SUFFICES ASSUME OnceInit PROVE DeservedInv
  OBVIOUS
<1>1. FlowInv
  BY TypedInit, FlowInit DEF FlowInv
<1>2. SuccessIsDeserved
  BY DEF OnceInit, SuccessIsDeserved
<1>3. Fresh /\ ~attached
  BY DEF OnceInit, Init, Fresh, Unstarted
<1>4. Waiting
  <2>1. 1..Len(evts) = {}
    BY EmptyTyped DEF OnceInit, Init
  <2> QED BY <2>1 DEF Waiting
<1>5. Acquainted
  BY DEF OnceInit, Init, Acquainted
<1>6. Following
  <2>1. Taken = 0 /\ Len(stream) = 0
    BY EmptyTyped DEF OnceInit, Init, Taken
  <2> QED BY <2>1 DEF OnceInit, Following
<1> QED BY <1>1, <1>2, <1>3, <1>4, <1>5, <1>6 DEF DeservedInv, Deserved, Connection

LEMMA DeservedStep ==
  ASSUME DeservedInv, [Next]_allVars
  PROVE  DeservedInv'
<1>0. FlowInv /\ (exit = "none" => Deserved) /\ SuccessIsDeserved
  BY DEF DeservedInv
<1>1. FlowInv'
  BY <1>0, FlowStep
<1>2. CASE UNCHANGED allVars
  <2>1. UNCHANGED <<stream, queue, doing, tools, others, attached, down, up, limbo, floors,
                    breaks, client, known, lastSeq, cmds, evts, onceVars, exit>>
    BY <1>2 DEF allVars, vars, sessionVars, linkVars, clientVars, onceVars
  <2>2. SuccessIsDeserved'
    <3>1. exit' = exit /\ stream' = stream
      BY <2>1
    <3>2. CASE exit = "success"
      <4>1. PICK p, q \in DOMAIN stream :
              /\ IdleBehind(Mine, p, q)
              /\ \A i \in p..q : stream[i].kind # "error"
              /\ ~LastToolFailed(p, q)
        BY <1>0, <3>2 DEF SuccessIsDeserved
      <4>2. /\ IdleBehind(Mine, p, q)' /\ LastToolFailed(p, q)' = LastToolFailed(p, q)
            /\ p \in DOMAIN stream' /\ q \in DOMAIN stream'
        BY <3>1, <4>1 DEF IdleBehind, RunOf, LastToolFailed
      <4> QED BY <3>1, <4>1, <4>2 DEF SuccessIsDeserved
    <3> QED BY <3>1, <3>2 DEF SuccessIsDeserved
  <2>3. exit' = "none" => Deserved'
    BY <1>0, <2>1, DeservedQuiet
  <2> QED BY <1>1, <2>2, <2>3 DEF DeservedInv
<1>3. CASE exit = "none" /\ (Session \/ SubmitOther \/ Network \/ Client \/ Trouble)
           /\ UNCHANGED onceVars
  <2>1. exit' = "none" /\ SuccessIsDeserved'
    BY <1>3 DEF onceVars, SuccessIsDeserved
  <2>2. Deserved /\ Typed
    BY <1>0, <1>3 DEF FlowInv
  <2>3. ASSUME SubmitOther \/ Command \/ LateCommand \/ Dial \/ SendCommand PROVE Deserved'
    <3>1. /\ UNCHANGED <<attached, stream, doing, lastSeq, known, evts>>
          /\ attached => UNCHANGED <<down, client>>
          /\ client' = "online" => client = "online"
      BY <2>2, <2>3 DEF SubmitOther, Command, LateCommand, Dial, SendCommand, sessionVars,
         linkVars, clientVars, Typed, LinkOK
    <3>2. UNCHANGED <<attached, stream, doing, lastSeq, known, evts, onceVars>>
      BY <1>3, <3>1
    <3> QED BY <1>0, <2>2, <3>1, <3>2, DeservedQuiet
  <2>4. ASSUME Session \/ Trouble PROVE Deserved'
    BY <1>0, <1>3, <2>2, <2>4, DeservedSession, DeservedTrouble
  <2>5. ASSUME Attach PROVE Deserved'
    BY <1>0, <1>3, <2>2, <2>5, DeservedAttach
  <2>6. ASSUME Greeted \/ Receive PROVE Deserved'
    BY <1>0, <1>3, <2>2, <2>6, DeservedGreeted, DeservedReceive
  <2>7. Deserved'
    BY <1>3, <2>3, <2>4, <2>5, <2>6 DEF Network, Client
  <2> QED BY <1>1, <2>1, <2>7 DEF DeservedInv
<1>4. CASE Take
  <2>1. exit = "none" /\ Deserved
    BY <1>0, <1>4 DEF Take
  <2>2. exit' = "none" => Deserved'
    BY <1>0, <1>4, <2>1, DeservedTake
  <2>3. SuccessIsDeserved'
    BY <1>0, <1>4, <2>1, DeservedEnd DEF SuccessIsDeserved
  <2> QED BY <1>1, <2>2, <2>3 DEF DeservedInv
<1>5. CASE GiveUp
  <2>1. exit' = "gave up"
    BY <1>5 DEF GiveUp
  <2> QED BY <1>1, <2>1 DEF DeservedInv, SuccessIsDeserved
<1> QED BY <1>2, <1>3, <1>4, <1>5 DEF Next

\* A success that `morse run' reports (the exit code of run_once) says of the
\* events from its own instruction to the first idle status behind it that none
\* is an error and the last tool call did not fail: over all replays, broken
\* connections, restarts and runs of other clients.  Those are the events of its
\* own run, or, if that was interrupted, of the runs up to the next that was not.
THEOREM SuccessStaysDeserved == Spec => []SuccessIsDeserved
<1>1. OnceInit => DeservedInv BY DeservedInit
<1>2. DeservedInv /\ [Next]_allVars => DeservedInv' BY DeservedStep
<1>3. DeservedInv => SuccessIsDeserved BY DEF DeservedInv
<1> QED BY <1>1, <1>2, <1>3, PTL DEF Spec
=============================================================================
