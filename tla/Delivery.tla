------------------------------ MODULE Delivery ------------------------------
(***************************************************************************)
(* A client that stays with a session over broken connections: the socket  *)
(* handler of the server (handle_socket), the connection, and run and      *)
(* stream_once of client.rs with their deduplication, their command queue  *)
(* and their retries.  Of the session the module has what EventStream      *)
(* promises: a stream in which message i has number i, of which a snapshot *)
(* holds the newest LogCap; EventLog shows the pipeline keeps that promise *)
(* and AgentRun which events a run leaves.                                 *)
(***************************************************************************)
EXTENDS Naturals, SequencesExt

CONSTANTS LogCap,     \* LOG_CAP (4000)
          ChanCap,    \* capacity of the event channel to the user interface (512)
          Commands,   \* the instructions this user submits, in order
          MaxOthers,  \* bound: instructions of other clients
          MaxTools,   \* bound: tool results of a run
          MaxBreaks   \* bound: broken connections and server restarts

ASSUME CapAssumption == LogCap \in Nat \ {0} /\ ChanCap \in Nat \ {0}
ASSUME CommandAssumption == /\ Commands \in Seq(ToSet(Commands)) /\ IsInjective(Commands)
                            /\ "other" \notin ToSet(Commands)
ASSUME BoundAssumption == MaxOthers \in Nat /\ MaxTools \in Nat /\ MaxBreaks \in Nat

VARIABLES
  stream,    \* the events of the session: kind and, of an instruction, whose
  queue,     \* its instruction channel
  doing,     \* its runner: "none", "begun" or "working"
  tools,     \* tool results of the current run
  attached,  \* the server has subscribed this connection
  down,      \* envelopes on the way to the client
  up,        \* commands on the way to the server
  limbo,     \* commands on connections the client has given up
  client,    \* "offline", "greeting" (first message sent), "online", "done"
  known,     \* the client knows its session id
  lastSeq,   \* last_seq of run
  cmds,      \* commands the user interface has issued
  evts,      \* envelopes on the way to the user interface
  floors,    \* history variable: the numbers of the first events of the snapshots
  others, breaks  \* counters for the bounds

sessionVars == <<stream, queue, doing, tools, others>>
linkVars == <<attached, down, up, limbo, floors, breaks>>
clientVars == <<client, known, lastSeq, cmds, evts>>
vars == <<sessionVars, linkVars, clientVars>>

Event(kind, who) == [kind |-> kind, who |-> who]
\* Sequence number 0 marks messages of the connection and not of the session.
Envelope(n, ev) == [seq |-> n, ev |-> ev]
ConnError == Envelope(0, Event("error", "client"))
\* hello carries the number of the last event of the snapshot.
Hello(n) == [seq |-> 0, ev |-> Event("hello", "server"), replay |-> n]

Init ==
  /\ stream = <<>> /\ queue = <<>> /\ doing = "none" /\ tools = 0 /\ others = 0
  /\ attached = FALSE /\ down = <<>> /\ up = <<>> /\ limbo = <<>>
  /\ client = "offline" /\ known \in BOOLEAN
  /\ lastSeq = 0 /\ cmds = Commands /\ evts = <<>>
  /\ floors = {} /\ breaks = 0

-----------------------------------------------------------------------------
(* The session.                                                             *)

Emit(ev) ==
  /\ stream' = Append(stream, ev)
  /\ down' = IF attached THEN Append(down, Envelope(Len(stream'), ev)) ELSE down
  /\ UNCHANGED <<attached, up, limbo, floors, breaks, clientVars>>

SubmitOther ==
  /\ known \/ attached
  /\ others < MaxOthers
  /\ others' = others + 1
  /\ queue' = Append(queue, "other")
  /\ UNCHANGED <<stream, doing, tools, linkVars, clientVars>>

\* run_instruction emits the instruction, then the working status.
RunBegins ==
  /\ doing = "none" /\ queue # <<>>
  /\ Emit(Event("instruction", Head(queue)))
  /\ queue' = Tail(queue)
  /\ doing' = "begun" /\ tools' = 0
  /\ UNCHANGED others

RunWorks ==
  /\ doing = "begun"
  /\ Emit(Event("working", "agent"))
  /\ doing' = "working"
  /\ UNCHANGED <<queue, tools, others>>

\* A tool result, or an error event: of the provider or of the turn limit.
RunUsesTool ==
  /\ doing = "working" /\ tools < MaxTools
  /\ \E kind \in {"tool ok", "tool failed", "error"} : Emit(Event(kind, "agent"))
  /\ tools' = tools + 1
  /\ UNCHANGED <<queue, doing, others>>

RunEnds ==
  /\ doing = "working"
  /\ \E kind \in {"idle", "interrupted"} : Emit(Event(kind, "agent"))
  /\ doing' = "none"
  /\ UNCHANGED <<queue, tools, others>>

-----------------------------------------------------------------------------
(* handle_socket                                                            *)

\* The snapshot: the events of s from number n on.
Snapshot(s, n) == [i \in 1..(Len(s) - n + 1) |-> Envelope(n + i - 1, s[n + i - 1])]

\* The first message: attach to the session, or create one, of which nobody
\* else knows.  subscribe, hello, snapshot.
Attach ==
  /\ client = "greeting" /\ ~attached
  /\ attached' = TRUE
  /\ stream' = IF known THEN stream ELSE <<>>
  /\ queue' = IF known THEN queue ELSE <<>>
  /\ doing' = IF known THEN doing ELSE "none"
  /\ LET from == IF Len(stream') <= LogCap THEN 1 ELSE Len(stream') - LogCap + 1
     IN  /\ down' = <<Hello(Len(stream'))>> \o Snapshot(stream', from)
         /\ floors' = floors \cup {from}
  /\ UNCHANGED <<tools, others, up, limbo, breaks, clientVars>>

\* The handler reads a command.  (The channel of 64 is never full within the
\* bounds.)
Command ==
  /\ attached /\ up # <<>>
  /\ queue' = Append(queue, Head(up))
  /\ up' = Tail(up)
  /\ UNCHANGED <<stream, doing, tools, others, attached, down, limbo, floors, breaks,
                 clientVars>>

\* A handler whose connection the client has given up reads what had arrived,
\* or finds the connection closed before it does.
LateCommand ==
  /\ limbo # <<>>
  /\ \/ queue' = Append(queue, Head(limbo)) /\ limbo' = Tail(limbo)
     \/ queue' = queue /\ limbo' = <<>>
  /\ UNCHANGED <<stream, doing, tools, others, attached, down, up, floors, breaks,
                 clientVars>>

-----------------------------------------------------------------------------
(* client.rs                                                                *)

Show(env) == Len(evts) < ChanCap /\ evts' = Append(evts, env)

\* Faulty variant: the client does not connect again.
DialOnce ==
  /\ client = "offline" /\ lastSeq = 0
  /\ client' = "greeting"
  /\ UNCHANGED <<known, lastSeq, cmds, evts, sessionVars, linkVars>>

\* Connect, send create or attach.
Dial ==
  /\ client = "offline"
  /\ client' = "greeting"
  /\ UNCHANGED <<known, lastSeq, cmds, evts, sessionVars, linkVars>>

\* The handshake or the first message is rejected: no retry.
Rejected ==
  /\ client = "greeting" /\ ~attached
  /\ breaks < MaxBreaks
  /\ Show(ConnError)
  /\ client' = "done"
  /\ breaks' = breaks + 1
  /\ UNCHANGED <<known, lastSeq, cmds, sessionVars, attached, down, up, limbo, floors>>

Greeted ==
  /\ client = "greeting" /\ down # <<>>
  /\ Show(Head(down))
  /\ down' = Tail(down)
  /\ known' = TRUE
  /\ client' = "online"
  /\ UNCHANGED <<lastSeq, cmds, sessionVars, attached, up, limbo, floors, breaks>>

SendCommand ==
  /\ client = "online" /\ cmds # <<>>
  /\ up' = Append(up, Head(cmds))
  /\ cmds' = Tail(cmds)
  /\ UNCHANGED <<client, known, lastSeq, evts, sessionVars, attached, down, limbo,
                 floors, breaks>>

\* Faulty variant: a replayed event is shown again.
ReceiveAll ==
  /\ client = "online" /\ down # <<>>
  /\ down' = Tail(down)
  /\ Show(Head(down))
  /\ lastSeq' = Head(down).seq
  /\ UNCHANGED <<client, known, cmds, sessionVars, attached, up, limbo, floors, breaks>>

\* Faulty variant: an event for which there is no room is dropped.
ReceiveOrDrop ==
  /\ client = "online" /\ down # <<>>
  /\ down' = Tail(down)
  /\ IF Head(down).seq <= lastSeq
     THEN UNCHANGED <<lastSeq, evts>>
     ELSE /\ lastSeq' = Head(down).seq
          /\ evts' = IF Len(evts) < ChanCap THEN Append(evts, Head(down)) ELSE evts
  /\ UNCHANGED <<client, known, cmds, sessionVars, attached, up, limbo, floors, breaks>>

\* Faulty variant: the event channel has no bound.
ReceiveUnbounded ==
  /\ client = "online" /\ down # <<>>
  /\ down' = Tail(down)
  /\ IF Head(down).seq <= lastSeq
     THEN UNCHANGED <<lastSeq, evts>>
     ELSE evts' = Append(evts, Head(down)) /\ lastSeq' = Head(down).seq
  /\ UNCHANGED <<client, known, cmds, sessionVars, attached, up, limbo, floors, breaks>>

\* Show an event unless its number has been seen.
Receive ==
  /\ client = "online" /\ down # <<>>
  /\ down' = Tail(down)
  /\ IF Head(down).seq <= lastSeq
     THEN UNCHANGED <<lastSeq, evts>>
     ELSE Show(Head(down)) /\ lastSeq' = Head(down).seq
  /\ UNCHANGED <<client, known, cmds, sessionVars, attached, up, limbo, floors, breaks>>

\* The connection breaks, a lagging receiver is closed, no hello comes in 15
\* seconds, or no connection is made.  What is on the way is lost, commands
\* perhaps; the user is told.
Lost == /\ client \in {"greeting", "online"}
        /\ client' = "offline"
        /\ attached' = FALSE
        /\ down' = <<>> /\ up' = <<>>
        /\ Show(ConnError)
        /\ breaks < MaxBreaks /\ breaks' = breaks + 1

\* Faulty variant: commands without an answer are sent again.
ConnectionBreaksResend ==
  /\ Lost
  /\ limbo' = limbo \o up
  /\ cmds' = up \o cmds
  /\ UNCHANGED <<known, lastSeq, sessionVars, floors>>

ConnectionBreaks ==
  /\ Lost
  /\ limbo' = limbo \o up
  /\ UNCHANGED <<known, lastSeq, cmds, sessionVars, floors>>

\* The server restarts: what was queued is gone; restore closes a run whose
\* instruction is in the log, and the tool call it was in.
ServerRestarts ==
  /\ known
  /\ \/ Lost
     \/ /\ client = "offline"
        /\ breaks < MaxBreaks /\ breaks' = breaks + 1
        /\ UNCHANGED <<client, attached, down, up, evts>>
  /\ limbo' = <<>>
  /\ queue' = <<>> /\ doing' = "none"
  /\ \/ doing = "none" /\ stream' = stream
     \/ doing # "none" /\ stream' = stream \o <<Event("interrupted", "server")>>
     \/ doing = "working" /\ stream' = stream \o <<Event("tool failed", "server"),
                                                    Event("interrupted", "server")>>
  /\ UNCHANGED <<known, lastSeq, cmds, tools, others, floors>>

-----------------------------------------------------------------------------
Session == RunBegins \/ RunWorks \/ RunUsesTool \/ RunEnds

Network == Attach \/ Command \/ LateCommand

Client == Dial \/ Greeted \/ SendCommand \/ Receive

Trouble == Rejected \/ ConnectionBreaks \/ ServerRestarts
=============================================================================
