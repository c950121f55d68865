------------------------------ MODULE RunOnce -------------------------------
(***************************************************************************)
(* `morse run' (run.rs): run_once submits one instruction through the      *)
(* client of Delivery and reads from the events when its run is over and   *)
(* whether it failed.  The other clients of the session submit other       *)
(* texts: run_once tells its own instruction by its text.                  *)
(***************************************************************************)
EXTENDS Delivery

Mine == Commands[1]

VARIABLES baseline,  \* replay_seq of the last hello
          ours,      \* our instruction event has been seen
          working,   \* and behind it a status
          failed,    \* an error has been seen
          lastTool,  \* last_tool_ok: "none", "tool ok" or "tool failed"
          exit,      \* "none", "success" or "failure"
          shown      \* history variable: the numbers of the events taken

onceVars == <<baseline, ours, working, failed, lastTool, exit, shown>>
allVars == <<vars, onceVars>>

OnceInit == /\ Init
            /\ baseline = 0 /\ ours = FALSE /\ working = FALSE /\ failed = FALSE
            /\ lastTool = "none" /\ exit = "none" /\ shown = <<>>

\* Faulty variant: the replay counts.
SeesIgnoringBaseline(env) ==
  LET kind == env.ev.kind
  IN  /\ baseline' = IF kind = "hello" THEN env.replay ELSE baseline
      /\ failed' = (failed \/ kind = "error")
      /\ lastTool' = IF ours /\ kind \in {"tool ok", "tool failed"} THEN kind ELSE lastTool
      /\ ours' = (ours \/ (kind = "instruction"))
      /\ working' = (working \/ (ours /\ kind \in {"working", "interrupted"}))

\* The match in the loop of run_once.
Sees(env) ==
  LET kind == env.ev.kind
  IN  /\ baseline' = IF kind = "hello" THEN env.replay ELSE baseline
      /\ failed' = (failed \/ kind = "error")
      /\ lastTool' = IF ours /\ kind \in {"tool ok", "tool failed"} THEN kind ELSE lastTool
      /\ ours' = (ours \/ (kind = "instruction" /\ env.seq > baseline /\ env.ev.who = Mine))
      /\ working' = (working \/ (ours /\ kind \in {"working", "interrupted"}))

\* The process ends and with it the client.
Quit == /\ client' = "done" /\ attached' = FALSE
        /\ down' = <<>> /\ up' = <<>> /\ limbo' = limbo \o up
        /\ UNCHANGED <<known, lastSeq, cmds, sessionVars, floors, breaks>>

\* Take an event; an idle status behind our work is the end, and the verdict
\* is by the errors and the last tool result seen.
Take ==
  /\ exit = "none" /\ evts # <<>>
  /\ evts' = Tail(evts)
  /\ Sees(Head(evts))
  /\ shown' = IF Head(evts).seq > 0 THEN Append(shown, Head(evts).seq) ELSE shown
  /\ IF working /\ Head(evts).ev.kind = "idle"
     THEN /\ exit' = IF failed \/ lastTool = "tool failed" THEN "failed run" ELSE "success"
          /\ Quit
     ELSE UNCHANGED <<exit, client, known, lastSeq, cmds, sessionVars, linkVars>>

\* The client has given up and its channel is drained, or the deadline passes.
GiveUp ==
  /\ exit = "none"
  /\ exit' = "gave up"
  /\ Quit
  /\ UNCHANGED <<evts, baseline, ours, working, failed, lastTool, shown>>

\* The model ends with the program.
Next == \/ /\ exit = "none"
           /\ Session \/ SubmitOther \/ Network \/ Client \/ Trouble
           /\ UNCHANGED onceVars
        \/ Take \/ GiveUp

Spec == OnceInit /\ [][Next]_allVars

\* The server, the client and the reader of its events go on; nobody is
\* obliged to submit, to end a run, to break a connection or to give up.
FairSpec == /\ Spec
            /\ WF_allVars(exit = "none" /\ Network /\ UNCHANGED onceVars)
            /\ WF_allVars(exit = "none" /\ Client /\ UNCHANGED onceVars)
            /\ WF_allVars(Take)

-----------------------------------------------------------------------------
(* Properties                                                               *)

Kinds == {"hello", "instruction", "working", "tool ok", "tool failed", "error",
          "idle", "interrupted"}

\* Every variable keeps its type, and the event channel its capacity.
TypeOK ==
  /\ \A i \in DOMAIN stream : stream[i].kind \in Kinds
  /\ doing \in {"none", "begun", "working"}
  /\ tools \in 0..MaxTools /\ others \in 0..MaxOthers /\ breaks \in 0..MaxBreaks
  /\ attached \in BOOLEAN /\ known \in BOOLEAN
  /\ attached => client \in {"greeting", "online"}
  /\ client \in {"offline", "greeting", "online", "done"}
  /\ lastSeq \in Nat /\ floors \subseteq Nat
  /\ Len(evts) <= ChanCap
  /\ baseline \in Nat
  /\ ours \in BOOLEAN /\ working \in BOOLEAN /\ failed \in BOOLEAN
  /\ lastTool \in {"none", "tool ok", "tool failed"}
  /\ exit \in {"none", "success", "failed run", "gave up"}

\* The numbers given to the user interface so far; zero is no event of the session.
Numbers == (ToSet(shown) \cup {env.seq : env \in ToSet(evts)}) \ {0}

\* Over all replays and reconnects no event is shown twice or out of order:
\* the numbers ascend along what was shown and on through what waits.
ShownOnce ==
  /\ \A i, j \in DOMAIN shown : i < j => shown[i] < shown[j]
  /\ \A j \in DOMAIN evts : evts[j].seq > 0 =>
       /\ \A i \in DOMAIN shown : shown[i] < evts[j].seq
       /\ \A i \in 1..(j - 1) : evts[i].seq < evts[j].seq

\* An event is left out only if the session had dropped it from its log when
\* the client attached: behind a gap stands the first event of a snapshot.
GapsAreDropped == \A n \in Numbers : n \in floors \/ n - 1 \in Numbers

\* However often the connection breaks, an instruction is carried out at most
\* once: a command is never sent again.
CommandsOnce ==
  \A c \in ToSet(Commands) :
    /\ \A i, j \in DOMAIN stream :
         stream[i] = Event("instruction", c) /\ stream[j] = stream[i] => i = j
    /\ \A i, j \in DOMAIN queue : queue[i] = c /\ queue[j] = c => i = j
    /\ c \in ToSet(queue) => Event("instruction", c) \notin ToSet(stream)

\* Positions p and q of the stream delimit the run of instruction c.
RunOf(c, p, q) ==
  /\ p < q /\ stream[p] = Event("instruction", c)
  /\ stream[q].kind \in {"idle", "interrupted"}
  /\ \A i \in (p + 1)..(q - 1) :
       stream[i].kind \notin {"instruction", "idle", "interrupted"}

LastToolFailed(p, q) ==
  \E i \in p..q : /\ stream[i].kind = "tool failed"
                  /\ \A j \in i..q : stream[j].kind # "tool ok"

\* The first idle status behind the instruction c at p is q: the end of its
\* run, unless that was interrupted; then runs of other clients come between.
IdleBehind(c, p, q) ==
  /\ \E r \in p..q : /\ RunOf(c, p, r)
                     /\ r = q \/ stream[r].kind = "interrupted"
  /\ stream[q].kind = "idle"
  /\ \A i \in p..(q - 1) : stream[i].kind # "idle"

\* When run_once reports success, then from its own instruction to the first
\* idle status behind it there was no error, and the last tool call did not
\* fail: the replay of earlier runs, runs of other clients before and broken
\* connections do not make a success.  That is its own run, if that was not
\* interrupted.  An interruption is no failure to run_once and not the end: it
\* goes on to the next idle status, so a run interrupted behind a failed tool
\* and a good run of another client pass together as a success.
SuccessIsDeserved ==
  exit = "success" =>
    \E p, q \in DOMAIN stream :
      /\ IdleBehind(Mine, p, q)
      /\ \A i \in p..q : stream[i].kind # "error"
      /\ ~LastToolFailed(p, q)

\* A client that is not told to stop catches up with the session again and
\* again, however often its connection broke and whatever the log has dropped
\* meanwhile.
CatchesUp == known ~> (lastSeq = Len(stream) \/ client = "done")
=============================================================================
