------------------------------ MODULE AgentRun ------------------------------
(***************************************************************************)
(* The main agent of one session: the instruction queue, the runner task   *)
(* (agent.rs), cancellation, the events a run leaves in the log, the model *)
(* history it leaves on disk, and what Session::restore makes of both when *)
(* the server died in the middle.                                          *)
(*                                                                         *)
(* Emitting an event is one step here, in memory and on disk: EventLog     *)
(* models the inside of emit and shows that it may be.  Output, deltas,    *)
(* usage, plans and side answers, which change neither the status nor the  *)
(* tool, are left out of the log.  The runner is a single task; an action  *)
(* ends where it awaits, emits or saves, which is where an interrupt, a    *)
(* submission or a crash can come between.                                 *)
(***************************************************************************)
EXTENDS Naturals, FiniteSets, Sequences, Requests

CONSTANTS QueueCap,   \* capacity of the instruction channel (64 in the code)
          TurnLimit,  \* max_turns (48)
          HistCap,    \* MAX of cap_history_rule (300)
          LogCap,     \* LOG_CAP (4000)
          MaxUses,    \* bound: tool uses in one response
          MaxCalls,   \* bound: tool uses in all responses
          MaxSubmit,  \* bound: submissions
          MaxCrashes  \* bound: crashes

ASSUME CapAssumption == /\ QueueCap \in Nat \ {0}
                        /\ TurnLimit \in Nat \ {0}
                        /\ HistCap \in Nat \ {0}
                        /\ LogCap \in Nat \ {0}
ASSUME BoundAssumption == /\ MaxUses \in Nat /\ MaxCalls \in Nat /\ MaxSubmit \in Nat
                          /\ MaxCrashes \in Nat

VARIABLES
  phase,        \* "up", "down", "restored" (in memory), "half" (events saved)
  queued,       \* instructions in the channel
  token,        \* current_cancel: "none", "live" or "cancelled"
  pc,           \* where the runner is
  turn,         \* turn of run_instruction
  uses,         \* tool_uses of the current response: call ids, in order
  answered,     \* how many of them have a result
  interrupted,  \* interrupted of run_instruction
  events,       \* the in-memory log
  eventsDisk,   \* what load_session_files would read of events.jsonl
  state,        \* status and current_tool of SessionState
  history,      \* Session.history
  historyDisk,  \* history.json
  nextId,       \* call ids given out so far
  wasActive,    \* history variable: a run was active when the server died
  tornBoot,     \* history variable: a crash fell between the two saves of a boot
  submitted, crashes  \* counters for the bounds

runVars == <<pc, turn, uses, answered, interrupted>>
logVars == <<events, eventsDisk, state>>
histVars == <<history, historyDisk>>
ghostVars == <<wasActive, tornBoot>>
countVars == <<submitted, crashes>>
vars == <<phase, queued, token, runVars, logVars, histVars, nextId, ghostVars,
          countVars>>

-----------------------------------------------------------------------------
(* Events and the session state they fold into (state.rs).                  *)

NoCall == 0
Event(kind, id) == [kind |-> kind, id |-> id]
StatusKinds == {"instruction", "working", "idle", "interrupted"}
Kinds == StatusKinds \cup {"call", "result", "error", "note"}

StatusOf(kind) == IF kind = "instruction" THEN "working" ELSE kind

Newest(s) == IF Len(s) <= LogCap THEN s
                                 ELSE SubSeq(s, Len(s) - LogCap + 1, Len(s))

\* Faulty variant: a result does not clear the current tool.
ApplyKeepsTool(st, ev) ==
  [status |-> IF ev.kind \in StatusKinds THEN StatusOf(ev.kind) ELSE st.status,
   tool   |-> IF ev.kind = "call" THEN ev.id ELSE st.tool]

\* SessionState::apply.
Apply(st, ev) ==
  [status |-> IF ev.kind \in StatusKinds THEN StatusOf(ev.kind) ELSE st.status,
   tool   |-> CASE ev.kind = "call" -> ev.id
                [] ev.kind = "result" /\ st.tool = ev.id -> NoCall
                [] OTHER -> st.tool]

\* The last position of es that holds an event of one of the kinds ks, or 0.
LastOf(es, ks) ==
  LET at == {i \in DOMAIN es : es[i].kind \in ks}
  IN  IF at = {} THEN 0 ELSE CHOOSE i \in at : \A j \in at : j <= i

\* The state that Session::build gets by applying the events es in order.
Replayed(es) ==
  LET s == LastOf(es, StatusKinds)
      c == LastOf(es, {"call"})
      closed == \E i \in DOMAIN es : i > c /\ es[i] = Event("result", es[c].id)
  IN  [status |-> IF s = 0 THEN "idle" ELSE StatusOf(es[s].kind),
       tool   |-> IF c = 0 \/ closed THEN NoCall ELSE es[c].id]

\* Session::emit, in one step.
Emit(kind, id) ==
  /\ events' = Newest(Append(events, Event(kind, id)))
  /\ eventsDisk' = Newest(Append(eventsDisk, Event(kind, id)))
  /\ state' = Apply(state, Event(kind, id))

-----------------------------------------------------------------------------
(* The model history.                                                       *)

\* push_history: in memory, then on disk.
Push(msg) == /\ history' = Append(history, msg)
             /\ historyDisk' = history'

\* cap_history_rule: over the cap, cut at the next instruction of the user.
CapHistory(h) ==
  IF Len(h) <= HistCap THEN h
  ELSE LET starts == {i \in (Len(h) - HistCap + 2)..Len(h) : h[i].role = "user"}
       IN  IF starts = {} THEN <<>>
           ELSE SubSeq(h, CHOOSE i \in starts : \A j \in starts : i <= j, Len(h))

-----------------------------------------------------------------------------
Init ==
  /\ phase = "up" /\ queued = 0 /\ token = "none"
  /\ pc = "waiting" /\ turn = 0 /\ uses = <<>> /\ answered = 0
  /\ interrupted = FALSE
  /\ events = <<>> /\ eventsDisk = <<>>
  /\ state = [status |-> "idle", tool |-> NoCall]
  /\ history = <<>> /\ historyDisk = <<>>
  /\ nextId = 0
  /\ wasActive = FALSE /\ tornBoot = FALSE
  /\ submitted = 0 /\ crashes = 0

(* The callers.                                                             *)

\* Faulty variant: the channel is unbounded.
SubmitUnbounded ==
  /\ phase = "up" /\ submitted < MaxSubmit
  /\ submitted' = submitted + 1
  /\ queued' = queued + 1
  /\ UNCHANGED <<phase, token, runVars, logVars, histVars, nextId, ghostVars, crashes>>

\* submit_instruction: accepted while there is room, refused with an error
\* event otherwise.
Submit ==
  /\ phase = "up" /\ submitted < MaxSubmit
  /\ submitted' = submitted + 1
  /\ \/ /\ queued < QueueCap
        /\ queued' = queued + 1
        /\ UNCHANGED logVars
     \/ /\ queued >= QueueCap
        /\ Emit("error", NoCall)
        /\ UNCHANGED queued
  /\ UNCHANGED <<phase, token, runVars, histVars, nextId, ghostVars, crashes>>

\* Session::interrupt while a run holds a token.  Without one it says that there
\* is nothing to interrupt.
Interrupt ==
  /\ phase = "up" /\ token = "live"
  /\ token' = "cancelled"
  /\ UNCHANGED <<phase, queued, runVars, logVars, histVars, nextId, ghostVars,
                 countVars>>

-----------------------------------------------------------------------------
(* The runner and run_instruction.                                          *)

At(p) == phase = "up" /\ pc = p
Goto(p) == pc' = p
Frame == UNCHANGED <<phase, queued, nextId, ghostVars, countVars>>

\* Faulty variant: an interrupted session takes no further instruction.
ReceiveUnlessInterrupted ==
  /\ At("waiting") /\ queued > 0
  /\ state.status # "interrupted"
  /\ queued' = queued - 1
  /\ Goto("received")
  /\ UNCHANGED <<phase, token, turn, uses, answered, interrupted,
                 logVars, histVars, nextId, ghostVars, countVars>>

\* rx.recv: the instruction has left the channel and the run has not begun.
Receive ==
  /\ At("waiting") /\ queued > 0
  /\ queued' = queued - 1
  /\ Goto("received")
  /\ UNCHANGED <<phase, token, turn, uses, answered, interrupted,
                 logVars, histVars, nextId, ghostVars, countVars>>

BeginRun ==
  /\ At("received")
  /\ token' = "live"
  /\ turn' = 0 /\ uses' = <<>> /\ answered' = 0
  /\ interrupted' = FALSE
  /\ Goto("begun")
  /\ Frame /\ UNCHANGED <<logVars, histVars>>

EmitInstruction ==
  /\ At("begun")
  /\ Emit("instruction", NoCall)
  /\ Goto("announced")
  /\ Frame /\ UNCHANGED <<token, turn, uses, answered, interrupted, histVars>>

EmitWorking ==
  /\ At("announced")
  /\ Emit("working", NoCall)
  /\ Goto("working")
  /\ Frame /\ UNCHANGED <<token, turn, uses, answered, interrupted, histVars>>

\* The text may be blank: post_instruction refuses such a one, a socket does not.
PushInstruction ==
  /\ At("working")
  /\ \E text \in BOOLEAN : Push(UserText(text))
  /\ Goto("turn")
  /\ Frame /\ UNCHANGED <<token, turn, uses, answered, interrupted, logVars>>

\* The head of the loop: another turn unless the limit is reached or the
\* token is cancelled.
StartTurn ==
  /\ At("turn")
  /\ turn < TurnLimit
  /\ turn' = turn + 1
  /\ IF token = "cancelled" THEN Goto("limit") /\ interrupted' = TRUE
                            ELSE Goto("asking") /\ UNCHANGED interrupted
  /\ Frame /\ UNCHANGED <<token, uses, answered, logVars, histVars>>

OutOfTurns ==
  /\ At("turn")
  /\ turn >= TurnLimit
  /\ Goto("limit")
  /\ Frame /\ UNCHANGED <<token, turn, uses, answered, interrupted,
                          logVars, histVars>>

\* Faulty variant: the wait for the provider has no branch for the token.
AskIgnoresToken == FALSE

\* The biased select drops the provider call of a cancelled run.
AskCancelled ==
  /\ At("asking") /\ token = "cancelled"
  /\ interrupted' = TRUE
  /\ Goto("limit")
  /\ Frame /\ UNCHANGED <<token, turn, uses, answered, logVars, histVars>>

ProviderFails ==
  /\ At("asking") /\ token = "live"
  /\ Emit("error", NoCall)
  /\ Goto("limit")
  /\ Frame /\ UNCHANGED <<token, turn, uses, answered, interrupted, histVars>>

\* A response without tool uses ends the run, one without any text too: the
\* provider has dropped a blank text, and the message is pushed without a block.
FinalAnswer ==
  /\ At("asking") /\ token = "live"
  /\ \E text \in BOOLEAN : Push(Assistant(<<>>, text))
  /\ Goto("limit")
  /\ Frame /\ UNCHANGED <<token, turn, uses, answered, interrupted, logVars>>

ToolUses ==
  /\ At("asking") /\ token = "live"
  /\ \E n \in 1..MaxUses :
       /\ nextId + n <= MaxCalls
       /\ uses' = [i \in 1..n |-> nextId + i]
       /\ nextId' = nextId + n
  /\ Push(Assistant(uses', FALSE))
  /\ answered' = 0
  /\ Goto("calling")
  /\ UNCHANGED <<phase, queued, ghostVars, countVars, token, turn, interrupted,
                 logVars>>

CallTool ==
  /\ At("calling") /\ answered < Len(uses)
  /\ Emit("call", uses[answered + 1])
  /\ Goto("executing")
  /\ Frame /\ UNCHANGED <<token, turn, uses, answered, interrupted, histVars>>

\* exec_tool returns and the run has not been cancelled.
ToolReturns ==
  /\ At("executing") /\ token = "live"
  /\ Emit("result", uses[answered + 1])
  /\ answered' = answered + 1
  /\ Goto("calling")
  /\ Frame /\ UNCHANGED <<token, turn, uses, interrupted, histVars>>

\* Faulty variant: the result event of a cancelled tool is left out.
CancelQuietly ==
  /\ At("executing") /\ token = "cancelled"
  /\ interrupted' = TRUE
  /\ Goto("giving up")
  /\ Frame /\ UNCHANGED <<token, turn, uses, answered, logVars, histVars>>

\* The tool is dropped; it gets a failed result.
ToolCancelled ==
  /\ At("executing") /\ token = "cancelled"
  /\ Emit("result", uses[answered + 1])
  /\ interrupted' = TRUE
  /\ Goto("giving up")
  /\ Frame /\ UNCHANGED <<token, turn, uses, answered, histVars>>

\* The history gets a result for the dropped tool and for all behind it.
PushInterrupted ==
  /\ At("giving up")
  /\ Push(Results(uses))
  /\ Goto("limit")
  /\ Frame /\ UNCHANGED <<token, turn, uses, answered, interrupted, logVars>>

PushResults ==
  /\ At("calling") /\ answered = Len(uses)
  /\ Push(Results(uses))
  /\ Goto("turn")
  /\ Frame /\ UNCHANGED <<token, turn, uses, answered, interrupted, logVars>>

\* Behind the loop: `turn >= turns_limit' reports the limit.
ReportLimit ==
  /\ At("limit")
  /\ IF turn >= TurnLimit THEN Emit("error", NoCall) ELSE UNCHANGED logVars
  /\ Goto("telling")
  /\ Frame /\ UNCHANGED <<token, turn, uses, answered, interrupted, histVars>>

\* An interrupted run says so in the agent's voice.
TellInterrupted ==
  /\ At("telling")
  /\ IF interrupted THEN Emit("note", NoCall) ELSE UNCHANGED logVars
  /\ Goto("closing")
  /\ Frame /\ UNCHANGED <<token, turn, uses, answered, interrupted, histVars>>

\* Faulty variant: an interrupted run never reports that it is over.
CloseOnlyIdle ==
  /\ At("closing")
  /\ IF interrupted THEN UNCHANGED logVars ELSE Emit("idle", NoCall)
  /\ Goto("ending")
  /\ Frame /\ UNCHANGED <<token, turn, uses, answered, interrupted, histVars>>

EmitOutcome ==
  /\ At("closing")
  /\ Emit(IF interrupted THEN "interrupted" ELSE "idle", NoCall)
  /\ Goto("ending")
  /\ Frame /\ UNCHANGED <<token, turn, uses, answered, interrupted, histVars>>

\* end_run and cap_history.
EndRun ==
  /\ At("ending")
  /\ token' = "none"
  /\ historyDisk' = history
  /\ history' = CapHistory(history)
  /\ Goto("waiting")
  /\ Frame /\ UNCHANGED <<turn, uses, answered, interrupted, logVars>>

-----------------------------------------------------------------------------
(* Crash and restart.                                                       *)

Crash ==
  /\ phase # "down" /\ crashes < MaxCrashes
  /\ crashes' = crashes + 1
  /\ phase' = "down"
  /\ queued' = 0 /\ token' = "none"
  /\ pc' = "waiting" /\ turn' = 0 /\ uses' = <<>> /\ answered' = 0
  /\ interrupted' = FALSE
  /\ events' = <<>> /\ history' = <<>>
  /\ state' = [status |-> "idle", tool |-> NoCall]
  /\ wasActive' = IF phase = "up" THEN state.status = "working" ELSE wasActive
  /\ tornBoot' = (tornBoot \/ phase = "half")
  /\ UNCHANGED <<eventsDisk, historyDisk, nextId, submitted>>

\* The results restore adds for tool uses nobody answered.
Unresolved(h) ==
  IF h # <<>> /\ h[Len(h)].role = "assistant" /\ h[Len(h)].ids # <<>>
  THEN <<Results(h[Len(h)].ids)>> ELSE <<>>

\* The events restore adds for a run that was active.
Closing(st) ==
  (IF st.tool = NoCall THEN <<>> ELSE <<Event("result", st.tool)>>)
     \o <<Event("interrupted", NoCall)>>

\* Faulty variant: the dangling tool uses are forgotten.
RestoreEventsOnly ==
  /\ phase = "down"
  /\ LET st == Replayed(eventsDisk)
     IN  IF st.status = "working"
         THEN /\ history' = historyDisk
              /\ events' = Newest(eventsDisk \o Closing(st))
              /\ state' = [status |-> "interrupted", tool |-> NoCall]
         ELSE /\ history' = historyDisk
              /\ events' = eventsDisk
              /\ state' = st
  /\ phase' = "restored"
  /\ UNCHANGED <<queued, token, runVars, eventsDisk, historyDisk, nextId,
                 ghostVars, countVars>>

\* Faulty variant: the restored session keeps the status it died with.
RestoreAsIs ==
  /\ phase = "down"
  /\ history' = historyDisk
  /\ events' = eventsDisk
  /\ state' = Replayed(eventsDisk)
  /\ phase' = "restored"
  /\ UNCHANGED <<queued, token, runVars, eventsDisk, historyDisk, nextId,
                 ghostVars, countVars>>

\* load_session_files and Session::restore: all in memory.
Restore ==
  /\ phase = "down"
  /\ LET st == Replayed(eventsDisk)
     IN  IF st.status = "working"
         THEN /\ history' = historyDisk \o Unresolved(historyDisk)
              /\ events' = Newest(eventsDisk \o Closing(st))
              /\ state' = [status |-> "interrupted", tool |-> NoCall]
         ELSE /\ history' = historyDisk
              /\ events' = eventsDisk
              /\ state' = st
  /\ phase' = "restored"
  /\ UNCHANGED <<queued, token, runVars, eventsDisk, historyDisk, nextId,
                 ghostVars, countVars>>

\* enable_persistence saves the events first and then the history.
SaveEvents ==
  /\ phase = "restored"
  /\ eventsDisk' = events
  /\ phase' = "half"
  /\ UNCHANGED <<queued, token, runVars, events, state, histVars, nextId,
                 ghostVars, countVars>>

SaveHistory ==
  /\ phase = "half"
  /\ historyDisk' = history
  /\ phase' = "up"
  /\ UNCHANGED <<queued, token, runVars, logVars, history, nextId, ghostVars,
                 countVars>>

-----------------------------------------------------------------------------
\* Steps of the runner that depend on nobody else.
OwnStep == \/ Receive \/ BeginRun \/ EmitInstruction \/ EmitWorking
           \/ PushInstruction \/ StartTurn \/ OutOfTurns \/ AskCancelled
           \/ CallTool \/ ToolCancelled \/ PushInterrupted \/ PushResults
           \/ ReportLimit \/ TellInterrupted \/ EmitOutcome \/ EndRun

\* Answers of the provider and of tools.
Answer == ProviderFails \/ FinalAnswer \/ ToolUses \/ ToolReturns

Boot == Restore \/ SaveEvents \/ SaveHistory

Next == \/ OwnStep \/ Answer
        \/ Submit \/ Interrupt
        \/ Crash \/ Boot

Spec == Init /\ [][Next]_vars

\* The runtime polls the runner and the boot runs to its end.  A provider or
\* a tool may stay silent for ever.
FairSpec == Spec /\ WF_vars(OwnStep) /\ WF_vars(Boot)

-----------------------------------------------------------------------------
(* Properties                                                               *)

Places == {"waiting", "received", "begun", "announced", "working", "turn",
           "asking", "calling", "executing", "giving up", "limit", "telling",
           "closing", "ending"}

Message == [role : {"user", "assistant", "results"}, ids : Seq(Nat), text : BOOLEAN]
LogEvent == [kind : Kinds, id : Nat]

\* Every variable keeps its type, and the channel and the in-memory log stay
\* within their capacities.
TypeOK ==
  /\ phase \in {"up", "down", "restored", "half"}
  /\ queued \in 0..QueueCap
  /\ token \in {"none", "live", "cancelled"}
  /\ pc \in Places
  /\ turn \in 0..TurnLimit
  /\ uses \in Seq(Nat) /\ answered \in 0..Len(uses)
  /\ interrupted \in BOOLEAN
  /\ wasActive \in BOOLEAN /\ tornBoot \in BOOLEAN
  /\ events \in Seq(LogEvent) /\ eventsDisk \in Seq(LogEvent)
  /\ Len(events) <= LogCap
  /\ state \in [status : {"idle", "working", "interrupted"}, tool : Nat]
  /\ history \in Seq(Message) /\ historyDisk \in Seq(Message)
  /\ nextId \in Nat /\ submitted \in Nat /\ crashes \in Nat

\* Every request, as it is written for either provider, is a conversation it
\* accepts (docs/operations.md: "new instructions continue the previous
\* conversation"): after errors, interrupts, cuts of the history and crashes,
\* unless the user or the model has said nothing at all.
ConversationContinues == At("asking") /\ Worded(history) => Accepted(history)

\* In every session whose boots were not torn, that is, without a crash between
\* the two saves of enable_persistence (the boot behind it finds nothing to
\* repair in the log), tool uses and results pair in every request as either
\* provider demands it, and the request is one they accept unless the user or
\* the model has said nothing at all (run_instruction, cap_history_rule,
\* restore, messages_json).  An answer without text and tool uses is the
\* exception: run_instruction pushes it without a block, and no request behind
\* it is accepted until the history is cut there.
RequestsPaired ==
  ~tornBoot => /\ At("asking") => Matched(history)
               /\ ConversationContinues

\* Every call shown to the watchers has exactly one result behind it in the
\* log, or is being executed; also after a restart in the middle of a call.
CallsAnswered ==
  phase # "down" =>
    \A i \in DOMAIN events :
      events[i].kind = "call" =>
        LET answers == {j \in DOMAIN events :
                          events[j] = Event("result", events[i].id)}
        IN  IF At("executing") /\ events[i].id = uses[answered + 1]
            THEN answers = {}
            ELSE Cardinality(answers) = 1 /\ \A j \in answers : i < j

\* While the runner waits for work no watcher is told that the session works,
\* no tool is shown running and no token is left for an interrupt to cancel;
\* after a crash in any step too.
QuietWhenWaiting ==
  At("waiting") => /\ state.status # "working"
                   /\ state.tool = NoCall
                   /\ token = "none"

\* Replaying the file gives the status and the tool of the running session,
\* as long as no event has been dropped from the log.
StateIsReplay ==
  phase \in {"up", "half"} /\ Len(events) < LogCap => state = Replayed(eventsDisk)

\* A run that was active when the server died restores as interrupted.
ActiveRunRestored ==
  wasActive /\ phase \in {"restored", "half"} => state.status = "interrupted"

\* An interrupt ends the run, even if the provider or the tool stays silent.
InterruptStops ==
  token = "cancelled" ~> (token = "none" /\ state.status # "working")

\* A full instruction queue does not stay full, provided that providers and
\* tools answer: the 300-second timeout of a provider request and the deadline
\* of a command end every wait.  The refusal of submit_instruction is
\* temporary.
FullQueueDrains ==
  WF_vars(Answer) => (queued = QueueCap ~> queued < QueueCap)

=============================================================================
