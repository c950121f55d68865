# Morse in TLA+

Morse is a server that keeps *sessions*. A session has a workspace, a main agent that works
through instructions with a language model and tools, a side agent that answers questions, and
an event stream that any number of terminals watch, poll or reconnect to. Sessions survive a
restart of the server. This directory holds TLA+ modules that model the program, the
configurations under which TLC checks them, and theorems about them that TLAPS checks.

Paths are relative to `src/`; `core/` stands for `crates/morse-core/src/`, `server/` for
`crates/morse-server/src/`, `cli/` for `crates/morse-cli/src/`.

## 1. The system

| Component | State it keeps | Operations | Correct when |
|---|---|---|---|
| Event pipeline (`core/session.rs`) | counter, bounded log, folded state, emission lock, append handle, `events.jsonl`, broadcast ring | `emit`, `append_event`, `rewrite_events`, `subscribe`, `restore`, `enable_persistence` | every watcher sees one gap-free ascending stream; a restart continues it |
| Main agent (`core/agent.rs`) | instruction channel, cancellation token, turn counter, current response | `submit_instruction`, `interrupt`, `runner`, `run_instruction` | an interrupt ends a run; no status, tool or token is left behind |
| Model history (`session.rs`, `agent.rs`) | conversation in memory, `history.json` | `push_history`, `persist_history`, `cap_history_rule`, `restore` | tool uses and results pair in every request, and the provider accepts it when everybody has said something |
| `SessionState` (`core/state.rs`) | status, current and recent tools, tasks, tokens | `apply`, `heuristic_answer` | it is the replay of the log |
| Registry (`server/lib.rs`) | map of sessions, session directories | `load_sessions`, `create_session`, `evict_if_needed`, `stop_sessions` | no working session is evicted; the cap holds |
| HTTP and WebSocket handlers (`server/lib.rs`) | one cursor per connection | `handle_socket`, `get_events`, `post_instruction`, `post_interrupt` | a poller or a socket misses nothing, or is told |
| Client (`cli/client.rs`) | session id, last sequence number, command queue | `run`, `stream_once` | no event is shown twice, none is lost over a reconnect |
| Headless run (`cli/run.rs`) | baseline, ours, working, failed | `run_once` | the exit code tells of the events from its own instruction to the idle status behind it |
| Side agent (`core/side.rs`) | question channel, private history | `ask_side`, `runner`, `answer` | it answers every question, in order and from a fresh state, whatever the main agent does |
| Bash tool (`core/tools.rs`) | child, pipes, deadline, output cap | `bash`, `read_pipe`, `ProcessGroup::drop` | a call ends by exit, deadline or cancel, leaves no process of its group, and a success has shown all output that could be read |
| File tools (`core/tools.rs`, `core/diff.rs`) | files of the workspace | `safe_path`, read, write, edit, glob, grep, `cap` | paths stay inside; output stays bounded |
| Providers (`core/provider_*.rs`, `sse.rs`, `llm.rs`) | partial response, attempt counter, mock cursor | `complete_stream`, `for_each_data`, `retry_request` | text is shown once and exactly, calls keep their own arguments, what was streamed is what is returned |
| Terminal clients (`cli/tui.rs`, `plain.rs`, `render.rs`) | panes of items and wrapped lines | `pump_events`, `render`, `draw`, keys | a pane shows its items, streamed text stays whole |

They interact as follows. Handlers put instructions in a session's channel (64 entries) and call
`interrupt`, which cancels the token of the current run. The runner takes an instruction, runs
it, and reports everything by `emit`. `emit`, under one lock, numbers the event, folds it into
`SessionState`, pushes it on the log (4000 events), appends it to `events.jsonl` and broadcasts
it (ring of 2048). A socket subscribes, under the same lock, to the ring and takes a snapshot
of the log. After a restart the log and the state come from `events.jsonl`, the conversation
from `history.json`; a session that was working is closed by `restore`.

What is hard: threads that emit at the same time; a crash between any two of emit, save and
rename; an interrupt at any await; a slow watcher; a disk that fails in the middle; two files
(events and history) that must agree after a crash; caps (log, ring, channel, history, turns)
that cut in the middle of something. `PROJECT.json` lists these hazards with their lines.

## 2. Modules

| Module | What it is |
|---|---|
| `EventStream` | what the pipeline promises: an append-only stream in which message i has number i for ever, and connections that each show a contiguous stretch of it |
| `EventLog` | the pipeline as the code has it, one action per step of `emit`, of a boot and of a socket |
| `EventLogStream` | `EventLog` with the history of what it published, refining `EventStream` |
| `MCEventLog` | instance for TLC |
| `EventLogProofs` | TLAPS theorems: on any disk; on a working one, with the refinement of `EventStream` |
| `Requests` | the history as the two providers send it, and what their APIs demand of a conversation |
| `AgentRun` | instruction channel, runner, cancellation, events of a run, history, crash and restore; every request it makes goes through `Requests` |
| `AgentRunProofs` | TLAPS theorems: log, state and calls; the conversation |
| `SessionEvents` | the promise of the pipeline in the form in which a part that emits and reads needs it: one sequence of events |
| `BashTool` | one call of the bash tool: processes, pipes, readers, select loop, deadline, cancellation, process group |
| `MCBashTool`, `BashToolProofs` | instance for TLC; TLAPS theorems |
| `ProviderCall` | one call of a provider: request, retries, the reply in chunks, its assembly, what is shown of it |
| `MCProviderCall`, `ProviderCallProofs` | instance for TLC; TLAPS theorems |
| `SideAgent` | the side agent: question queue, runner, private history |
| `Terminal` | the full-screen client: panes, what an event adds to them, redrawing |
| `SideChat` | `SideAgent` and `Terminal` over one session, beside a main agent that may hang |
| `SideChatProofs` | TLAPS theorems about it: the side agent; the panes |
| `Registry` | the sessions of a server: map, lock, directories, creation with eviction, handlers, runners, boot |
| `MCRegistry`, `RegistryProofs` | instance for TLC, with a documented promise that does not always hold; TLAPS theorems |
| `Delivery` | a client that stays with a session over broken connections: socket handler, connection, `client.rs`. It has no specification of its own: what reads the events is a module on top |
| `RunOnce` | `morse run` on top of `Delivery` |
| `MCRunOnce`, `RunOnceProofs` | instance for TLC, with one such promise; TLAPS theorems |
| `ListLemmas` | lemmas about lists of lists put one behind the other, which requests, responses and wrapped lines are |

`EventLog` and `AgentRun` look into one session. `BashTool` and `ProviderCall` are the inside of
two waits of `AgentRun`: its `executing` and its `asking`, where it only says that a tool or a
provider answers, fails, or stays silent. `SideChat` has the other agent of the same session.
`Registry` takes of a session only what the map needs: whether it is busy and who refers to it.
`Delivery` takes what `EventStream` promises, message i has number i, and of a run only which
kinds of events it can leave.

### EventLog and the code

`seq`, `log`, `emitLock`, `writer` and `file` are `Session.seq`, `log`, `emit_lock`,
`event_file` and the lines of `events.jsonl`. `applied` is the number of the last event folded
into `Session.state`. `pc[e]` says how far thread `e` is inside `emit`, and `env[e]` is the
envelope it carries. `writer = "orphan"` is a handle on a file that a rename has replaced.
`replay`, `live`, `lagged` and `got` are, per connection, what is left of the snapshot, what
waits in the broadcast receiver, the pending `RecvError::Lagged`, and what was written to the
socket.

| Action | Code |
|---|---|
| `Load` | `load_session_files`, `Session::build`, `Session::restore`: in memory, nobody watches, hence one step; it adds at most two events, in a session whose file is not empty |
| `OpenFile`, `RewriteAtBoot` | `enable_persistence`; the second only when the log is not empty |
| `EmitLock`, `EmitApply`, `EmitPush`, `EmitAppend`, `EmitRotate`, `EmitSend` | the statements of `emit` and `append_event`, in their order; each touches state that a reader without the lock can see (`state_snapshot`, `log_after`) or that a crash keeps |
| `Subscribe` | `subscribe`, under the emission lock |
| `SendReplay`, `SendLive`, `CloseLagged`, `Disconnect` | the writing half of `handle_socket` |
| `Crash` | the process dies; only `file`, and what a screen already shows, stay |

Messages are model values, since the pipeline never looks into one. The size test of the
rotation (8 MiB) is a free choice at every multiple of `RotateEvery`, so each property holds
for every size. Serialisation never fails for these types and is left out. A write that fails
may or may not have reached the file. A write that fails half-way also may spoil the line
behind it; the loader skips such a line, which the model does not distinguish from a lost one.

### AgentRun, Requests and the code

`queued` counts the channel; instructions carry no content. `token` is `current_cancel` with
the state of its token. `pc` names the next statement of `runner` or `run_instruction` at which
something can come between: an action ends where the code awaits, emits or saves. `uses` and
`answered` are `tool_uses` and the position of the inner loop. `events` and `eventsDisk` are
the log and the part of `events.jsonl` that `load_session_files` keeps; an event has a kind and
a call id. `state` is status and current tool of `SessionState`. `history` and `historyDisk`
are the conversation and `history.json`; a message is its role with the ids of its tool uses or
results, and whether it has a text that is not blank: an instruction may be blank (a socket takes
any), and so may an answer (`FinalAnswer`), which is then pushed without a block. `emit` is one step here: `EventLog` models its inside and shows that it may be.

The two `biased` selects look at the token first: `AskCancelled` and `ToolCancelled` need a
cancelled token, the answers a live one. Events that change neither status nor tool (deltas,
output, usage, side answers) are left out, except the text that tells of an interrupt.
`Restore`, `SaveEvents` and `SaveHistory` are `Session::restore` and the two saves of
`enable_persistence`. `wasActive` and `tornBoot` are history variables.

`OpenAiMessages` and `AnthropicMessages` are the two `messages_json`: a message per result, or
all results in the user's role. `OpenAiPairs` and `AnthropicPairs` are the rules of the APIs for
tool uses and results, `OpenAiAccepts` and `AnthropicAccepts` add that a message has content; no
source here states them, and they are marked external in the map. `RequestsPaired` asks for the
pairing of every request (`Matched`), and for acceptance of those in which everybody has said
something (`Worded`): an empty answer is a case that the code does not handle (see Findings).

### BashTool and the code

`proc`, `holds`, `code` and `written` are the operating system's: which processes live, inside or
outside the process group, which pipe ends they hold, what they wrote. `taken`, `reading` and
`chan` are the two `read_pipe` tasks and the channel to the loop; `failed` remembers whose read failed. `pipes_open`, `status`
(`final_status`), `acc` and `truncated` are the variables of `bash`; `content` is what is left of
the result after `cap`. `pc` is `loop`, `reap` (behind the loop), `done`, or `gone` once the
runner has dropped the future.

| Action | Code |
|---|---|
| `Start`, `StartFails` | the beginning of `bash` with `spawn`, and the runner's `tool_call` event |
| `Write`, `Fork`, `Detach`, `Exit` | any process at any time: output, a child that keeps or redirects the pipes, `setsid`, an end |
| `Forward`, `ReaderEnds`, `ReaderFails` | one turn of `read_pipe`, with the decoding of what was read (`Decoded`); its end at the end of the pipe or of the receiver, or by an error, which the code takes for the end |
| `CancelWins`, `DeadlineWins`, `TakeChunk`, `PipesClose`, `ShellExits` | the branches of the `biased` select, in their order |
| `Return` | everything behind the loop: abort of the readers, `child.wait`, `ProcessGroup::drop`, the verdict, the result event, `cap` |
| `Drop` | the runner's own select: the token wins and the future of the call is dropped, with `kill_on_drop` and the guard |
| `Cancel`, `DeadlinePasses` | an interrupt; the clock |

A chunk is what one `read` returns of one character, known by its bytes; a read of several
characters is as many chunks in a row. A read may end within a character, and since each is
decoded by itself, what it has of it is torn: replacement characters of three bytes each. A
process writes whole characters. SIGKILL takes effect at once. A chunk that does not fit is kept as far as a character boundary in the code; here it is
kept whole or not at all, and marked either way. `Cap` has the length test in bytes and the cut
in characters, as the code has.

### ProviderCall and the code

`api` and `streaming` say which provider and which of its methods is asked, `reply` what the
server will answer: content blocks in fragments, one line of the stream for each. `phase` and
`attempt` are `retry_request`, `line` is the buffer of `for_each_data`, `text` and `blocks` are
what `apply_stream_delta` and `apply_event` collect, `shown` is what the callback for text was
given, `response` the content of the `ChatResponse`.

| Action | Code |
|---|---|
| `Send`, `TransientFailure`, `Refused`, `Accepted` | `retry_request` and the statuses it tells apart |
| `ReadWhole` | `complete` with `parse_response` |
| `LineBegins`, `LineEnds` | `for_each_data` over a chunk that ends inside a line, and inside a character; then `Apply` |
| `StreamEnds` | the end of the stream, after any line, with `finish_stream` |
| `BodyFails` | an error or the timeout while the body is read: the call fails, nothing is repeated |

Lines without text and without a part of a call are left out. A torn character is a fragment
marked `torn`, since `from_utf8_lossy` replaces it. Arguments parse when they are all of one
call's, in order; else each provider has its fallback. Of a call whose arguments are `absent`
(a field that the message lacks, or a stream without a fragment of it) the methods make different
things: `parse_message` takes `{}` and anthropic's `parse_response` null, which the model does not
tell apart (`NoInput`), while a stream ends in the fallback, `{"_raw": ""}` of openai and `{}` of
anthropic. `StreamAgrees` says so: with such a call the streamed response is the one of
`StreamInputs`, without one it is also the one of `BodyInputs`. Only openai's and anthropic's own streams
are inputs: blocks of a call have an index, and a call starts before its arguments. A message of
openai has one text at most (`OneText`), its `content`, as `parse_message` reads it.

### SideAgent, Terminal, SideChat and the code

`asked` (when each question was asked) is a history variable. `queue` is the channel, `question`
and `about` are the question at hand and the state `answer` read for it, `history` is its local
history of 16 messages. `panes` are the two `Pane`s with `items`, `wrapped`, `wrap_width` and
`last_len`; `pumped` counts the events `pump_events` has taken.

| Action | Code |
|---|---|
| `Ask` | `ask_side`, with the error event of a full queue |
| `BeginAnswer` | `runner` receives, `answer` takes the snapshot of the state |
| `ModelAnswers`, `HeuristicAnswers` | the rest of `answer`: a model reply is remembered, a failure or the demo's heuristic is not |
| `Pump`, with `Render`, `PanePush`, `PaneAppend` | `pump_events`, `render`, `Pane::push`, `Pane::append` |
| `Draw`, with `SetWidth`, `Wrap` | `draw` on a terminal of any width, `set_width`, `wrap_item` |
| `MainEmits`, with `NextKinds` | the environment: a main agent that streams text with its usage behind it, and calls tools and sets plans in the order `run_instruction` allows, or stops for good |

`Render` shows nothing for a usage event, nor for the call and the result of a plan: the `plan`
event between them is what is shown, as a heading and an item per task (here one). So text is
joined over an empty plan call, and torn apart by the plan itself. `StreamedTextIsWhole` states
all of it: each fragment the cap has left stands, once (bodies ascend within an item and from
item to item), and two fragments are in one item if and only if everything between them is
`Unseen`.

### Registry and the code

A session is the number of its creation, so the smallest number is the oldest `created_ts`. `lock`
is the mutex of `App.sessions`, `mapped` its keys; `disk` lists the directories that hold a
`meta.json`, last modified first (ties are left out). `hpc` and `held` say where a handler is and
which `Arc<Session>` it holds. `run[s]` is the runner of `s`: `taken` is the window between
`rx.recv` and `begin_run` in which `Busy`, like `is_busy`, sees nothing. `answering` are the
sessions whose side agent is at a question; its runner then holds the session as the other one
does in a run, so an evicted session lives on and can even begin a queued instruction
(`Referenced`).

| Action | Code |
|---|---|
| `CreateLock`, `EvictPick`, `EvictRemove`, `Refuse`, `Build`, `WriteMeta`, `Insert` | `create_session` and the loop of `evict_if_needed`. The lock of the map is held throughout, but runners and handlers go on, so `is_busy` and `remove` are two steps |
| `Lookup`, `Submit`, `Ask`, `Release` | `get_session`, `submit_instruction`, `ask_side`, the end of the handler; a socket stays between them as long as it likes |
| `Take`, `Begin`, `End`, `RunnerEnds` | `runner`: it upgrades its `Weak` for one run and lets go again |
| `SideEnds` | the side agent's runner has published its last answer and lets go |
| `ListEntries`, `LoadOne`, `Serve` | `load_sessions`; a directory that is rewritten becomes the last modified |
| `Crash` | the process dies, or exits behind `stop_sessions` |

### Delivery, RunOnce and the code

`attached` is the server's subscription, `down` what waits in its receiver and on the wire, `up`
the commands on the wire, and `limbo` commands on a connection the client has given up, which the
server may or may not still read. `lastSeq` is `last_seq` of `run`, `evts` the channel of 512 to
the user interface, `cmds` its commands. The `client` is `offline` (asleep in the retry),
`greeting` (first message sent), `online`, or `done`. `baseline`, `ours`, `working`, `failed` and
`lastTool` are the variables of `run_once`.

| Action | Code |
|---|---|
| `Attach`, `Command` | `handle_socket`: first message, subscribe, hello and snapshot; then the commands |
| `Dial`, `Greeted`, `SendCommand`, `Receive` | `stream_once`; a full channel blocks it (`Show`) |
| `Rejected` | the two ways to end without a retry |
| `ConnectionBreaks`, `ServerRestarts` | every `Flow::Retry`, with the error that `run` shows |
| `LateCommand` | the old handler reads what had arrived before it notices the end |
| `Take`, `GiveUp` | an iteration of the loop of `run_once` with the verdict behind it; the deadline, or the end of the channel |

A restart closes a run whose instruction event is in the log, also before its first status, since
that event alone makes `SessionState` working (`ServerRestarts`).

`run_once` recognises its instruction by the text. The model assumes that no other client submits
the same text meanwhile (`CommandAssumption`). The model ends with the program.

## 3. Runs

| Run | Configuration | What it shows |
|---|---|---|
| `eventlog_safe` | `EventLog_safe.cfg` | working disk, two emitters, two crashes: `GapFree`, `RestartRestoresLog`, `NothingSeenIsLost`, and the refinement `IsAStream` |
| `eventlog_disk` | `EventLog_disk.cfg` | any write, rename or open may fail: watchers still see ascending numbers (`Ordered`) and every event (`Delivered`) or the end of their connection |
| `agentrun_safe` | `AgentRun_safe.cfg` | errors, interrupts, history cuts, crashes at every step: tool uses and results of every request pair, and both providers accept it unless somebody has said nothing (`RequestsPaired`), calls are answered once (`CallsAnswered`), nothing is left behind (`QuietWhenWaiting`, `ActiveRunRestored`), the state is the replay of the file (`StateIsReplay`); an interrupt ends the run (`InterruptStops`) and a full queue drains (`FullQueueDrains`) |
| `agentrun_tornboot` | `AgentRun_tornboot.cfg` | violation: a crash between the two saves of a boot leaves an ill-formed conversation |
| `bashtool_safe` | `BashTool_safe.cfg` | no process of the group survives (`GroupIsDead`), every byte of output is shown in order, once and without a gap, torn only where a read ends in a wide character (`OutputIsFaithful`), all of it before a success but for a stream whose read failed (`SuccessIsWhole`), a cut says so (`CutIsTold`), and a call ends even when the pipes never close (`CallEnds`) |
| `provider_safe` | `ProviderCall_safe.cfg` | the text that was read is shown once, in order (`StreamIsExact`), over retries and however lines interleave; no started call is missing and calls keep their own arguments (`CallsAreMeant`); a stream's texts are those shown, and read to its end it gives the response the other method gives, but for absent arguments (`StreamAgrees`); a call ends (`CallEnds`) |
| `provider_utf8` | `ProviderCall_utf8.cfg` | violation: a wide character split over two chunks is not shown as it was sent |
| `sidechat_safe` | `SideChat_safe.cfg` | answers in order and from a fresh state (`AnswersAreFresh`), whole exchanges remembered (`HistoryIsExchanges`), panes that show their items under cuts, joins and resizes (`PaneShowsItsItems`), streamed text once, whole and in order (`StreamedTextIsWhole`), and every question shown with its answer while the main agent hangs (`QuestionsShown`) |
| `registry_safe` | `Registry_safe.cfg` | the cap of the map (`CapHolds`), sessions a client knows are on disk (`ToldIsDurable`), creations end (`CreateAnswered`), evicted sessions are freed (`EvictedIsFreed`) |
| `registry_evict` | `Registry_evict.cfg` | violation: a session that has just taken an instruction is evicted |
| `runonce_safe` | `RunOnce_safe.cfg` | no event twice (`ShownOnce`) or left out unless the log had dropped it (`GapsAreDropped`), no instruction twice (`CommandsOnce`), a success only when there was no error and no failing last tool from its own instruction to the first idle status behind it (`SuccessIsDeserved`), and the client catches up after every break (`CatchesUp`) |
| `runonce_replay` | `RunOnce_replay.cfg` | violation (`ReplayCountsForNothing`): the error of an earlier run, in the replay, fails a successful run |

**Bounds.** `EventLog`: the caps are 2 (log), 1 (ring) and 2 (rotation), so every drain, every
lag and every rotation happens within four events (`MaxSeq`); two emitters are enough for every
race about one lock; the disk run has two connections, because they do not influence each
other. Two crashes let a boot be interrupted and repeated. In the safe run there are two
messages, so that a number given to two different messages would show in the refinement.

`AgentRun`: at most two tool uses in one response (a dropped one with one behind it), two turns,
a history cap of 4 (a two-turn run with tools has six messages, so the cap cuts, also in the
middle of a pair), a channel of one, two submissions, four tool uses in all (`MaxCalls`), two crashes. The log drops nothing
(`LogCap` 40): what a longer run than the log does to a restart is under Findings.

`BashTool`: the shell and one background child, which between them order their writes, ends and
pipe ends in every way; a channel of one chunk, so that readers wait; one byte on one pipe and two
characters of two bytes on the other (`MaxWrites` counts bytes), read whole or torn. Torn they
are twelve bytes of text; ten are kept and eight told, so that chunks do not fit and a cut meets
wide characters. `ProviderCall`: replies with text and
up to two calls in either order, blank text, two texts, a call with empty arguments and one with none; three attempts as in the
code; any interleaving of the lines of different blocks; an end after any line. `SideChat`: two questions to a
channel of one and a memory of one exchange, so that questions are refused and the memory cuts;
four events of the main agent, enough for texts on both sides of a tool, or of the call of a plan
that fails; panes of three lines in widths 1 and 2, so that the cap cuts in
the middle of an item.

`Registry`: two handlers, so that creations race, a map of two and three sessions, so
that the third evicts, is refused, or is passed over at boot; a channel of one; two instructions, so that a
session is evicted with one queued or running; one crash.

`RunOnce`: one run of our own and one of another client, so either can come first; the log keeps
three events, fewer than a run with a tool call leaves, so replays start in the middle of a run;
the channel holds one envelope, so the client waits for its reader; the connection breaks, or the
server restarts, once, in any state. In `runonce_replay` nothing breaks and nothing is dropped.

**What the properties leave open.** `Ordered`, the only promise on a failing disk, asks that
numbers ascend on each connection. It does not see that everything behind a failed append is gone
after a restart, nor that the restarted session gives numbers again that a client has seen.
`Delivered` and `CatchesUp` assume that a write to a socket goes on or fails: the server sets no
timeout for it. `ActiveRunRestored` is checked with a log that is never full. `CutIsTold` is about
a release build, where the subtraction in `cap` wraps; a debug build panics there. `Wide` is FALSE
in `provider_safe`, so what torn characters do is shown by `provider_utf8` and by the theorem
`CallsStayMeant` alone.

**Fairness.** `EventLog`: weak fairness of each thread inside `emit`, of the boot and of each
socket task: mutexes are held for bounded work, and tasks are polled; a socket that takes nothing
for ever is taken to fail. Nobody is obliged to
emit, connect or disconnect. `AgentRun`: weak fairness of the steps the runner takes alone
(`OwnStep`) and of the boot. Answers of providers and tools are *not* fair in `InterruptStops`:
they may never come. `FullQueueDrains` assumes them (`WF_vars(Answer)`) in its statement:
requests to a model time out after 300 seconds, and a command has a deadline. That assumption is what
`CallEnds` of `ProviderCall` and of `BashTool` show.

`BashTool`: the clock (`DeadlinePasses`) and the select loop; nothing is assumed of the processes,
which may hang or hold a pipe for ever, nor that anyone interrupts. `ProviderCall`: the task
sends, and a request that is not answered, or whose body does not end, times out
(`TransientFailure`, `BodyFails`). `SideChat`: the side agent's task, whose model call times out in
the same way, and that the client takes events (`Pumping`); the main agent may stop for ever.
`Registry`: weak fairness of a handler inside `create_session`, of the runners, whose runs and
answers end by the same timeouts, and of the boot; a socket may stay open for ever. `RunOnce`: weak fairness
of the server's socket task, of the client and of `Take`; sessions, other clients, breaks and the
deadline are free.

**Deadlock.** Checked for `EventLog`, where a client can always come and go. Not for `AgentRun`:
an idle session with no more submissions rests, by the bound `MaxSubmit`; nor for `Registry` and
`SideChat`, for the same reason; nor for `RunOnce`, `BashTool` and `ProviderCall`, which end.

**Mutants.** For every property a faulty variant of one definition stands before it in its
module (an event numbered without the lock, a rotation that keeps the old handle, a restore that
forgets open tool uses, a loop that ends with the shell, ...). With the variant in its place TLC
finds the property violated.

## 4. Theorems

`EventLogProofs` proves, for all values of the constants that satisfy the named assumptions:

* `TypeCorrect`: `Spec => []TypeOK`. This includes that the log never exceeds `LogCap` nor a
  receiver `BufCap`.
* `EventsOrdered`: `Spec => []Ordered`, also with a failing disk and any number of crashes.

`Ordered` is not inductive. `OrderInv` adds what the code relies on: only the holder of the lock
is inside `emit` and carries the newest number (`Locking`); the log, and the file, end below
that number before their step of `emit` and at most at it behind (`LogOrder`); what a connection
was sent, the rest of its snapshot and its receiver are each ascending and one below the other
(`PipeOrder`); and all of it lies below the number that is being emitted (`PipeBound`). So
`subscribe` has to exclude `emit`, or a snapshot could hold the event that the broadcast is
about to deliver again. The lemmas in front of the step proof say what `Append`, `Tail`,
`Newest` and concatenation do to ascending sequences.

Its second half is about a disk that works (`~DiskMayFail`), for any number of threads,
connections, messages and crashes and all caps:

* `RestartKeepsLog`: `Spec => []RestartRestoresLog`.
* `NothingIsLost`: `Spec => []NothingSeenIsLost`.
* `NoGaps`: `Spec => []GapFree`.
* `ImplementsStream`: `HSpec => IsAStream`, the refinement of `EventStream`. It needs that the
  events restore adds fit the log (`RestoreEvents <= LogCap`; two of 4000 in the code).

`WorkInv` adds to `OrderInv` how far the newest event has come: counter, state, log and file are
at one number between two emits and behind one another within one (`Progress`), the handle is on
the file except while the rotation replaces it (`Handle`), and the file cut to the cap is the log
except for the event between push and append (`OnDisk`). Lemma `NewestOfAppend` says that cutting
after every append or once at the end is the same. `Shown` and `GapInv` follow each connection:
what it was sent or will be sent is bounded by state, log and file, and snapshot, receiver and
what was sent are one contiguous stretch up to the newest event. For the refinement, `StreamInv`
says that what is published is what the file has held, that all a connection has or waits for is
public, and that a boot adds its events behind. Then an append, or the rewriting of the file at boot, is
`Publish`, `Subscribe` is `Connect`, sending a replayed or a live event is `Send`, and every
other step is a stutter.

`AgentRunProofs` proves, for any capacities, turn limit and number of crashes:

* `TypeCorrect`: `Spec => []TypeOK`.
* `StateReplays`: `Spec => []StateIsReplay`.
* `QuietBetweenRuns`, `ActiveRunsAreClosed`, `CallsGetAnswered`: `QuietWhenWaiting`,
  `ActiveRunRestored` and `CallsAnswered` hold as long as `Len(events) < LogCap`.

The premise is needed: once the log is full it drops events, a replay no longer shows the run,
and the next restart behaves as described under Findings. The properties in `AgentRun` do not
have it, because there `LogCap` is out of reach of the other bounds.
`RunInv`: the place of the runner decides token and calls (`Control`); the folded state shows the
run (`ShowsRun`); log, file and state agree between any two steps of a running session and
through the two saves of a boot (`Agrees`, `FileAtRest`, `BootAtRest`). Lemma `ReplayedAppended`
says that replaying a log with one event more is applying that event to the replay of the log; it
is what ties the state, folded event by event, to the file. `PairInv` adds that ids of calls ascend
(`Numbered`) and that in log and file every call has its result but the one the state shows
(`LogPaired`, `FilePaired`).

Its last part proves `RequestsStayPaired`: in every request tool uses and results pair as both
providers demand, and when everybody has said something they accept it (`RequestsPaired`), as long
as the log has not dropped events. In `ConvInv` a
conversation is `WellFormed` message by message: it begins with the user, results follow the tool
uses they answer, and tool uses without results stand only at its end and only while the run is at them,
or while a log that shows the run lets restore close them. `CapHistory` keeps that because it cuts in
front of an instruction (lemma `Cut`). The requests are flattened sequences of blocks; `FlattenParts`
of `ListLemmas` gives each flattened element its place by offsets, and `AnthropicIsPleased` and
`OpenAiIsPleased` derive the demands of the APIs from `WellFormed`.

`RegistryProofs` proves, for any number of handlers and sessions and every cap:

* `TypeCorrect`: `Spec => []TypeOK`, with the capacity of every channel.
* `CapIsKept`: `Spec => []CapHolds`.
* `ToldStaysDurable`: `Spec => []ToldIsDurable`.

All three follow from one inductive invariant, `Inv`. `Locking`: only the holder of the lock is
inside `create_session`, and only while the server is up. Without it two handlers could both
find room. `Room`: whoever has built a session has room for it, and a boot for the directories
left. `Saved`: a session about to be inserted has its `meta.json`. `Holding` gives the types of
the references in between. The lemmas `TouchedDisk` and `MapSize` say what moving a directory to
the front and adding a session do.

`BashToolProofs` proves, for any number of background processes, any capacity of the channel,
any widths, any caps and any amount of output (`BashAssumption`):

* `GroupStaysDead`: `Spec => []GroupIsDead`.
* `OutputStaysFaithful`: `Spec => []OutputIsFaithful`.
* `SuccessStaysWhole`: `Spec => []SuccessIsWhole`.
* `CutStaysTold`: `Spec => []CutIsTold`, from the lemma `CapIsBounded` about `Cap`.

The second and third say what the code keeps of the text: where every read holds whole characters
and none fails, what is shown is what was written; a torn character or a failed read is the only
way to show less, and the formulas name it.

Their common invariant is `Inv`. A reader ends only behind the end of its pipe or with an error of its
read, and the loop sees the channel end only behind both readers (`Drained`), so a loop that ended by itself has seen the end of the channel and a status
(`Reaped`). A chunk that a reader took is in the channel or shown, as long as the call goes on
(`Complete`), and the chunks of a stream follow each other byte by byte from the events to the channel
(`InOrder`). Together: nobody holds a pipe when the loop ends by itself, and all that was written
is shown. `Successful` keeps this behind the end of the call, when a descendant outside the
group may still live but has no pipe to write to. `Unstarted` covers the calls whose shell is never spawned.

`SideChatProofs` proves, for any number of questions, any capacity of the channel, every even
length of the history (`SideAssumption`; 16 in the code), any terminal and any main agent:

* `AnswersStayFresh`: `Spec => []AnswersAreFresh`.
* `HistoryStaysExchanges`: `Spec => []HistoryIsExchanges`.
* `PanesShowTheirItems`: `Spec => []PaneShowsItsItems`, for any caps and widths.
* `StreamedTextStaysWhole`: `Spec => []StreamedTextIsWhole`.

What is answered or remembered is older than the question at hand, and that is older than what
is in the channel (`Answered`, `Remembered`, `AtHand`, `QueueAscends`); a state that was read is
not older than the question it was read for, because a question is never of the future
(`AskedBefore`). The lemma `CutShifts` says that remembering an exchange shifts the history by
nothing or by two messages; for an odd length it would not hold, and the history would begin with an answer.

`PaneInv` is the invariant of the panes. `Fits`: once a pane has a width, its lines are the end
of the wrapped items, as many as the cap asks for, and `last_len` counts the lines of the last item. That a
pane may cut its items and its lines separately, wrap only what is new and rewrap only the last
item after a join rests on the lemmas about `LastN` and on `FlattenAppend`: the lines of the
items that were cut away are behind the cap. A pane keeps at most as many items as lines, and an
item has a line at least. `Texts` follows a streamed item through the events: its fragments ascend, and
between two of them, and behind the last while it is open, the main pane is shown nothing. It also
counts them: each fragment shown so far stands in one item, unless the cap took it from the front
(`NoneLost`), the items ascend (`Ordered`), and two streamed items have something else between
them (`Apart`), so no text is shown twice or torn without cause.

`RunOnceProofs` proves, for any log, channel, commands, runs of others and number of breaks and
restarts:

* `TypeCorrect`: `Spec => []TypeOK`, with the capacity of the event channel.
* `NothingShownTwice`: `Spec => []ShownOnce`.
* `OnlyDroppedIsMissing`: `Spec => []GapsAreDropped`.
* `CommandsRunOnce`: `Spec => []CommandsOnce`.
* `SuccessStaysDeserved`: `Spec => []SuccessIsDeserved`.

`FlowInv` says what is on the way to an attached client (`OnTheWay`): the hello, then consecutive
numbers up to the newest event, the first of which begins a snapshot or is at most one above
`last_seq`. So a number above `last_seq` is the next one, or the first of a snapshot. `Seen` and
`Told` tie `last_seq` to what was given out. For `CommandsOnce`, `InOnePlace` follows a command through the five places
where it can be, from the user interface over connections, given-up ones too, and the channel of
the session to its run: it is in one of them at most, and once. `MoveHead` and `MoveAll` are the
lemmas about handing on.

`SuccessIsDeserved` rests on this: a broken connection shows an error, an error makes a failure, so a
success has been read from one connection, the first. `Deserved` follows our run along it until a
break is told (`Clean`). What waits in the channel is the hello, or the event whose number follows
the one before it, as the session has it (`Waiting`); behind the replay boundary no restart has
cut a run, so an instruction is followed by its working status and that by what a run leaves
(`Unbroken`, `Connection`); and the flags of `run_once` say how far our run has been taken
(`Following`): it goes on, without an error, with `lastTool` at least as bad as its last tool
result, or it was interrupted and `lastTool` is that of whatever came behind. The idle status that
ends the loop is then the first behind our instruction, and all between the two was seen: no error,
and a last tool result that did not fail. `DeservedEnd` is that step. Of our own run alone this
would be false (Findings, 5).

`ProviderCallProofs` proves, for any replies a server may give, any interleaving of their lines,
chunks that end anywhere, streams that end or fail anywhere, and any number of attempts:

* `ShownIsExact`: `Spec => []StreamIsExact`, if there are no wide characters (`~Wide`). With them
  it is false, which `provider_utf8` shows.
* `CallsStayMeant`: `Spec => []CallsAreMeant`, also with torn characters.
* `StreamsAgree`: `Spec => []StreamAgrees`, for both providers. For a call that was sent without
  arguments it says what each method makes of it (`StreamInputs`, `BodyInputs`), which is not the
  same; for all others the two methods agree.

None of them is inductive, because responses are put together from what was collected on the
way. `Inv` counts by lines: the line in the buffer is the last that came of its block
(`Buffered`), so `LinesOf` and `ReadOf` say how much of a block was handed to `Apply`; what was
shown is that, in order and complete (`ShownInOrder`), and so is what the map holds of each block
(`Held`, `Collected`): a call from its first line on, with the arguments that were read. The
response is then a function of it (`Answered`). `ParsedIs` says that arguments parse just when
they are whole. `CallsOf` says what the calls of a list of blocks are, and `FlatCalls` and
`FrontCalls` derive it for the flattened map and for a text in front of it; `FlattenPicks` tells
from which entry an element came. `TextsGood` does the same for texts, which the two providers keep in different
places (`AnthropicTexts`, `OpenAiTexts`). At the end of a whole reply each block that was
collected is the block that was sent (`CollectedWhole`; for openai's one text by `Counting`), and
the two lists of blocks are equal, text by text and call by call (`AnthropicAgrees`,
`OpenAiAgrees`).

`ListLemmas` has the facts about `FlattenSeq`, a recursive function: that it exists and is the
only one (`FlattenExists`, `FlattenOnly`), what it gives for a list more, in front or behind
(`FlattenBehind`, `FlattenAppend`), and where its elements come from (`FlattenParts`,
`FlattenPicks`). The induction in them is by the smallest counterexample (`Smallest`), which
exists because `<` is well-founded on the naturals (theorem `WFMin` of the library).

Every invariant that a run checks is stated by one of these theorems. Model-checked only: the
liveness properties (`Delivered`, `InterruptStops`, `FullQueueDrains`, `CreateAnswered`,
`EvictedIsFreed`, `CatchesUp`, `QuestionsShown` and both `CallEnds`), since TLAPS has no backend
for fairness.

## 5. Findings

1. *Torn boot* (`agentrun_tornboot`). `docs/operations.md:41`: "new instructions continue the
   previous conversation". Boot saves the repaired events before the repaired history.
2. *Eviction* (`registry_evict`). `docs/operations.md:42`: "Running sessions are never evicted".
   `is_busy` does not see an instruction that has left the channel before `begin_run` sets the
   token; a handler that looked the session up earlier can also submit to it after the eviction.
   (The same line says "the cap yields to them"; in the code the creation yields, with a 429,
   and `CapHolds` holds.)
3. *Replayed errors* (`runonce_replay`). `cli/run.rs:38`: "only events after the replay boundary
   (`hello.seq`) and after our own instruction event count. That makes re-attaching to a finished
   session safe." In the trace a run of another client ends with an error, `morse run` attaches
   with boundary 4, the replay brings the error, and its own run, without a fault, exits non-zero.
   (An error of another client's run that comes live counts too.)
4. *Split characters* (`provider_utf8`). `core/sse.rs:5`: "Lines are split across chunks safely."
   A character is not: every chunk is decoded by itself.
5. *Interrupted, then overwritten* (`runonce_safe`). `README.md:65`: "exiting non-zero when the run
   fails (provider error, failing last tool call, or timeout)", and `docs/how-it-works.md:156`
   says the same. `run_once` (`cli/run.rs:62`) takes an interrupted status for work: when its own
   run is interrupted behind a failing tool and another client's run follows and goes well, it
   exits with 0. `SuccessIsDeserved` therefore speaks of all between the own instruction and the
   first idle status behind it, the run of another client included; that is what the code
   promises, and less than the documents say.
6. *Empty answers* (`agentrun_safe`). `docs/operations.md:41`: "new instructions continue the
   previous conversation". A response without text and tool uses is pushed as an assistant message
   without a block (`core/agent.rs:125`), and every later request carries a message that neither
   API accepts. An instruction of white space, which a socket may send, does the same to
   anthropic. `RequestsPaired` claims acceptance only of conversations in which everybody has said
   something (`Worded`), and pairing of all.

The last two come from runs that pass: there the property is stated with the exception the code
makes, and would be violated without it.

Other places where text and code differ, without a run of their own:

* `docs/operations.md:87`: "Runs active at shutdown restore as interrupted". Restore decides by
  replaying the newest 4000 events; when the status event of a longer run is no longer among
  them, the session restores idle, and open tool uses get no results. `ActiveRunRestored` is about
  runs that fit.
* `README.md:65` lists the ways a run fails; a run that finishes on exactly the last turn allowed
  is none of them and still reports an error (`ReportLimit`).
* `docs/operations.md:41`: at a restart "all sessions reload at boot". At most `max_sessions`
  directories are loaded, by time of modification, evicted ones among them, while eviction goes
  by time of creation (`ListEntries`).
* A call without arguments is `{}` when an openai response is parsed as a whole
  (`provider_openai.rs:196`) and `{"_raw":""}` when it was streamed (`:275`); for anthropic an
  absent input is null or `{}`. No document speaks of it; `StreamAgrees` states both.
* `read_pipe` decodes every read by itself (`tools.rs:587`), so a character that is split between
  two reads of a command's output is shown as replacement characters. No document says otherwise.
* `docs/architecture.md:101` calls the queues of instructions and side queries unbounded; both
  hold 64 and refuse more (`Submit`, `Ask`).

## 6. What is left

1. `get_events` against `emit`: `log_after` and `seq_now` are two reads without the emission
   lock. The windows are in `EventLog`; the reader is not.
2. `stop_sessions` in `Registry`, and a failing `persist_history` in `AgentRun`.

## 7. Not modelled

* `stop_sessions`: it interrupts every session and waits a while. What it leaves is cut off as by
  a crash, which `AgentRun` and `Registry` have at every step.
* Failing writes of `history.json`: the code ignores them, and the next restart pairs a newer log
  with an older conversation. The properties of `AgentRun` are about a working disk.
* The file tools (`safe_path`, read, write, edit, glob, grep, the unified diff): sequential file
  operations and text, without a state that outlives the call. `cap` is in `BashTool`.
* The demo and the command provider: scripts that turn words of an instruction into calls. To the
  runner they are providers like any other.
* Task list, token totals, recent tools of `SessionState` and the wording of its heuristic
  answer: accumulations that nothing else depends on.
* Line editing, scrolling, colours and layout of the terminal client, and `plain.rs`, which prints
  each event as it comes.
* Wording, rendering, JSON and environment parsing; prompts, answers and file contents;
  authentication (a comparison in front of every handler, without state); deployment scripts.
