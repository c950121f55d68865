------------------------------ MODULE BashTool ------------------------------
(***************************************************************************)
(* One call of the bash tool (tools.rs, bash) with the runner that waits   *)
(* for it (agent.rs, run_instruction).                                     *)
(*                                                                         *)
(* The shell runs in a process group of its own and may start background   *)
(* processes; they inherit the write ends of the two pipes or redirect     *)
(* their output, and may leave the group (setsid).  One reader task per    *)
(* pipe forwards what it reads into a channel; the select loop of bash     *)
(* takes, in this order, a cancellation, the deadline, a chunk, the exit   *)
(* of the shell.  A pipe is at its end when nobody holds its write end, so *)
(* the exit of the shell alone does not end the call.                      *)
(*                                                                         *)
(* A chunk is what a read returns of one character, and a read of several  *)
(* characters is as many chunks in a row.  Each read is decoded by itself: *)
(* where it ends within a character, both its parts become replacement     *)
(* characters.  SIGKILL takes effect at once.  Each poll of the select is  *)
(* one step.                                                               *)
(***************************************************************************)
EXTENDS SessionEvents, FiniteSets

CONSTANTS
  Kids,       \* the background processes the shell may start
  Width,      \* bytes in a character of each stream
  ChanCap,    \* capacity of the channel between readers and loop (64)
  AccCap,     \* ACC_CAP, the bytes of output the result retains (256 KiB)
  ResultCap,  \* bytes the history keeps of a result (32 KiB)
  MaxWrites   \* bound: bytes written to the pipe of each stream

Streams == {"stdout", "stderr"}
Shell == "shell"
Procs == Kids \cup {Shell}

ASSUME BashAssumption ==
  /\ Shell \notin Kids
  /\ IsFiniteSet(Kids)
  /\ Width \in [Streams -> Nat \ {0}]
  /\ ChanCap \in Nat \ {0}
  /\ AccCap \in Nat /\ ResultCap \in Nat
  /\ MaxWrites \in [Streams -> Nat]

VARIABLES
  pc,         \* "idle", "loop", "reap", "done"; "gone" once the runner dropped it
  why,        \* what ended the loop: "none", "exited", "interrupted", "timed out"
  cancelled,  \* the token of the run
  late,       \* the deadline has passed
  proc,       \* per process: "none", "group", "away" or "dead"
  holds,      \* per process: the pipes whose write end it has open
  code,       \* the exit code of the dead shell; "killed" without one
  written,    \* per stream: the bytes written to the pipe
  taken,      \* per stream: the bytes a reader has taken from the pipe
  reading,    \* the streams whose reader task runs
  failed,     \* the streams whose reader ended with an error
  chan,       \* the channel to the loop
  pipes_open, \* the loop has not seen the end of the channel
  status,     \* final_status: "none" or an exit code
  acc,        \* the output kept for the result
  truncated,  \* some output was not kept
  content     \* the output the provider is told of

world == <<cancelled, late>>
procs == <<proc, holds, code, written>>
pipes == <<taken, reading, failed, chan>>
loop  == <<pipes_open, status, acc, truncated, content>>
vars == <<pc, why, world, procs, pipes, loop, events>>

-----------------------------------------------------------------------------
Chunk == [stream: Streams, from: Nat, to: Nat, torn: BOOLEAN]

\* The bytes of the next k of a stream behind the first b, decoded by
\* themselves (from_utf8_lossy): a character, or a part of one.
Decoded(s, b, k) ==
  [stream |-> s, from |-> b, to |-> b + k,
   torn |-> b % Width[s] # 0 \/ k # Width[s]]

\* The lengths a read may end at: anywhere in a character, and what it has
\* left of one is torn to replacement characters byte by byte.
Lengths(s) == IF taken[s] % Width[s] = 0 THEN 1..Width[s] ELSE {1}

\* The bytes of the text shown for a chunk; U+FFFD has three.
Size(c) == IF c.torn THEN 3 ELSE Width[c.stream]

Alive(p) == proc[p] \in {"group", "away"}

\* No write end of the pipe is open and the reader has read everything.
AtEnd(s) == taken[s] = written[s] /\ \A p \in Procs : s \notin holds[p]

\* The bytes of the text of a sequence of chunks.
Bytes(cs) ==
  LET sum[i \in 0..Len(cs)] ==
        IF i = 0 THEN 0 ELSE sum[i - 1] + Size(cs[i])
  IN  sum[Len(cs)]

\* What cap puts in place of the middle of a text.
Marker == [stream |-> "marker"]

\* Faulty variant: nothing stands for the middle.
CapUnmarked(cs, max) ==
  LET half == max \div 2
      head == SubSeq(cs, 1, IF Len(cs) < half THEN Len(cs) ELSE half)
      tail == IF Len(cs) < half THEN <<>> ELSE SubSeq(cs, Len(cs) - half + 1, Len(cs))
  IN  IF Bytes(cs) <= max THEN cs ELSE head \o tail

\* diff::cap, which takes half of max in characters from either end of a text
\* of more than max bytes.  The subtraction wraps in a release build when
\* wide characters are fewer than half, and then everything is skipped.
Cap(cs, max) ==
  LET half == max \div 2
      head == SubSeq(cs, 1, IF Len(cs) < half THEN Len(cs) ELSE half)
      tail == IF Len(cs) < half THEN <<>> ELSE SubSeq(cs, Len(cs) - half + 1, Len(cs))
  IN  IF Bytes(cs) <= max THEN cs ELSE head \o <<Marker>> \o tail

\* SIGKILL to a set of processes: they die and their pipe ends close.
Kill(ps) ==
  /\ proc'  = [p \in Procs |-> IF p \in ps /\ Alive(p) THEN "dead" ELSE proc[p]]
  /\ holds' = [p \in Procs |-> IF p \in ps THEN {} ELSE holds[p]]
  /\ code'  = IF Shell \in ps /\ Alive(Shell) THEN "killed" ELSE code
  /\ UNCHANGED written

Group == {p \in Procs : proc[p] = "group"}

CallEvent == [kind |-> "call"]
OutputEvent(c) == [kind |-> "output", chunk |-> c]
ResultEvent(ok) == [kind |-> "result", ok |-> ok]

\* The verdict of the result: exit 0, and the loop has ended by itself.
Succeeded == status' = "0" /\ why = "exited"

-----------------------------------------------------------------------------
Init ==
  /\ pc = "idle" /\ why = "none" /\ cancelled = FALSE /\ late = FALSE
  /\ proc = [p \in Procs |-> "none"]
  /\ holds = [p \in Procs |-> {}]
  /\ code = "none"
  /\ written = [s \in Streams |-> 0] /\ taken = [s \in Streams |-> 0]
  /\ reading = {} /\ failed = {} /\ chan = <<>>
  /\ pipes_open = TRUE /\ status = "none" /\ acc = <<>> /\ truncated = FALSE
  /\ content = <<>>
  /\ events = <<>>

\* The runner shows the call and the shell is spawned with both pipes and a
\* reader for each.
Start ==
  /\ pc = "idle"
  /\ pc' = "loop"
  /\ proc' = [proc EXCEPT ![Shell] = "group"]
  /\ holds' = [holds EXCEPT ![Shell] = Streams]
  /\ reading' = Streams
  /\ Emit(<<CallEvent>>)
  /\ UNCHANGED <<why, world, code, written, taken, failed, chan, loop>>

\* No command, an empty one, or spawn fails: an error result, no process.
StartFails ==
  /\ pc = "idle"
  /\ pc' = "done"
  /\ Emit(<<CallEvent, ResultEvent(FALSE)>>)
  /\ UNCHANGED <<why, world, procs, pipes, loop>>

-----------------------------------------------------------------------------
(* The shell and its descendants do what they like.                        *)

\* A character, as long as somebody reads the pipe.
Write(p, s) ==
  /\ Alive(p) /\ s \in holds[p] /\ s \in reading
  /\ written[s] + Width[s] <= MaxWrites[s]
  /\ written' = [written EXCEPT ![s] = @ + Width[s]]
  /\ UNCHANGED <<pc, why, world, proc, holds, code, pipes, loop, events>>

\* A child in the same group that keeps some of its parent's pipe ends and
\* redirects the others.
Fork(p, k, kept) ==
  /\ Alive(p) /\ proc[k] = "none" /\ kept \subseteq holds[p]
  /\ proc' = [proc EXCEPT ![k] = proc[p]]
  /\ holds' = [holds EXCEPT ![k] = kept]
  /\ UNCHANGED <<pc, why, world, code, written, pipes, loop, events>>

\* setsid: out of the reach of a signal to the group.
Detach(k) ==
  /\ k # Shell /\ proc[k] = "group"
  /\ proc' = [proc EXCEPT ![k] = "away"]
  /\ UNCHANGED <<pc, why, world, holds, code, written, pipes, loop, events>>

Exit(p) ==
  /\ Alive(p)
  /\ proc' = [proc EXCEPT ![p] = "dead"]
  /\ holds' = [holds EXCEPT ![p] = {}]
  /\ IF p = Shell THEN code' \in {"0", "1", "killed"} ELSE UNCHANGED code
  /\ UNCHANGED <<pc, why, world, written, pipes, loop, events>>

Cancel ==
  /\ pc \in {"loop", "reap"} /\ ~cancelled
  /\ cancelled' = TRUE
  /\ UNCHANGED <<pc, why, late, procs, pipes, loop, events>>

DeadlinePasses ==
  /\ pc = "loop" /\ ~late
  /\ late' = TRUE
  /\ UNCHANGED <<pc, why, cancelled, procs, pipes, loop, events>>

-----------------------------------------------------------------------------
(* The readers.                                                            *)

\* Faulty variant: try_send, so that a full channel drops the chunk.
ForwardOrDrop(s) ==
  \E k \in Lengths(s) :
    /\ s \in reading /\ taken[s] + k <= written[s] /\ pc = "loop"
    /\ taken' = [taken EXCEPT ![s] = @ + k]
    /\ chan' = IF Len(chan) < ChanCap THEN Append(chan, Decoded(s, taken[s], k)) ELSE chan
    /\ UNCHANGED <<pc, why, world, procs, reading, failed, loop, events>>

\* What a reader has read is decoded and goes into the channel; when the
\* receiver is gone the reader ends instead.
ForwardNext(s, k) ==
  /\ s \in reading /\ taken[s] + k <= written[s]
  /\ taken' = [taken EXCEPT ![s] = @ + k]
  /\ \/ /\ pc = "loop" /\ Len(chan) < ChanCap
        /\ chan' = Append(chan, Decoded(s, taken[s], k))
        /\ UNCHANGED reading
     \/ /\ pc = "gone"
        /\ reading' = reading \ {s}
        /\ UNCHANGED chan
  /\ UNCHANGED <<pc, why, world, procs, failed, loop, events>>

Forward(s) == \E k \in Lengths(s) : ForwardNext(s, k)

ReaderEnds(s) ==
  /\ s \in reading /\ AtEnd(s)
  /\ reading' = reading \ {s}
  /\ UNCHANGED <<pc, why, world, procs, taken, failed, chan, loop, events>>

\* A read fails: the reader ends as it does at the end of the pipe.
ReaderFails(s) ==
  /\ s \in reading
  /\ reading' = reading \ {s}
  /\ failed' = failed \cup {s}
  /\ UNCHANGED <<pc, why, world, procs, taken, chan, loop, events>>

-----------------------------------------------------------------------------
(* The select loop, its branches in their order.                           *)

ChannelReady == pipes_open /\ (chan # <<>> \/ reading = {})

Break(reason) == pc' = "reap" /\ why' = reason

CancelWins ==
  /\ pc = "loop" /\ cancelled
  /\ Break("interrupted") /\ Kill({Shell})
  /\ UNCHANGED <<world, pipes, loop, events>>

\* Faulty variant: the deadline is a timeout of child.wait alone.
DeadlineOfShell ==
  /\ pc = "loop" /\ ~cancelled /\ late /\ status = "none"
  /\ Break("timed out") /\ Kill({Shell})
  /\ UNCHANGED <<world, pipes, loop, events>>

DeadlineWins ==
  /\ pc = "loop" /\ ~cancelled /\ late
  /\ Break("timed out") /\ Kill({Shell})
  /\ UNCHANGED <<world, pipes, loop, events>>

\* A chunk is shown, and kept as far as there is room.  A chunk that does
\* not fit is cut at a character boundary, here to nothing.
TakeChunk ==
  /\ pc = "loop" /\ ~cancelled /\ ~late
  /\ pipes_open /\ chan # <<>>
  /\ chan' = Tail(chan)
  /\ Emit(<<OutputEvent(Head(chan))>>)
  /\ LET fits == Bytes(acc) + Size(Head(chan)) <= AccCap
     IN  /\ acc' = IF fits THEN Append(acc, Head(chan)) ELSE acc
         /\ truncated' = (truncated \/ ~fits)
  /\ UNCHANGED <<pc, why, world, procs, taken, reading, failed, pipes_open, status, content>>

\* The channel is empty and both readers have gone.
PipesClose ==
  /\ pc = "loop" /\ ~cancelled /\ ~late
  /\ pipes_open /\ chan = <<>> /\ reading = {}
  /\ pipes_open' = FALSE
  /\ IF status # "none" THEN Break("exited") ELSE UNCHANGED <<pc, why>>
  /\ UNCHANGED <<world, procs, pipes, status, acc, truncated, content, events>>

\* Faulty variant: the exit of the shell ends the loop.
ShellExitsAtOnce ==
  /\ pc = "loop" /\ ~cancelled /\ ~late
  /\ status = "none" /\ proc[Shell] = "dead"
  /\ status' = code /\ Break("exited")
  /\ UNCHANGED <<world, procs, pipes, pipes_open, acc, truncated, content, events>>

ShellExits ==
  /\ pc = "loop" /\ ~cancelled /\ ~late /\ ~ChannelReady
  /\ status = "none" /\ proc[Shell] = "dead"
  /\ status' = code
  /\ IF ~pipes_open THEN Break("exited") ELSE UNCHANGED <<pc, why>>
  /\ UNCHANGED <<world, procs, pipes, pipes_open, acc, truncated, content, events>>

\* Faulty variant: no guard of the group, only the shell is killed.
ReturnShellOnly ==
  /\ pc = "reap"
  /\ status # "none" \/ proc[Shell] = "dead"
  /\ pc' = "done"
  /\ status' = IF status = "none" THEN code ELSE status
  /\ reading' = {} /\ chan' = <<>>
  /\ Kill({Shell})
  /\ Emit(<<ResultEvent(Succeeded)>>)
  /\ content' = Cap(acc, ResultCap)
  /\ UNCHANGED <<why, world, taken, failed, pipes_open, acc, truncated>>

\* Behind the loop: the readers are aborted, the killed shell is waited for,
\* the guard of the group is dropped and kills it, the result is shown.
Return ==
  /\ pc = "reap"
  /\ status # "none" \/ proc[Shell] = "dead"
  /\ pc' = "done"
  /\ status' = IF status = "none" THEN code ELSE status
  /\ reading' = {} /\ chan' = <<>>
  /\ Kill(Group)
  /\ Emit(<<ResultEvent(Succeeded)>>)
  /\ content' = Cap(acc, ResultCap)
  /\ UNCHANGED <<why, world, taken, failed, pipes_open, acc, truncated>>

\* The runner sees the cancellation first and drops the call: kill_on_drop
\* and the guard kill, the receiver goes, the reader tasks stay.
Drop ==
  /\ pc \in {"loop", "reap"} /\ cancelled
  /\ pc' = "gone"
  /\ chan' = <<>>
  /\ Kill(Group)
  /\ Emit(<<ResultEvent(FALSE)>>)
  /\ UNCHANGED <<why, world, taken, reading, failed, loop>>

Children ==
  \E p \in Procs :
    \/ \E s \in Streams : Write(p, s)
    \/ \E k \in Kids : \E kept \in SUBSET Streams : Fork(p, k, kept)
    \/ Detach(p)
    \/ Exit(p)

Readers == \E s \in Streams : Forward(s) \/ ReaderEnds(s) \/ ReaderFails(s)

Loop == CancelWins \/ DeadlineWins \/ TakeChunk \/ PipesClose \/ ShellExits \/ Return

Next ==
  Start \/ StartFails \/ Children \/ Cancel \/ DeadlinePasses \/ Readers \/ Loop \/ Drop

Spec == Init /\ [][Next]_vars

(***************************************************************************)
(* The clock runs and the runtime polls what is ready.  Nothing is assumed *)
(* of the processes: a command may run, stay silent or keep a pipe open    *)
(* for ever; nor does anybody have to interrupt.                           *)
(***************************************************************************)
FairSpec == Spec /\ WF_vars(DeadlinePasses) /\ WF_vars(Loop)

-----------------------------------------------------------------------------
\* Byte b of the stream s is in a chunk; event i shows it.
Covers(c, s, b) == c.stream = s /\ b \in (c.from + 1)..c.to
Shows(i, s, b) == events[i].kind = "output" /\ Covers(events[i].chunk, s, b)

Over == pc \in {"done", "gone"}

\* When a call is over, however it ended, no process of its group is left,
\* also none that was started in the background; only what has left the
\* group survives (ProcessGroup, kill_on_drop).
GroupIsDead == Over => Group = {}

\* What is shown of a stream comes from what was written to it, from the first
\* byte on, in order, without a gap and nothing twice; the result keeps nothing
\* else, and all of it unless it is marked truncated (bash, read_pipe).  The
\* text is the one written except for characters of several bytes in which a
\* read ended: read_pipe decodes every read by itself, so that each part of
\* such a character is shown, and kept, as replacement characters.
OutputIsFaithful ==
  /\ \A i \in DOMAIN events : events[i].kind = "output" =>
       LET c == events[i].chunk
       IN  /\ c.to \in 1..written[c.stream] /\ c.from < c.to
           /\ \A b \in 1..c.from : \E j \in 1..(i - 1) : Shows(j, c.stream, b)
           /\ \A b \in (c.from + 1)..written[c.stream], j \in 1..(i - 1) :
                ~Shows(j, c.stream, b)
           /\ c.torn => Width[c.stream] > 1
           /\ truncated \/ \E k \in DOMAIN acc : acc[k] = c
  /\ \A k \in DOMAIN acc : \E i \in DOMAIN events :
       events[i].kind = "output" /\ events[i].chunk = acc[k]

\* A call reported as a success has shown everything that any of its
\* processes ever wrote, although the shell may exit before its children do
\* and its exit is awaited next to the pipes; except of a stream on which a
\* read failed, which read_pipe takes for its end.
SuccessIsWhole ==
  (\E i \in DOMAIN events : events[i].kind = "result" /\ events[i].ok) =>
    /\ code = "0"
    /\ \A s \in Streams \ failed : \A b \in 1..written[s] :
         \E i \in DOMAIN events : Shows(i, s, b)

\* What the provider is told of the output is all that was kept, or says that
\* it is not, and is bounded in characters whatever they are (diff::cap).
CutIsTold ==
  pc = "done" /\ content # acc =>
    /\ \E i \in DOMAIN content : content[i] = Marker
    /\ Len(content) <= ResultCap + 1

\* A call ends, by its deadline at the latest, even when the command hangs or
\* a detached child keeps the pipes open for ever.
CallEnds == pc = "loop" ~> Over
=============================================================================
