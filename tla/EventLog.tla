------------------------------ MODULE EventLog ------------------------------
(***************************************************************************)
(* The event pipeline of one session (session.rs): Session::emit with its  *)
(* emission lock, the bounded in-memory log, events.jsonl with its         *)
(* rotation, the broadcast ring, subscription, and what a crash of the     *)
(* server followed by Session::restore and enable_persistence makes of it. *)
(*                                                                         *)
(* Emitters are the threads that call emit at the same time: the agent     *)
(* runner, the side-agent runner, the HTTP and WebSocket handlers.  Each   *)
(* step of emit that another thread can observe is an action.  Messages    *)
(* are model values: the pipeline never looks inside one.                  *)
(***************************************************************************)
EXTENDS Naturals, Sequences

CONSTANTS Emitters,      \* threads that may call emit
          Clients,       \* WebSocket connections (handle_socket tasks)
          Msg,           \* messages
          NoOne,         \* the value of emitLock when nobody holds it
          LogCap,        \* LOG_CAP (4000 in the code)
          BufCap,        \* capacity of the broadcast ring (2048)
          RotateEvery,   \* rotation is considered at multiples of this (512)
          RestoreEvents, \* most events Session::restore adds (2)
          DiskMayFail,   \* may a write, rename or open fail?
          MaxSeq,        \* bound: events numbered in one behaviour
          MaxCrashes     \* bound: crashes in one behaviour

ASSUME CapAssumption == /\ LogCap \in Nat \ {0}
                        /\ BufCap \in Nat \ {0}
                        /\ RotateEvery \in Nat \ {0}
                        /\ RestoreEvents \in Nat
ASSUME NoOneAssumption == NoOne \notin Emitters
ASSUME MsgAssumption == Msg # {}
ASSUME BoundAssumption == /\ MaxSeq \in Nat
                          /\ MaxCrashes \in Nat
                          /\ DiskMayFail \in BOOLEAN

VARIABLES
  phase,      \* "down", "loaded" (restored), "opened" (file handle set), "up"
  seq,        \* Session.seq
  applied,    \* number of the last event folded into Session.state
  log,        \* Session.log
  emitLock,   \* holder of Session.emit_lock
  pc,         \* pc[e]: how far emitter e is inside emit
  env,        \* env[e]: the envelope emitter e is emitting
  writer,     \* Session.event_file: "none", "file", or "orphan": a handle on
              \* a file that a rename has since replaced
  file,       \* the lines of events.jsonl
  conn,       \* conn[c]: connection c is subscribed
  replay,     \* replay[c]: the part of the snapshot not sent yet
  live,       \* live[c]: broadcast events receiver c has not taken yet
  lagged,     \* lagged[c]: the ring overwrote an event c had not taken
  got,        \* got[c]: what connection c was sent
  crashes     \* crashes so far

emitVars == <<emitLock, pc, env>>
diskVars == <<writer, file>>
connVars == <<conn, replay, live, lagged, got>>
vars == <<phase, seq, applied, log, emitVars, diskVars, connVars, crashes>>

Envelope == [seq : Nat, msg : Msg]

\* The value of env[e] while e is not inside emit.
NoEvent == [seq |-> 0, msg |-> CHOOSE m \in Msg : TRUE]

LastSeq(s) == IF s = <<>> THEN 0 ELSE s[Len(s)].seq

\* The newest LogCap events: what push-and-drain keeps in memory, and what
\* load_session_files keeps of the file.
Newest(s) == IF Len(s) <= LogCap THEN s
                                 ELSE SubSeq(s, Len(s) - LogCap + 1, Len(s))

Init ==
  /\ phase = "down"
  /\ seq = 0 /\ applied = 0
  /\ log = <<>>
  /\ emitLock = NoOne
  /\ pc = [e \in Emitters |-> "idle"]
  /\ env = [e \in Emitters |-> NoEvent]
  /\ writer = "none" /\ file = <<>>
  /\ conn = [c \in Clients |-> FALSE]
  /\ replay = [c \in Clients |-> <<>>]
  /\ live = [c \in Clients |-> <<>>]
  /\ lagged = [c \in Clients |-> FALSE]
  /\ got = [c \in Clients |-> <<>>]
  /\ crashes = 0

-----------------------------------------------------------------------------
(* Starting: Session::new or restore, then enable_persistence.  A brand-new *)
(* session is the case of an empty file.                                    *)

\* The events `es' of the file, and behind them the n events restore adds
\* when the file ends inside a run.
Restored(es, n, m) ==
  Newest(es \o [i \in 1..n |-> [seq |-> LastSeq(es) + i, msg |-> m[i]]])

\* Faulty variant: the counter is the number of events replayed, not the
\* number of the last one.
LoadCountsEvents ==
  /\ phase = "down"
  /\ \E n \in 0..RestoreEvents : \E m \in [1..n -> Msg] :
       /\ n > 0 => file # <<>>
       /\ LastSeq(file) + n <= MaxSeq
       /\ log' = Restored(Newest(file), n, m)
       /\ seq' = Len(Newest(file)) + n
       /\ applied' = LastSeq(log')
  /\ phase' = "loaded"
  /\ UNCHANGED <<emitVars, diskVars, connVars, crashes>>

\* load_session_files, Session::build and Session::restore: nobody can see
\* the session yet and nothing is written, so they are one step.
Load ==
  /\ phase = "down"
  /\ \E n \in 0..RestoreEvents : \E m \in [1..n -> Msg] :
       /\ n > 0 => file # <<>>
       /\ LastSeq(file) + n <= MaxSeq
       /\ log' = Restored(Newest(file), n, m)
       /\ seq' = LastSeq(log')
       /\ applied' = LastSeq(log')
  /\ phase' = "loaded"
  /\ UNCHANGED <<emitVars, diskVars, connVars, crashes>>

\* enable_persistence opens events.jsonl for append.  load_sessions ignores
\* a failure and serves the session without a file.
OpenFile ==
  /\ phase = "loaded"
  /\ \/ /\ writer' = "file"
        /\ phase' = IF log = <<>> THEN "up" ELSE "opened"
     \/ /\ DiskMayFail
        /\ writer' = "none"
        /\ phase' = "up"
  /\ UNCHANGED <<seq, applied, log, file, emitVars, connVars, crashes>>

\* rewrite_events: write the log to a temporary file, rename it over
\* events.jsonl, open the result.  A failed write or rename leaves the
\* handle that was there; so does a failed open, but then that handle, if
\* there is one, is on the file the rename replaced.
RewriteEvents ==
  \/ file' = log /\ writer' = "file"
  \/ DiskMayFail /\ UNCHANGED <<file, writer>>
  \/ /\ DiskMayFail
     /\ file' = log
     /\ writer' = IF writer = "none" THEN "none" ELSE "orphan"

RewriteAtBoot ==
  /\ phase = "opened"
  /\ RewriteEvents
  /\ phase' = "up"
  /\ UNCHANGED <<seq, applied, log, emitVars, connVars, crashes>>

-----------------------------------------------------------------------------
(* Session::emit                                                            *)

\* Faulty variant: the session state is never told of the event.
ApplyForgotten(e) ==
  /\ pc[e] = "apply"
  /\ pc' = [pc EXCEPT ![e] = "push"]
  /\ UNCHANGED <<phase, seq, applied, log, emitLock, env, diskVars, connVars,
                 crashes>>

\* Faulty variant: the log is never drained.
PushWithoutDrain(e) ==
  /\ pc[e] = "push"
  /\ log' = Append(log, env[e])
  /\ pc' = [pc EXCEPT ![e] = "append"]
  /\ UNCHANGED <<phase, seq, applied, emitLock, env, diskVars, connVars, crashes>>

\* Faulty variant: the rotation does not set the new handle.
RotateWithoutReopen(e) ==
  /\ pc[e] = "rotate"
  /\ file' = log
  /\ pc' = [pc EXCEPT ![e] = "send"]
  /\ UNCHANGED <<phase, seq, applied, log, emitLock, env, writer, connVars,
                 crashes>>

\* Faulty variant: emit numbers its event without taking the lock.
EmitUnlocked(e) ==
  /\ phase = "up" /\ pc[e] = "idle"
  /\ seq < MaxSeq
  /\ seq' = seq + 1
  /\ \E m \in Msg : env' = [env EXCEPT ![e] = [seq |-> seq + 1, msg |-> m]]
  /\ emitLock' = e
  /\ pc' = [pc EXCEPT ![e] = "apply"]
  /\ UNCHANGED <<phase, applied, log, diskVars, connVars, crashes>>

\* Take the emission lock, number the event.
EmitLock(e) ==
  /\ phase = "up" /\ pc[e] = "idle"
  /\ emitLock = NoOne
  /\ seq < MaxSeq
  /\ emitLock' = e
  /\ seq' = seq + 1
  /\ \E m \in Msg : env' = [env EXCEPT ![e] = [seq |-> seq + 1, msg |-> m]]
  /\ pc' = [pc EXCEPT ![e] = "apply"]
  /\ UNCHANGED <<phase, applied, log, diskVars, connVars, crashes>>

\* Fold the event into SessionState.
EmitApply(e) ==
  /\ pc[e] = "apply"
  /\ applied' = env[e].seq
  /\ pc' = [pc EXCEPT ![e] = "push"]
  /\ UNCHANGED <<phase, seq, log, emitLock, env, diskVars, connVars, crashes>>

\* Push it on the in-memory log and drop what exceeds LOG_CAP.
EmitPush(e) ==
  /\ pc[e] = "push"
  /\ log' = Newest(Append(log, env[e]))
  /\ pc' = [pc EXCEPT ![e] = "append"]
  /\ UNCHANGED <<phase, seq, applied, emitLock, env, diskVars, connVars, crashes>>

\* Faulty variant: the line stays in a buffer of the writer.
AppendBuffered(e) ==
  /\ pc[e] = "append"
  /\ pc' = [pc EXCEPT ![e] = "send"]
  /\ UNCHANGED <<phase, seq, applied, log, emitLock, env, diskVars, connVars,
                 crashes>>

\* Faulty variant: without a handle emit returns before the broadcast.
AppendReturnsEarly(e) ==
  /\ pc[e] = "append"
  /\ IF writer = "none"
     THEN /\ pc' = [pc EXCEPT ![e] = "idle"]
          /\ emitLock' = NoOne
          /\ UNCHANGED diskVars
     ELSE /\ file' = IF writer = "file" THEN Append(file, env[e]) ELSE file
          /\ pc' = [pc EXCEPT ![e] = "send"]
          /\ UNCHANGED <<emitLock, writer>>
  /\ UNCHANGED <<phase, seq, applied, log, env, connVars, crashes>>

\* append_event: without a handle nothing is written; a failed write gives
\* up the handle for good; at multiples of RotateEvery a large file is rotated.
EmitAppend(e) ==
  /\ pc[e] = "append"
  /\ \/ /\ writer = "none"
        /\ pc' = [pc EXCEPT ![e] = "send"]
        /\ UNCHANGED diskVars
     \/ /\ writer # "none"
        /\ file' = IF writer = "file" THEN Append(file, env[e]) ELSE file
        /\ \/ /\ pc' = [pc EXCEPT ![e] = "send"]
              /\ UNCHANGED writer
           \/ /\ env[e].seq % RotateEvery = 0
              /\ writer' = "none"
              /\ pc' = [pc EXCEPT ![e] = "rotate"]
     \/ /\ writer # "none" /\ DiskMayFail
        /\ writer' = "none"
        /\ file' \in {file, IF writer = "file" THEN Append(file, env[e]) ELSE file}
        /\ pc' = [pc EXCEPT ![e] = "send"]
  /\ UNCHANGED <<phase, seq, applied, log, emitLock, env, connVars, crashes>>

\* The rotation rewrites the file with the newest LogCap events.
EmitRotate(e) ==
  /\ pc[e] = "rotate"
  /\ RewriteEvents
  /\ pc' = [pc EXCEPT ![e] = "send"]
  /\ UNCHANGED <<phase, seq, applied, log, emitLock, env, connVars, crashes>>

\* Broadcast to every receiver and release the lock.  A receiver whose
\* BufCap slots are full loses its oldest event.
EmitSend(e) ==
  /\ pc[e] = "send"
  /\ live' = [c \in Clients |->
                IF ~conn[c] THEN live[c]
                ELSE IF Len(live[c]) < BufCap THEN Append(live[c], env[e])
                ELSE Append(Tail(live[c]), env[e])]
  /\ lagged' = [c \in Clients |->
                  lagged[c] \/ (conn[c] /\ Len(live[c]) >= BufCap)]
  /\ emitLock' = NoOne
  /\ pc' = [pc EXCEPT ![e] = "idle"]
  /\ env' = [env EXCEPT ![e] = NoEvent]
  /\ UNCHANGED <<phase, seq, applied, log, diskVars, conn, replay, got, crashes>>

Emit(e) == \/ EmitApply(e) \/ EmitPush(e) \/ EmitAppend(e)
           \/ EmitRotate(e) \/ EmitSend(e)

-----------------------------------------------------------------------------
(* Subscribing and the writing half of handle_socket                        *)

\* Faulty variant: the snapshot is taken without the emission lock.
SubscribeUnlocked(c) ==
  /\ phase = "up" /\ ~conn[c]
  /\ conn' = [conn EXCEPT ![c] = TRUE]
  /\ replay' = [replay EXCEPT ![c] = log]
  /\ live' = [live EXCEPT ![c] = <<>>]
  /\ lagged' = [lagged EXCEPT ![c] = FALSE]
  /\ got' = [got EXCEPT ![c] = <<>>]
  /\ UNCHANGED <<phase, seq, applied, log, emitVars, diskVars, crashes>>

\* Session::subscribe: the receiver and the snapshot, under the lock.
Subscribe(c) ==
  /\ phase = "up" /\ ~conn[c]
  /\ emitLock = NoOne
  /\ conn' = [conn EXCEPT ![c] = TRUE]
  /\ replay' = [replay EXCEPT ![c] = log]
  /\ live' = [live EXCEPT ![c] = <<>>]
  /\ lagged' = [lagged EXCEPT ![c] = FALSE]
  /\ got' = [got EXCEPT ![c] = <<>>]
  /\ UNCHANGED <<phase, seq, applied, log, emitVars, diskVars, crashes>>

\* Send the next event of the snapshot.
SendReplay(c) ==
  /\ conn[c] /\ replay[c] # <<>>
  /\ got' = [got EXCEPT ![c] = Append(@, Head(replay[c]))]
  /\ replay' = [replay EXCEPT ![c] = Tail(@)]
  /\ UNCHANGED <<phase, seq, applied, log, emitVars, diskVars, conn, live, lagged,
                 crashes>>

\* Faulty variant: a lag is not looked at.
SendLiveAnyway(c) ==
  /\ conn[c] /\ replay[c] = <<>>
  /\ live[c] # <<>>
  /\ got' = [got EXCEPT ![c] = Append(@, Head(live[c]))]
  /\ live' = [live EXCEPT ![c] = Tail(@)]
  /\ UNCHANGED <<phase, seq, applied, log, emitVars, diskVars, conn, replay,
                 lagged, crashes>>

\* Behind the snapshot, take the next event from the ring.
SendLive(c) ==
  /\ conn[c] /\ replay[c] = <<>>
  /\ ~lagged[c]
  /\ live[c] # <<>>
  /\ got' = [got EXCEPT ![c] = Append(@, Head(live[c]))]
  /\ live' = [live EXCEPT ![c] = Tail(@)]
  /\ UNCHANGED <<phase, seq, applied, log, emitVars, diskVars, conn, replay,
                 lagged, crashes>>

\* The connection is gone; what it was sent is still on the screen.
Hangup(c) ==
  /\ conn' = [conn EXCEPT ![c] = FALSE]
  /\ replay' = [replay EXCEPT ![c] = <<>>]
  /\ live' = [live EXCEPT ![c] = <<>>]
  /\ lagged' = [lagged EXCEPT ![c] = FALSE]
  /\ UNCHANGED <<phase, seq, applied, log, emitVars, diskVars, got, crashes>>

\* RecvError::Lagged: close, so that the client reconnects and replays.
CloseLagged(c) == /\ conn[c] /\ replay[c] = <<>> /\ lagged[c]
                  /\ Hangup(c)

\* The peer closes or the network drops the connection.
Disconnect(c) == conn[c] /\ Hangup(c)

-----------------------------------------------------------------------------
\* The server process dies: memory is gone, the files stay.
Crash ==
  /\ phase # "down" /\ crashes < MaxCrashes
  /\ crashes' = crashes + 1
  /\ phase' = "down"
  /\ seq' = 0 /\ applied' = 0 /\ log' = <<>>
  /\ emitLock' = NoOne
  /\ pc' = [e \in Emitters |-> "idle"]
  /\ env' = [e \in Emitters |-> NoEvent]
  /\ writer' = "none"
  /\ conn' = [c \in Clients |-> FALSE]
  /\ replay' = [c \in Clients |-> <<>>]
  /\ live' = [c \in Clients |-> <<>>]
  /\ lagged' = [c \in Clients |-> FALSE]
  /\ UNCHANGED <<file, got>>

Boot == Load \/ OpenFile \/ RewriteAtBoot

Serve(c) == SendReplay(c) \/ SendLive(c) \/ CloseLagged(c)

Next == \/ Boot
        \/ Crash
        \/ \E e \in Emitters : EmitLock(e) \/ Emit(e)
        \/ \E c \in Clients : Subscribe(c) \/ Serve(c) \/ Disconnect(c)

Spec == Init /\ [][Next]_vars

\* Threads inside emit, the boot and the socket tasks keep running; nothing
\* obliges anyone to emit, to connect, to hang up or to crash.
Fairness == /\ WF_vars(Boot)
            /\ \A e \in Emitters : WF_vars(Emit(e))
            /\ \A c \in Clients : WF_vars(Serve(c))

FairSpec == Spec /\ Fairness

-----------------------------------------------------------------------------
(* Properties                                                               *)

Steps == {"idle", "apply", "push", "append", "rotate", "send"}

\* Every variable keeps its type, the in-memory log its cap and every
\* receiver of the broadcast ring its capacity.
TypeOK ==
  /\ phase \in {"down", "loaded", "opened", "up"}
  /\ seq \in Nat /\ applied \in Nat /\ crashes \in Nat
  /\ log \in Seq(Envelope) /\ Len(log) <= LogCap
  /\ emitLock \in Emitters \cup {NoOne}
  /\ pc \in [Emitters -> Steps]
  /\ env \in [Emitters -> Envelope]
  /\ writer \in {"none", "file", "orphan"}
  /\ file \in Seq(Envelope)
  /\ conn \in [Clients -> BOOLEAN]
  /\ lagged \in [Clients -> BOOLEAN]
  /\ replay \in [Clients -> Seq(Envelope)]
  /\ live \in [Clients -> Seq(Envelope)]
  /\ got \in [Clients -> Seq(Envelope)]
  /\ \A c \in Clients : Len(live[c]) <= BufCap

Ascending(s) == \A i, j \in DOMAIN s : i < j => s[i].seq < s[j].seq

Contiguous(s) == \A i, j \in DOMAIN s : s[j].seq + i = s[i].seq + j

\* What connection c was sent, and behind it what waits to be sent.
Pipeline(c) == got[c] \o replay[c] \o live[c]

\* Sequence numbers only grow: along the log, along the file and along what
\* a connection is sent, whatever the threads, the disk and crashes do.  The
\* emission lock, the order of the steps inside emit and the atomic snapshot
\* of subscribe have to make it so.
Ordered == /\ Ascending(log)
           /\ Ascending(file)
           /\ \A c \in Clients : Ascending(Pipeline(c))

\* While the disk works no number is missing: not in the log, not in the file
\* and not in what a connection is sent, up to the newest event whenever no
\* emit is under way.  A connection that lags is closed before it shows a gap.
GapFree ==
  ~DiskMayFail =>
    /\ Contiguous(log) /\ Contiguous(file)
    /\ \A c \in Clients :
         /\ Contiguous(got[c])
         /\ ~lagged[c] => Contiguous(Pipeline(c))
         /\ conn[c] /\ emitLock = NoOne => LastSeq(Pipeline(c)) = seq

\* While the disk works, reading the file back gives the log the running
\* session has in memory: a restart between two events changes no replay.
\* Rotation, the cap of the log and the cap of the loader must agree.
RestartRestoresLog ==
  ~DiskMayFail /\ phase = "up" /\ emitLock = NoOne => Newest(file) = log

\* While the disk works, an event a connection was sent is on disk, and
\* whenever the session is up, in the log and folded into the session state:
\* a watcher that has seen an event and then asks for the status, or comes
\* back after a crash, does not travel back in time.
NothingSeenIsLost ==
  ~DiskMayFail =>
    \A c \in Clients :
      /\ LastSeq(got[c]) <= LastSeq(file)
      /\ phase = "up" => /\ LastSeq(got[c]) <= applied
                         /\ LastSeq(got[c]) <= LastSeq(log)

\* An event numbered while a connection is open reaches that connection, or
\* the connection ends: emit finishes whatever the disk does, and the socket
\* task drains the snapshot and the ring.
Delivered ==
  \A c \in Clients : \A n \in 1..MaxSeq :
    (conn[c] /\ seq >= n) ~> (~conn[c] \/ LastSeq(got[c]) >= n)

=============================================================================
