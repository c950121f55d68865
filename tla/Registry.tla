------------------------------ MODULE Registry ------------------------------
(***************************************************************************)
(* The sessions of one server (server lib.rs): the map of live sessions    *)
(* under its lock, the session directories, creation with eviction of the  *)
(* oldest idle session, handlers that keep a session they have looked up,  *)
(* the two runners that hold a session only weakly, and boot.              *)
(*                                                                         *)
(* A session is the number of its creation.  Of its run the registry sees  *)
(* whether it is busy, of its side agent whether it is answering; AgentRun *)
(* and SideAgent model the inside.                                         *)
(***************************************************************************)
EXTENDS Naturals, FiniteSets, Sequences, SequencesExt

CONSTANTS Handlers,     \* HTTP requests and sockets
          Nobody,       \* nobody holds the lock, no session is referred to
          MaxSessions,  \* max_sessions (64)
          QueueCap,     \* capacity of an instruction channel (64)
          MaxIds,       \* bound: sessions created
          MaxSubmit,    \* bound: instructions accepted
          MaxCrashes    \* bound: crashes

ASSUME CapAssumption == MaxSessions \in Nat \ {0} /\ QueueCap \in Nat \ {0}
ASSUME NobodyAssumption == Nobody \notin Handlers /\ Nobody \notin Nat
ASSUME BoundAssumption == MaxIds \in Nat /\ MaxSubmit \in Nat /\ MaxCrashes \in Nat

Ids == 1..MaxIds

VARIABLES
  phase,      \* "down", "loading", "up"
  lock,       \* holder of the lock of the map
  mapped,     \* the sessions in the map
  disk,       \* the directories with a meta.json, last modified first
  entries,    \* load_sessions: directories still to load
  nextId,     \* sessions created so far
  hpc,        \* hpc[h]: where handler h is
  held,       \* held[h]: the session handler h has a reference to
  victim,     \* the session evict_if_needed has chosen
  queued,     \* queued[s]: instructions in the channel of s
  run,        \* run[s]: the runner of s: "gone", "waiting", "taken" (between
              \* rx.recv and begin_run), "running" (begin_run to end_run)
  answering,  \* sessions whose side agent is answering a question
  told,       \* history variable: sessions a client has been told of
  submitted, crashes  \* counters for the bounds

serverVars == <<phase, entries, crashes>>
handlerVars == <<hpc, held>>
workVars == <<queued, run, answering, submitted>>
vars == <<serverVars, handlerVars, workVars, lock, mapped, disk, nextId, victim, told>>

\* What Session::is_busy answers.  Between rx.recv and begin_run the channel
\* is empty and no token is set yet.
Busy(s) == queued[s] > 0 \/ run[s] = "running"

\* Can a client still come to the session?
Reachable(s) == s \in mapped \/ \E h \in Handlers : held[h] = s

\* Does the Session object exist for the Weak::upgrade of its runner?  The
\* side agent's runner holds it too, until the question is answered.
Referenced(s) == Reachable(s) \/ s \in answering

\* Replacing a file of its directory makes s the last one modified.
Touched(s) ==
  IF s \in ToSet(disk)
  THEN <<s>> \o RemoveAt(disk, CHOOSE i \in DOMAIN disk : disk[i] = s)
  ELSE <<s>> \o disk

Init ==
  /\ phase = "up" /\ lock = Nobody
  /\ mapped = {} /\ disk = <<>> /\ entries = <<>> /\ nextId = 0
  /\ hpc = [h \in Handlers |-> "idle"] /\ held = [h \in Handlers |-> Nobody]
  /\ victim = Nobody
  /\ queued = [s \in Ids |-> 0] /\ run = [s \in Ids |-> "gone"]
  /\ answering = {} /\ told = {}
  /\ submitted = 0 /\ crashes = 0

-----------------------------------------------------------------------------
(* create_session, under the lock from the first line to the last.          *)

At(h, p) == phase = "up" /\ hpc[h] = p
Goto(h, p) == hpc' = [hpc EXCEPT ![h] = p]

\* Faulty variant: two requests create at the same time.
CreateUnlocked(h) ==
  /\ At(h, "idle")
  /\ nextId < MaxIds
  /\ lock' = h
  /\ Goto(h, "evicting")
  /\ UNCHANGED <<serverVars, held, workVars, mapped, disk, nextId, victim, told>>

CreateLock(h) ==
  /\ At(h, "idle")
  /\ nextId < MaxIds
  /\ lock = Nobody
  /\ lock' = h
  /\ Goto(h, "evicting")
  /\ UNCHANGED <<serverVars, held, workVars, mapped, disk, nextId, victim, told>>

\* evict_if_needed: the oldest of the sessions that are not busy ...
EvictPick(h) ==
  /\ At(h, "evicting")
  /\ Cardinality(mapped) >= MaxSessions
  /\ \E s \in mapped :
       /\ ~Busy(s) /\ \A t \in mapped : Busy(t) \/ s <= t
       /\ victim' = s
  /\ Goto(h, "removing")
  /\ UNCHANGED <<serverVars, held, workVars, lock, mapped, disk, nextId, told>>

\* Faulty variant: the victim stays in the map.
EvictKeeps(h) ==
  /\ At(h, "removing")
  /\ Goto(h, "evicting")
  /\ victim' = Nobody
  /\ UNCHANGED <<serverVars, held, workVars, lock, mapped, disk, nextId, told>>

\* ... leaves the map; what happened to it since then is not looked at.
EvictRemove(h) ==
  /\ At(h, "removing")
  /\ mapped' = mapped \ {victim}
  /\ victim' = Nobody
  /\ Goto(h, "evicting")
  /\ UNCHANGED <<serverVars, held, workVars, lock, disk, nextId, told>>

\* All sessions are busy: 429.
Refuse(h) ==
  /\ At(h, "evicting")
  /\ Cardinality(mapped) >= MaxSessions
  /\ \A s \in mapped : Busy(s)
  /\ lock' = Nobody
  /\ Goto(h, "idle")
  /\ UNCHANGED <<serverVars, held, workVars, mapped, disk, nextId, victim, told>>

\* Directories, the session with its runner, and its files; meta.json comes
\* last.  A failure at any point is a 500, and the session is dropped.
Build(h) ==
  /\ At(h, "evicting")
  /\ nextId < MaxIds
  /\ Cardinality(mapped) < MaxSessions
  /\ nextId' = nextId + 1
  /\ \/ /\ held' = [held EXCEPT ![h] = nextId']
        /\ run' = [run EXCEPT ![nextId'] = "waiting"]
        /\ Goto(h, "built")
        /\ UNCHANGED lock
     \/ /\ lock' = Nobody
        /\ Goto(h, "idle")
        /\ UNCHANGED <<held, run>>
  /\ UNCHANGED <<serverVars, queued, answering, submitted, mapped, disk, victim, told>>

\* Faulty variant: the session is inserted without a meta.json.
MetaLater(h) ==
  /\ At(h, "built")
  /\ Goto(h, "saved")
  /\ UNCHANGED <<serverVars, held, workVars, lock, mapped, disk, nextId, victim, told>>

WriteMeta(h) ==
  /\ At(h, "built")
  /\ \/ /\ disk' = Touched(held[h])
        /\ Goto(h, "saved")
        /\ UNCHANGED <<held, lock>>
     \/ /\ lock' = Nobody
        /\ held' = [held EXCEPT ![h] = Nobody]
        /\ Goto(h, "idle")
        /\ UNCHANGED disk
  /\ UNCHANGED <<serverVars, workVars, mapped, nextId, victim, told>>

\* Into the map, release the lock, answer the request.
Insert(h) ==
  /\ At(h, "saved")
  /\ mapped' = mapped \cup {held[h]}
  /\ told' = told \cup {held[h]}
  /\ lock' = Nobody
  /\ Goto(h, "holding")
  /\ UNCHANGED <<serverVars, held, workVars, disk, nextId, victim>>

-----------------------------------------------------------------------------
(* Handlers that use a session.                                             *)

\* get_session: an instruction, an interrupt, a poll or an attach.
Lookup(h, s) ==
  /\ At(h, "idle")
  /\ lock = Nobody
  /\ s \in mapped
  /\ held' = [held EXCEPT ![h] = s]
  /\ Goto(h, "holding")
  /\ UNCHANGED <<serverVars, workVars, lock, mapped, disk, nextId, victim, told>>

\* Faulty variant: the channel is unbounded.
SubmitUnbounded(h) ==
  /\ At(h, "holding")
  /\ submitted < MaxSubmit
  /\ queued' = [queued EXCEPT ![held[h]] = @ + 1]
  /\ submitted' = submitted + 1
  /\ UNCHANGED <<serverVars, handlerVars, run, answering, lock, mapped, disk, nextId, victim, told>>

\* submit_instruction into the session at hand, be it in the map or not.
Submit(h) ==
  /\ At(h, "holding")
  /\ submitted < MaxSubmit
  /\ queued[held[h]] < QueueCap
  /\ queued' = [queued EXCEPT ![held[h]] = @ + 1]
  /\ submitted' = submitted + 1
  /\ UNCHANGED <<serverVars, handlerVars, run, answering, lock, mapped, disk, nextId, victim, told>>

\* ask_side: the side agent of the session at hand begins to answer, at once
\* or behind an earlier question.
Ask(h) ==
  /\ At(h, "holding")
  /\ held[h] \notin answering
  /\ answering' = answering \cup {held[h]}
  /\ UNCHANGED <<serverVars, handlerVars, queued, run, submitted, lock, mapped, disk, nextId,
                 victim, told>>

\* The request is answered or the socket closes.
Release(h) ==
  /\ At(h, "holding")
  /\ held' = [held EXCEPT ![h] = Nobody]
  /\ Goto(h, "idle")
  /\ UNCHANGED <<serverVars, workVars, lock, mapped, disk, nextId, victim, told>>

-----------------------------------------------------------------------------
(* The runner tasks of session s.                                           *)

\* rx.recv returns an instruction and upgrade finds the session.
Take(s) ==
  /\ phase = "up" /\ run[s] = "waiting" /\ queued[s] > 0
  /\ Referenced(s)
  /\ queued' = [queued EXCEPT ![s] = @ - 1]
  /\ run' = [run EXCEPT ![s] = "taken"]
  /\ UNCHANGED <<serverVars, handlerVars, answering, submitted, lock, mapped, disk, nextId, victim, told>>

\* begin_run, up to the instruction in history.json.
Begin(s) ==
  /\ phase = "up" /\ run[s] = "taken"
  /\ run' = [run EXCEPT ![s] = "running"]
  /\ disk' = Touched(s)
  /\ UNCHANGED <<serverVars, handlerVars, queued, answering, submitted, lock, mapped, nextId, victim, told>>

\* end_run drops the token and saves the history; runner lets go of the session.
End(s) ==
  /\ phase = "up" /\ run[s] = "running"
  /\ run' = [run EXCEPT ![s] = "waiting"]
  /\ disk' = Touched(s)
  /\ UNCHANGED <<serverVars, handlerVars, queued, answering, submitted, lock, mapped, nextId, victim, told>>

\* Faulty variant: the runner holds its session strongly.
RunnerStays(s) == FALSE

\* The session is gone: upgrade fails or the channel is closed, and what was
\* queued is dropped.
RunnerEnds(s) ==
  /\ phase = "up" /\ run[s] = "waiting"
  /\ ~Referenced(s)
  /\ run' = [run EXCEPT ![s] = "gone"]
  /\ queued' = [queued EXCEPT ![s] = 0]
  /\ UNCHANGED <<serverVars, handlerVars, answering, submitted, lock, mapped, disk, nextId, victim, told>>

\* The side agent has emitted its last answer and lets go of the session.
SideEnds(s) ==
  /\ phase = "up" /\ s \in answering
  /\ answering' = answering \ {s}
  /\ UNCHANGED <<serverVars, handlerVars, queued, run, submitted, lock, mapped, disk, nextId,
                 victim, told>>

-----------------------------------------------------------------------------
(* Down and up again.                                                       *)

\* The process dies, or exits behind stop_sessions.
Crash ==
  /\ phase # "down" /\ crashes < MaxCrashes
  /\ crashes' = crashes + 1
  /\ phase' = "down"
  /\ lock' = Nobody /\ mapped' = {} /\ entries' = <<>> /\ victim' = Nobody
  /\ hpc' = [h \in Handlers |-> "idle"] /\ held' = [h \in Handlers |-> Nobody]
  /\ queued' = [s \in Ids |-> 0] /\ run' = [s \in Ids |-> "gone"] /\ answering' = {}
  /\ UNCHANGED <<disk, nextId, told, submitted>>

\* load_sessions lists the directories, last modified first, and takes at
\* most max_sessions of them ...
ListEntries ==
  /\ phase = "down"
  /\ phase' = "loading"
  /\ entries' = IF Len(disk) <= MaxSessions THEN disk ELSE SubSeq(disk, 1, MaxSessions)
  /\ UNCHANGED <<crashes, handlerVars, workVars, lock, mapped, disk, nextId, victim, told>>

\* ... restores each, and enable_persistence rewrites its files.
LoadOne ==
  /\ phase = "loading" /\ entries # <<>>
  /\ mapped' = mapped \cup {Head(entries)}
  /\ run' = [run EXCEPT ![Head(entries)] = "waiting"]
  /\ disk' = Touched(Head(entries))
  /\ entries' = Tail(entries)
  /\ UNCHANGED <<phase, crashes, handlerVars, queued, answering, submitted, lock, nextId, victim, told>>

Serve ==
  /\ phase = "loading" /\ entries = <<>>
  /\ phase' = "up"
  /\ UNCHANGED <<entries, crashes, handlerVars, workVars, lock, mapped, disk, nextId, victim, told>>

Boot == ListEntries \/ LoadOne \/ Serve

-----------------------------------------------------------------------------
Creating(h) == \/ EvictPick(h) \/ EvictRemove(h) \/ Refuse(h)
               \/ Build(h) \/ WriteMeta(h) \/ Insert(h)

Runner(s) == Take(s) \/ Begin(s) \/ End(s) \/ RunnerEnds(s)

Next == \/ \E h \in Handlers : \/ CreateLock(h) \/ Creating(h)
                               \/ Submit(h) \/ Ask(h) \/ Release(h)
                               \/ \E s \in mapped : Lookup(h, s)
        \/ \E s \in Ids : Runner(s) \/ SideEnds(s)
        \/ Crash \/ Boot

Spec == Init /\ [][Next]_vars

\* A request that creates runs to its end, the runners are polled and their
\* runs and answers end (providers and commands have deadlines), the boot goes
\* on.  A socket may stay open for ever.
FairSpec == /\ Spec
            /\ \A h \in Handlers : WF_vars(Creating(h))
            /\ \A s \in Ids : WF_vars(Runner(s)) /\ WF_vars(SideEnds(s))
            /\ WF_vars(Boot)

-----------------------------------------------------------------------------
(* Properties                                                               *)

Places == {"idle", "evicting", "removing", "built", "saved", "holding"}

\* Every variable keeps its type; a victim is chosen only while its
\* removal is pending.
TypeOK ==
  /\ phase \in {"down", "loading", "up"}
  /\ lock \in Handlers \cup {Nobody}
  /\ mapped \subseteq Ids /\ told \subseteq Ids
  /\ disk \in Seq(Ids) /\ entries \in Seq(Ids)
  /\ nextId \in 0..MaxIds
  /\ hpc \in [Handlers -> Places]
  /\ held \in [Handlers -> Ids \cup {Nobody}]
  /\ victim \in Ids \cup {Nobody}
  /\ victim # Nobody <=> \E h \in Handlers : hpc[h] = "removing"
  /\ queued \in [Ids -> 0..QueueCap]
  /\ run \in [Ids -> {"gone", "waiting", "taken", "running"}]
  /\ answering \subseteq Ids
  /\ submitted \in Nat /\ crashes \in Nat

\* However many requests create at once, whatever runs or fails meanwhile and
\* however many directories a boot finds, the map stays within max_sessions.
CapHolds == Cardinality(mapped) <= MaxSessions

\* A session a client has been told of has a directory that a boot can load,
\* after eviction, failures and crashes in any step of create_session too.
ToldIsDurable == told \subseteq ToSet(disk)

\* create_session gives the lock back: the eviction loop ends although runs
\* begin and end while it looks for a victim.
CreateAnswered == \A h \in Handlers : lock = h ~> lock # h

\* A session that was evicted, or not built to its end, and that no handler
\* refers to is freed with what is in its channels, after the run and the
\* answer it may be in: the runners refer to it only weakly.
EvictedIsFreed ==
  \A s \in Ids : (run[s] # "gone" /\ ~Reachable(s)) ~> (run[s] = "gone" /\ s \notin answering)
=============================================================================
