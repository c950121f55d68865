-------------------------- MODULE EventLogStream ---------------------------
(***************************************************************************)
(* EventLog with the history it has published, and the claim that it is an *)
(* EventStream: what connections show is always a stretch of one stream    *)
(* that crashes do not shorten or rewrite, provided the disk works.        *)
(***************************************************************************)
EXTENDS EventLog

ASSUME RestoreAssumption == RestoreEvents <= LogCap

VARIABLE published   \* history variable: the messages made public, in order

\* The messages of the newest n events of the log.
NewestMessages(n) == [i \in 1..n |-> log[Len(log) - n + i].msg]

\* An event is public once append_event is through with it; the events that
\* restore adds are public once the file holds them.
Publication ==
  published' =
    IF phase = "up" /\ phase' = "up" /\ \E e \in Emitters : pc[e] = "append" /\ pc'[e] # "append"
    THEN Append(published, env[emitLock].msg)
    ELSE IF phase = "opened" /\ phase' = "up"
    THEN published \o NewestMessages(seq - Len(published))
    ELSE published

HInit == Init /\ published = <<>>
HNext == Next /\ Publication
HSpec == HInit /\ [][HNext]_<<vars, published>>

Stream == INSTANCE EventStream WITH stream <- published

\* Refinement: the emission pipeline, with its lock, its bounded log, its
\* rotated file and its restarts, is an append-only stream of which every
\* connection shows a contiguous stretch (Session::emit, subscribe, restore).
IsAStream == Stream!Spec
=============================================================================
