----------------------------- MODULE MCRunOnce ------------------------------
(***************************************************************************)
(* RunOnce for TLC: one user with one instruction.                         *)
(***************************************************************************)
EXTENDS RunOnce

MCCommands == <<"mine">>

\* A run that failed did so by an event behind the replay boundary.  run.rs:
\* "only events after the replay boundary (`hello.seq`) and after our own
\* instruction event count.  That makes re-attaching to a finished session
\* safe."  The match of run_once asks that of the instruction, the tool results
\* and the statuses, and not of an error.
ReplayCountsForNothing ==
  exit = "failed run" /\ breaks = 0 =>
    \E i \in DOMAIN stream : i > baseline /\ stream[i].kind \in {"error", "tool failed"}
=============================================================================
