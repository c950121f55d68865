----------------------------- MODULE MCEventLog -----------------------------
(***************************************************************************)
(* EventLog and its refinement of EventStream for TLC: the bounds are in   *)
(* the configurations.                                                     *)
(***************************************************************************)
EXTENDS EventLogStream
=============================================================================
