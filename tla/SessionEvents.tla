--------------------------- MODULE SessionEvents ----------------------------
(***************************************************************************)
(* The events of one session as the parts that emit them see it: every     *)
(* event gets the next number and is never taken back while the server     *)
(* runs.  EventLog shows that Session::emit keeps this promise, so the     *)
(* modules that only emit and read share this one sequence.                *)
(***************************************************************************)
EXTENDS Naturals, Sequences

VARIABLE events

\* Session::emit: the event's number is its position.
Emit(es) == events' = events \o es

\* Session::seq_now.
Now == Len(events)
=============================================================================
