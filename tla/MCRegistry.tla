----------------------------- MODULE MCRegistry -----------------------------
(***************************************************************************)
(* Registry for TLC: the bounds are in the configurations.  Here is the    *)
(* documented promise that the code does not keep in every case.           *)
(***************************************************************************)
EXTENDS Registry

\* operations.md: "Running sessions are never evicted".  is_busy does not see
\* an instruction that the runner has received and not begun.
RunningNeverEvicted == \A s \in Ids : run[s] = "running" => s \in mapped
=============================================================================
