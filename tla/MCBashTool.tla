----------------------------- MODULE MCBashTool -----------------------------
(***************************************************************************)
(* BashTool for TLC: plain text on stdout, characters of two bytes on      *)
(* stderr.                                                                 *)
(***************************************************************************)
EXTENDS BashTool

MCWidth == [s \in Streams |-> IF s = "stdout" THEN 1 ELSE 2]
MCWrites == [s \in Streams |-> IF s = "stdout" THEN 1 ELSE 4]
=============================================================================
