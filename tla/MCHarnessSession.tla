-------------------------- MODULE MCHarnessSession --------------------------
(* Two claude sessions and a codex session on one home. *)
EXTENDS HarnessSession

CONSTANTS s1, s2, x1

MCEngine == [s \in Session |-> IF s = x1 THEN "codex" ELSE "claude"]
=============================================================================
