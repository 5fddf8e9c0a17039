------------------------- MODULE MCExecutorSession -------------------------
(* Small instances of ExecutorSession.  Sizes are in MiB; the write is the *)
(* largest an HTTP body holds.                                             *)
EXTENDS ExecutorSession

CONSTANTS r, w, e

MCOp      == [c \in Call |-> IF c = r THEN "read" ELSE IF c = e THEN "exec" ELSE "write"]
MCSize    == [c \in Call |-> IF c = w THEN 2 ELSE 0]
MCLong    == [c \in Call |-> IF c = e THEN 3 ELSE 0]
=============================================================================
