--------------------------- MODULE MCJournalStore ---------------------------
(* Constants for the runs of JournalStore. *)
EXTENDS JournalStore

CONSTANTS i1, i2, i3, o1, n1, a, b, x

V1(i, op, exp, c) ==
    [proto |-> "v1", id |-> i, op |-> op, obj |-> o1, exp |-> exp, content |-> c]

V2(i, op, intent, exp, c) ==
    [proto |-> "v2", id |-> i, op |-> op, intent |-> intent,
     changes |-> [k \in {n1} |-> [exp |-> exp, deleted |-> c = NoContent, content |-> c]]]

(* Every id can be used for a create, an update that may be stale, a       *)
(* delete, a note and a maintenance call whose changes depend on when it   *)
(* was computed.                                                           *)
MCRequests ==
    UNION {{V1(i, "put", 0, a), V1(i, "put", 1, b), V1(i, "put", 2, a),
            V1(i, "delete", 1, NoContent),
            V2(i, "memory.note.create", NoIntent, 0, a),
            V2(i, "memory.retention", x, 0, b),
            V2(i, "memory.retention", x, 1, NoContent)} : i \in Id}

(* Two ids and three requests: enough for a retry with other arguments.    *)
MCFewRequests ==
    {V1(i1, "put", 0, a), V1(i2, "put", 0, b), V2(i2, "memory.retention", x, 0, b)}
=============================================================================
