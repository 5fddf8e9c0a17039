---------------------------- MODULE ReceiptStore ----------------------------
(***************************************************************************)
(* What the trusted store promises its callers (store.go:68-70): every     *)
(* request_id is evaluated at most once, atomically, against the state     *)
(* left by the requests before it, and every answer given for it is the    *)
(* receipt of that one evaluation.  There is no journal, no process and no *)
(* failure here; JournalStore is shown to implement this.                  *)
(***************************************************************************)
EXTENDS StoreSemantics

VARIABLES
    state,      \* the committed state
    acked       \* the receipt last returned for each request_id

absVars == <<state, acked>>

AInit ==
    /\ state = EmptyState
    /\ acked = [i \in Id |-> NoRecord]

Commit(q) ==
    /\ state.receipts[q.id] = NoRecord
    /\ state' = Apply(state, NewRecord(state, q))
    /\ UNCHANGED acked

Answer(i) ==
    /\ state.receipts[i] # NoRecord
    /\ acked' = [acked EXCEPT ![i] = state.receipts[i]]
    /\ UNCHANGED state

ANext ==
    \/ \E q \in Request : Commit(q)
    \/ \E i \in Id : Answer(i)

ASpec == AInit /\ [][ANext]_absVars
=============================================================================
