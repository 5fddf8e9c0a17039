---------------------------- MODULE MCMemoryJobs ----------------------------
(* Small instances of MemoryJobs. *)
EXTENDS MemoryJobs, TLC

CONSTANTS u1, u2

(* Two requests that report the same rollout, one of them another as well. *)
MCUsed      == (u1 :> {1}) @@ (u2 :> {1, 2})
MCNoUsed    == [u \in {} |-> {1}]
MCRetention == {[unused |-> 0, limit |-> 1]}
MCNoRetention == {}
MCCallers   == Permutations(Caller)

(* The behaviours that are followed: those of one rollout without usage,   *)
(* retention and clear, with every command of the jobs, a note and a       *)
(* restart; and those of two rollouts with all of the maintenance, one     *)
(* input and two leases, without a note and a consolidation.               *)
NoMaintenance ==
    /\ jobs[2] = NoJob /\ clears = <<>>
    /\ \A u \in UsageId : receipts[u] = "none"
    /\ \A c \in Caller :
          call[c] = Idle \/ call[c].op \in {"stage1.commit", "phase2.read", "phase2.commit"}

NoConsolidation ==
    /\ \A n \in Note : native[NoteKey(n)] = Absent
    /\ \A j \in Rollout : Exists(j) => jobs[j].input = 1
    /\ \A t \in Tokens : issued[t].job # Global
    /\ Len(issued) <= 2

Followed == NoMaintenance \/ NoConsolidation
=============================================================================
