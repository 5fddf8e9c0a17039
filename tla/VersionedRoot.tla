--------------------------- MODULE VersionedRoot ---------------------------
(* What InstallCodex promises of its root: a build appears whole, from a   *)
(* package that passed verification, stays as it is from then on, and      *)
(* `current` only ever moves to a build that is there.  A build can also   *)
(* be spoiled, for good, and nothing is promised of it any more.           *)

CONSTANTS Build, Sound, None, Spoiled

VARIABLES builds, current

VInit ==
    /\ builds = [b \in Build |-> None]
    /\ current = None

Install(b, p) ==
    /\ builds[b] = None
    /\ builds' = [builds EXCEPT ![b] = p]
    /\ UNCHANGED current

Point(b) ==
    /\ builds[b] # None
    /\ current' = b
    /\ UNCHANGED builds

Spoil(b) ==
    /\ builds' = [builds EXCEPT ![b] = Spoiled]
    /\ UNCHANGED current

VNext == \E b \in Build : Point(b) \/ Spoil(b) \/ \E p \in Sound : Install(b, p)

VSpec == VInit /\ [][VNext]_<<builds, current>>
=============================================================================
