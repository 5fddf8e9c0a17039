---------------------------- MODULE MCDeployment ----------------------------
(* Small instances of Deployment: p1 and p2 are two packages of one build, *)
(* bad is a package that does not pass verification.                       *)
EXTENDS Deployment

CONSTANTS p1, p2, p3, bad

MCBuildOf == [p \in Package |-> IF p = p3 \/ p = bad THEN 2 ELSE 1]

(* The two commands share no file and no variable: the installs are        *)
(* explored beside an rca that was never updated, the updates beside an    *)
(* empty root.                                                             *)
Beside ==
    \/ ran = {program} /\ incoming = None /\ \A u \in Updater : updater[u] = Over
    \/ tree \in [Build -> {NoTree}] /\ link = None /\ \A i \in Installer : installer[i] = Done
=============================================================================
