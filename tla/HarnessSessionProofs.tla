------------------------ MODULE HarnessSessionProofs ------------------------
(* What holds of HarnessSession for any number of sessions and any faults. *)
EXTENDS HarnessSession, TLAPS

(* Where a session has the lock of its home, the marker and the store. *)
Locked == {"mark", "stat", "seed", "open", "serve", "notify", "start", "run", "await",
           "unnotify", "hung", "close", "remove", "unlock"}
Opened == {"serve", "notify", "start", "run", "await", "unnotify", "hung"}
Marked == {"stat", "seed", "open"} \cup Opened

LockInv == \A s \in Session : lock = s <=> at[s] \in Locked

StoreInv ==
    \A s \in Session :
        /\ at[s] \in Opened => store = s
        /\ store = s => at[s] \in Opened \cup {"close"}

MarkInv == \A s \in Session : at[s] \in Marked => marker = Engine[s]

HarnessInv == \A s \in Session : harness[s] = "alive" => at[s] \in {"run", "await"}

(* A session that will remove the credential is the one that seeded it,    *)
(* and nothing was there when it took the home.                            *)
CredentialInv ==
    \A s \in Session :
        /\ at[s] = "seed" => credential \in {"absent", "late"}
        /\ seeded[s] => /\ credential \in {"seeded", "late"}
                        /\ at[s] \in Locked \ {"unlock"}

SessionInv ==
    /\ TypeOK
    /\ LockInv
    /\ StoreInv
    /\ MarkInv
    /\ HarnessInv
    /\ CredentialInv
    /\ SignalsLeaveNoOrphan

(* The inductive invariant holds before the first session starts, *)
LEMMA InitEstablishes == Init => SessionInv
<1> SUFFICES ASSUME Init PROVE SessionInv
  OBVIOUS
<1>1. /\ at = [s \in Session |-> "off"] /\ harness = [s \in Session |-> "none"]
      /\ seeded = [s \in Session |-> FALSE] /\ pending = [s \in Session |-> FALSE]
  BY DEF Init
<1>2. \A s \in Session : /\ at[s] = "off" /\ harness[s] = "none" /\ seeded[s] = FALSE
                         /\ lock # s /\ store # s
  <2>1. lock = None /\ store = None /\ None \notin Session
    BY SessionAssumption DEF Init
  <2> QED
    BY <1>1, <2>1
<1>3. TypeOK
  BY <1>1 DEF Init, TypeOK, Phases
<1>4. "off" \notin Locked /\ "off" \notin Opened /\ "off" \notin Marked
  BY DEF Locked, Opened, Marked
<1>5. LockInv /\ StoreInv /\ MarkInv
  BY <1>2, <1>4 DEF LockInv, StoreInv, MarkInv
<1>6. HarnessInv /\ CredentialInv
  BY <1>2 DEF HarnessInv, CredentialInv
<1>7. SignalsLeaveNoOrphan
  BY DEF Init, SignalsLeaveNoOrphan
<1> QED
  BY <1>3, <1>5, <1>6, <1>7 DEF SessionInv

(* and every step of a session, a signal or an operator keeps it. *)
LEMMA StepPreserves == SessionInv /\ [Next]_vars => SessionInv'
<1> SUFFICES ASSUME SessionInv, [Next]_vars PROVE SessionInv'
    OBVIOUS
<1> USE SessionAssumption DEF SessionInv, TypeOK, Phases, LockInv, StoreInv, MarkInv,
    HarnessInv, CredentialInv, SignalsLeaveNoOrphan, Locked, Opened, Marked, Goto,
    process, disk, history
<1>1. ASSUME NEW s \in Session, Launch(s) PROVE SessionInv'
    BY <1>1 DEF Launch
<1>2. ASSUME NEW s \in Session, ReadHome(s) PROVE SessionInv'
    BY <1>2 DEF ReadHome
<1>3. ASSUME NEW s \in Session, LockHome(s) PROVE SessionInv'
    BY <1>3 DEF LockHome
<1>4. ASSUME NEW s \in Session, MarkHome(s) PROVE SessionInv'
    BY <1>4 DEF MarkHome
<1>5. ASSUME NEW s \in Session, StatCredential(s) PROVE SessionInv'
    BY <1>5 DEF StatCredential
<1>6. ASSUME NEW s \in Session, SeedCredential(s) PROVE SessionInv'
    BY <1>6 DEF SeedCredential
<1>7. ASSUME NEW s \in Session, OpenStore(s) PROVE SessionInv'
    BY <1>7 DEF OpenStore
<1>8. ASSUME NEW s \in Session, Serve(s) PROVE SessionInv'
    BY <1>8 DEF Serve
<1>9. ASSUME NEW s \in Session, Notify(s) PROVE SessionInv'
    BY <1>9 DEF Notify
<1>10. ASSUME NEW s \in Session, StartHarness(s) PROVE SessionInv'
    BY <1>10 DEF StartHarness
<1>11. ASSUME NEW s \in Session, HarnessDone(s) \/ CatchSignal(s) \/ ServerStops(s)
       PROVE  SessionInv'
    <2>1. /\ at[s] = "run" /\ at' = [at EXCEPT ![s] = "await"]
          /\ pending' \in [Session -> BOOLEAN]
          /\ UNCHANGED <<seeded, harness, disk, history>>
        BY <1>11 DEF HarnessDone, CatchSignal, ServerStops
    <2> QED
        BY <2>1
<1>12. ASSUME NEW s \in Session, AwaitHarness(s) PROVE SessionInv'
    BY <1>12 DEF AwaitHarness
<1>13. ASSUME NEW s \in Session, StopNotify(s) \/ ClientCloses(s) PROVE SessionInv'
    <2>1. PICK phase \in {"close", "hung"} :
              /\ at[s] \in {"unnotify", "hung"} /\ at' = [at EXCEPT ![s] = phase]
              /\ pending' \in [Session -> BOOLEAN]
              /\ UNCHANGED <<seeded, harness, disk, history>>
        <3>1. CASE StopNotify(s)
            BY <3>1 DEF StopNotify
        <3>2. CASE ClientCloses(s)
            BY <3>2 DEF ClientCloses
        <3> QED
            BY <1>13, <3>1, <3>2
    <2> QED
        BY <2>1
<1>14. ASSUME NEW s \in Session, CloseStore(s) PROVE SessionInv'
    BY <1>14 DEF CloseStore
<1>15. ASSUME NEW s \in Session, RemoveCredential(s) PROVE SessionInv'
    BY <1>15 DEF RemoveCredential
<1>16. ASSUME NEW s \in Session, Unlock(s) PROVE SessionInv'
    BY <1>16 DEF Unlock, Kept
<1>17. ASSUME NEW s \in Session, FailStartup(s) PROVE SessionInv'
    BY <1>17 DEF FailStartup
<1>18. ASSUME NEW s \in Session, HarnessExits(s) PROVE SessionInv'
    BY <1>18 DEF HarnessExits
<1>19. ASSUME NEW s \in Session, Terminate(s) PROVE SessionInv'
    <2>1. CASE Notified(s)
        <3>1. /\ pending' = [pending EXCEPT ![s] = TRUE]
              /\ UNCHANGED <<at, seeded, harness, disk, history>>
            BY <1>19, <2>1 DEF Terminate
        <3> QED
            BY <3>1
    <2>2. CASE ~Notified(s)
        <3>1. Dies(s) /\ UNCHANGED killed
            BY <1>19, <2>2 DEF Terminate
        <3>2. harness[s] # "alive"
            BY <1>19, <2>2 DEF Notified
        <3> QED
            BY <3>1, <3>2 DEF Dies, Kept
    <2> QED
        BY <2>1, <2>2
<1>20. ASSUME NEW s \in Session, Kill(s) PROVE SessionInv'
    BY <1>20 DEF Kill, Dies, Kept
<1>21. ASSUME OrphanExits PROVE SessionInv'
    BY <1>21 DEF OrphanExits
<1>22. ASSUME OperatorLogsIn PROVE SessionInv'
    BY <1>22 DEF OperatorLogsIn
<1>23. ASSUME UNCHANGED vars PROVE SessionInv'
    BY <1>23 DEF vars
<1> QED
    BY <1>1, <1>2, <1>3, <1>4, <1>5, <1>6, <1>7, <1>8, <1>9, <1>10, <1>11, <1>12, <1>13, <1>14, <1>15, <1>16, <1>17, <1>18, <1>19, <1>20, <1>21, <1>22, <1>23
       DEF Next, Startup, Step

(* The type invariant, for any number of sessions. *)
THEOREM TypeCorrect == Spec => []TypeOK
<1>1. SessionInv => TypeOK
    BY DEF SessionInv
<1> QED
    BY <1>1, InitEstablishes, StepPreserves, PTL DEF Spec

(* A harness only ever runs in a home that its session has locked and      *)
(* marked, with the store open: Prepare's three steps and the two locks    *)
(* are enough, in whatever order sessions start, fail and die.             *)
THEOREM HarnessUnderLock == Spec => []HarnessOwnsItsHome
<1>1. SessionInv => HarnessOwnsItsHome
    <2> SUFFICES ASSUME SessionInv, NEW s \in Session, harness[s] = "alive"
                 PROVE  lock = s /\ store = s /\ marker = Engine[s]
        BY DEF HarnessOwnsItsHome
    <2>1. at[s] \in {"run", "await"}
        BY DEF SessionInv, HarnessInv
    <2> QED
        BY <2>1 DEF SessionInv, LockInv, StoreInv, MarkInv, Locked, Opened, Marked
<1> QED
    BY <1>1, InitEstablishes, StepPreserves, PTL DEF Spec

(* SIGINT and SIGTERM leave no harness behind: it takes a signal that the  *)
(* session cannot catch, or does not.                                      *)
THEOREM NoOrphanBySignal == Spec => []SignalsLeaveNoOrphan
<1>1. SessionInv => SignalsLeaveNoOrphan
    BY DEF SessionInv
<1> QED
    BY <1>1, InitEstablishes, StepPreserves, PTL DEF Spec

(* No step writes over, or removes, the credential of the operator: what   *)
(* a session seeds it seeds where there was none when it took the home,    *)
(* and what it removes it has seeded, or was written since.                *)
THEOREM CredentialKept == Spec => OperatorKeepsCredential
<1>1. SessionInv /\ [Next]_vars => [credential = "operator" => credential' = "operator"]_vars
    <2> SUFFICES ASSUME SessionInv, [Next]_vars, credential = "operator"
                 PROVE  credential' = "operator"
        OBVIOUS
    <2> USE DEF SessionInv, CredentialInv, disk
    <2>1. ASSUME NEW s \in Session, SeedCredential(s) PROVE FALSE
        BY <2>1 DEF SeedCredential
    <2>2. ASSUME NEW s \in Session, RemoveCredential(s) PROVE credential' = "operator"
        BY <2>2 DEF RemoveCredential
    <2>3. ASSUME NEW s \in Session, FailStartup(s) PROVE credential' = "operator"
        BY <2>3 DEF FailStartup
    <2>4. ASSUME NEW s \in Session, Terminate(s) \/ Kill(s) PROVE credential' = "operator"
        BY <2>4 DEF Terminate, Kill, Dies, Kept
    <2>5. ASSUME NEW s \in Session,
                 \/ Launch(s) \/ ReadHome(s) \/ LockHome(s) \/ MarkHome(s) \/ StatCredential(s)
                 \/ OpenStore(s) \/ Serve(s) \/ Notify(s) \/ StartHarness(s) \/ HarnessDone(s)
                 \/ CatchSignal(s) \/ ServerStops(s) \/ ClientCloses(s)
                 \/ AwaitHarness(s) \/ StopNotify(s) \/ CloseStore(s) \/ Unlock(s)
                 \/ HarnessExits(s)
          PROVE  credential' = "operator"
        BY <2>5 DEF Launch, ReadHome, LockHome, MarkHome, StatCredential, OpenStore, Serve,
            Notify, StartHarness, HarnessDone, CatchSignal, ServerStops, ClientCloses,
            AwaitHarness, StopNotify, CloseStore, Unlock, Kept, HarnessExits
    <2>6. ASSUME OrphanExits \/ OperatorLogsIn \/ UNCHANGED vars PROVE credential' = "operator"
        BY <2>6 DEF OrphanExits, OperatorLogsIn, vars
    <2> QED
        BY <2>1, <2>2, <2>3, <2>4, <2>5, <2>6 DEF Next, Startup, Step
<1> QED
    BY <1>1, InitEstablishes, StepPreserves, PTL DEF Spec, OperatorKeepsCredential
=============================================================================
