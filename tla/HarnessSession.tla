--------------------------- MODULE HarnessSession ---------------------------
(***************************************************************************)
(* The life of a session, `rca claude` or `rca codex`: it claims the       *)
(* runtime home (runtimehome.Prepare), seeds a credential, opens the       *)
(* store, serves it, starts the harness and takes everything down again    *)
(* (Run in claudenative/run.go and codexnative/run.go), while operators    *)
(* start other sessions on the same home and store, signals arrive at any  *)
(* moment and calls fail.                                                  *)
(***************************************************************************)
EXTENDS Naturals, FiniteSets

CONSTANTS
    Session,    \* the processes operators start; each may be started again
    Engine,     \* "claude" or "codex", for each of them
    Faults,     \* what befalls a session: subset of {"term", "kill", "hang"}
    None

ASSUME SessionAssumption ==
    /\ Engine \in [Session -> {"claude", "codex"}]
    /\ Faults \subseteq {"term", "kill", "hang"}
    /\ None \notin Session \cup {"claude", "codex"}

VARIABLES
    at,         \* where Run of each session is
    pending,    \* is there a signal in its channel?
    seeded,     \* will it remove the credential?
    harness,    \* its child: "none", "alive" or "gone"
    home,       \* is the runtime home non-empty?
    marker,     \* the engine in <home>/.rca-native
    lock,       \* the session that holds <home>/.lock
    store,      \* the session that holds the lock of the state root
    credential, \* .credentials.json: "absent", "operator", "seeded" or "late",
                \* written by somebody else while a session holds the home
    orphan,     \* a harness runs whose session is dead
    killed      \* history: a session died of SIGKILL, SIGHUP or the like

process == <<at, pending, seeded, harness>>
disk    == <<home, marker, lock, store, credential>>
history == <<orphan, killed>>
vars    == <<process, disk, history>>

Init ==
    /\ at = [s \in Session |-> "off"]
    /\ pending = [s \in Session |-> FALSE]
    /\ seeded = [s \in Session |-> FALSE]
    /\ harness = [s \in Session |-> "none"]
    /\ home = FALSE /\ marker = None /\ lock = None /\ store = None
    /\ credential \in {"absent", "operator"}
    /\ orphan = FALSE /\ killed = FALSE

Goto(s, phase) == at' = [at EXCEPT ![s] = phase]

-----------------------------------------------------------------------------
(* Startup *)

Launch(s) ==
    /\ at[s] = "off"
    /\ Goto(s, "read")
    /\ UNCHANGED <<pending, seeded, harness, disk, history>>

(* Prepare looks before it locks. *)
ReadHome(s) ==
    /\ at[s] = "read"
    /\ Goto(s, IF home /\ marker # Engine[s] THEN "off" ELSE "lock")
    /\ UNCHANGED <<pending, seeded, harness, disk, history>>

(* Faulty variant: a lock that is taken does not end Prepare. *)
LockHomeBlindly(s) ==
    /\ at[s] = "lock"
    /\ home' = TRUE /\ lock' = s
    /\ Goto(s, "mark")
    /\ UNCHANGED <<pending, seeded, harness, marker, store, credential, history>>

LockHome(s) ==
    /\ at[s] = "lock"
    /\ home' = TRUE
    /\ lock' = IF lock = None THEN s ELSE lock
    /\ Goto(s, IF lock = None THEN "mark" ELSE "off")
    /\ UNCHANGED <<pending, seeded, harness, marker, store, credential, history>>

(* The claude engine looks for a credential next, unless there is a key in *)
(* the environment; the codex engine has none.                             *)
MarkHome(s) ==
    /\ at[s] = "mark"
    /\ marker' = Engine[s]
    /\ \E phase \in IF Engine[s] = "claude" THEN {"stat", "open"} ELSE {"open"} : Goto(s, phase)
    /\ UNCHANGED <<pending, seeded, harness, home, lock, store, credential, history>>

(* Faulty variant: the operator's credential is overwritten. *)
StatCredentialIgnored(s) ==
    /\ at[s] = "stat"
    /\ Goto(s, "seed")
    /\ UNCHANGED <<pending, seeded, harness, disk, history>>

StatCredential(s) ==
    /\ at[s] = "stat"
    /\ Goto(s, IF credential = "absent" THEN "seed" ELSE "open")
    /\ UNCHANGED <<pending, seeded, harness, disk, history>>

SeedCredential(s) ==
    /\ at[s] = "seed"
    /\ credential' = "seeded"
    /\ seeded' = [seeded EXCEPT ![s] = TRUE]
    /\ Goto(s, "open")
    /\ UNCHANGED <<pending, harness, home, marker, lock, store, history>>

(* The store has a lock of its own (store.go:98). *)
OpenStore(s) ==
    /\ at[s] = "open"
    /\ store' = IF store = None THEN s ELSE store
    /\ Goto(s, IF store = None THEN "serve" ELSE "close")
    /\ UNCHANGED <<pending, seeded, harness, home, marker, lock, credential, history>>

(* The listener, the tokens, the executor and its handshake, the HTTP      *)
(* server and the files of the harness.                                    *)
Serve(s) ==
    /\ at[s] = "serve"
    /\ Goto(s, "notify")
    /\ UNCHANGED <<pending, seeded, harness, disk, history>>

Notify(s) ==
    /\ at[s] = "notify"
    /\ Goto(s, "start")
    /\ UNCHANGED <<pending, seeded, harness, disk, history>>

StartHarness(s) ==
    /\ at[s] = "start"
    /\ harness' = [harness EXCEPT ![s] = "alive"]
    /\ Goto(s, "run")
    /\ UNCHANGED <<pending, seeded, disk, history>>

(* A call fails; what has been deferred so far is still to be done.  A     *)
(* credential that could not be written to its end is not removed.         *)
FailStartup(s) ==
    /\ at[s] \in {"mark", "stat", "seed", "open", "serve", "notify", "start"}
    /\ credential' \in {credential} \cup (IF at[s] = "seed" THEN {"seeded"} ELSE {})
    /\ Goto(s, IF at[s] = "start" THEN "unnotify" ELSE "close")
    /\ UNCHANGED <<pending, seeded, harness, home, marker, lock, store, history>>

-----------------------------------------------------------------------------
(* The session and its end *)

(* The select loop has three ways out.  The harness ends; of codex it is   *)
(* the driver, which may end while the harness runs.                       *)
HarnessDone(s) ==
    /\ at[s] = "run"
    /\ Engine[s] = "claude" => harness[s] = "gone"
    /\ Goto(s, "await")
    /\ UNCHANGED <<pending, seeded, harness, disk, history>>

(* Faulty variant: a signal is passed on, but the loop goes on. *)
CatchSignalAndGoOn(s) ==
    /\ at[s] = "run" /\ pending[s]
    /\ pending' = [pending EXCEPT ![s] = FALSE]
    /\ UNCHANGED <<at, seeded, harness, disk, history>>

(* A signal is passed on to the harness. *)
CatchSignal(s) ==
    /\ at[s] = "run" /\ pending[s]
    /\ pending' = [pending EXCEPT ![s] = FALSE]
    /\ Goto(s, "await")
    /\ UNCHANGED <<seeded, harness, disk, history>>

(* The HTTP server stops serving, because its listener fails. *)
ServerStops(s) ==
    /\ at[s] = "run"
    /\ Goto(s, "await")
    /\ UNCHANGED <<pending, seeded, harness, disk, history>>

(* codex: three seconds, then SIGKILL; claude: as long as it takes. *)
AwaitHarness(s) ==
    /\ at[s] = "await"
    /\ harness[s] = "gone" \/ Engine[s] = "codex"
    /\ harness' = [harness EXCEPT ![s] = "gone"]
    /\ Goto(s, "unnotify")
    /\ UNCHANGED <<pending, seeded, disk, history>>

(* signal.Stop, and the server and, of claude, the executor's client are   *)
(* closed: of ExecutorSession it is known what may keep Client.Close.      *)
StopNotify(s) ==
    /\ at[s] = "unnotify"
    /\ pending' = [pending EXCEPT ![s] = FALSE]
    /\ \E phase \in {"close"} \cup (IF "hang" \in Faults /\ Engine[s] = "claude"
                                     THEN {"hung"} ELSE {}) : Goto(s, phase)
    /\ UNCHANGED <<seeded, harness, disk, history>>

ClientCloses(s) ==
    /\ at[s] = "hung"
    /\ Goto(s, "close")
    /\ UNCHANGED <<pending, seeded, harness, disk, history>>

CloseStore(s) ==
    /\ at[s] = "close"
    /\ store' = IF store = s THEN None ELSE store
    /\ Goto(s, "remove")
    /\ UNCHANGED <<pending, seeded, harness, home, marker, lock, credential, history>>

RemoveCredential(s) ==
    /\ at[s] = "remove"
    /\ credential' = IF seeded[s] THEN "absent" ELSE credential
    /\ seeded' = [seeded EXCEPT ![s] = FALSE]
    /\ Goto(s, "unlock")
    /\ UNCHANGED <<pending, harness, home, marker, lock, store, history>>

(* What is found there by the next session is the operator's. *)
Kept == IF credential = "late" THEN "operator" ELSE credential

Unlock(s) ==
    /\ at[s] = "unlock"
    /\ lock' = None
    /\ credential' = Kept
    /\ harness' = [harness EXCEPT ![s] = "none"]
    /\ Goto(s, "off")
    /\ UNCHANGED <<pending, seeded, home, marker, store, history>>

-----------------------------------------------------------------------------
(* The environment *)

HarnessExits(s) ==
    /\ harness[s] = "alive"
    /\ harness' = [harness EXCEPT ![s] = "gone"]
    /\ UNCHANGED <<at, pending, seeded, disk, history>>

(* The kernel closes the files of a dead process, and with them its locks, *)
(* which its children have not inherited.                                  *)
Dies(s) ==
    /\ Goto(s, "off")
    /\ pending' = [pending EXCEPT ![s] = FALSE]
    /\ seeded' = [seeded EXCEPT ![s] = FALSE]
    /\ harness' = [harness EXCEPT ![s] = "none"]
    /\ lock' = IF lock = s THEN None ELSE lock
    /\ store' = IF store = s THEN None ELSE store
    /\ credential' = IF lock = s THEN Kept ELSE credential
    /\ orphan' = (orphan \/ harness[s] = "alive")
    /\ UNCHANGED <<home, marker>>

(* Faulty variant: signals are not caught while the harness is awaited. *)
NotifiedInLoop(s) == at[s] \in {"start", "run"}

Notified(s) == at[s] \in {"start", "run", "await", "unnotify"}

(* SIGINT or SIGTERM. *)
Terminate(s) ==
    /\ "term" \in Faults /\ at[s] # "off"
    /\ IF Notified(s)
       THEN /\ pending' = [pending EXCEPT ![s] = TRUE]
            /\ UNCHANGED <<at, seeded, harness, disk, history>>
       ELSE Dies(s) /\ UNCHANGED killed

(* SIGKILL, or SIGHUP, which nobody asks to be notified of. *)
Kill(s) ==
    /\ "kill" \in Faults /\ at[s] # "off"
    /\ Dies(s)
    /\ killed' = TRUE

OrphanExits ==
    /\ orphan
    /\ orphan' = FALSE
    /\ UNCHANGED <<process, disk, killed>>

(* The operator, or a harness that renews its token, writes the file.  A   *)
(* session that runs may have seen that there was none, and may write over *)
(* it or remove it: os.Stat, os.WriteFile and os.Remove are three steps.   *)
OperatorLogsIn ==
    /\ credential' = IF lock = None \/ credential = "operator" THEN "operator" ELSE "late"
    /\ UNCHANGED <<process, home, marker, lock, store, history>>

Startup(s) ==
    \/ Launch(s) \/ ReadHome(s) \/ LockHome(s) \/ MarkHome(s)
    \/ StatCredential(s) \/ SeedCredential(s)
    \/ OpenStore(s) \/ Serve(s) \/ Notify(s) \/ FailStartup(s)

(* What a session does without waiting for anybody, once it catches        *)
(* signals: none of it is a call that may hang.                            *)
Step(s) ==
    \/ StartHarness(s) \/ CatchSignal(s) \/ AwaitHarness(s) \/ StopNotify(s)
    \/ CloseStore(s) \/ RemoveCredential(s) \/ Unlock(s)

Next ==
    \/ \E s \in Session :
           \/ Startup(s) \/ Step(s) \/ HarnessDone(s) \/ ServerStops(s) \/ ClientCloses(s)
           \/ HarnessExits(s) \/ Terminate(s) \/ Kill(s)
    \/ OrphanExits \/ OperatorLogsIn

Spec == Init /\ [][Next]_vars

(* A running process goes on.  Nothing makes a harness, a driver or a      *)
(* server end, a startup get on or a hanging Client.Close come back.       *)
FairSpec == Spec /\ \A s \in Session : WF_vars(Step(s))

-----------------------------------------------------------------------------
(* Properties *)

Phases == {"off", "read", "lock", "mark", "stat", "seed", "open", "serve", "notify", "start",
           "run", "await", "unnotify", "hung", "close", "remove", "unlock"}

TypeOK ==
    /\ at \in [Session -> Phases]
    /\ pending \in [Session -> BOOLEAN] /\ seeded \in [Session -> BOOLEAN]
    /\ harness \in [Session -> {"none", "alive", "gone"}]
    /\ home \in BOOLEAN /\ marker \in {"claude", "codex", None}
    /\ {lock, store} \subseteq Session \cup {None}
    /\ credential \in {"absent", "operator", "seeded", "late"}
    /\ orphan \in BOOLEAN /\ killed \in BOOLEAN

(* A harness runs in a home its session has locked and marked as its own,  *)
(* with the store open: two sessions never drive harnesses on one home     *)
(* (runtimehome.go:17-24), however their startups and deaths interleave.   *)
HarnessOwnsItsHome ==
    \A s \in Session : harness[s] = "alive" => lock = s /\ store = s /\ marker = Engine[s]

(* SIGINT and SIGTERM, at whatever moment, leave no harness behind without *)
(* the lock of its home: the session catches them from before cmd.Start    *)
(* until the harness has been waited for.                                  *)
SignalsLeaveNoOrphan == orphan => killed

(* A credential that was there when a session took the home survives it,   *)
(* however it ends (credentials.go:42-44).  One that is written while a    *)
(* session runs need not: it is the operator's once the home is free.      *)
OperatorKeepsCredential ==
    [][credential = "operator" => credential' = "operator"]_vars

(* A signal that is caught ends the session, with nothing else to end it.  *)
(* Two exceptions are claude's: a harness that does not care for the       *)
(* signal, for which the session waits without a limit, and a Client.Close *)
(* that hangs, which the next signal ends.                                 *)
SignalEndsSession ==
    \A s \in Session :
        pending[s] ~> \/ at[s] = "off"
                      \/ Engine[s] = "claude" /\ at[s] = "await" /\ harness[s] = "alive"
                      \/ at[s] = "hung"

=============================================================================
