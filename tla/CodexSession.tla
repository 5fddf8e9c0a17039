---------------------------- MODULE CodexSession ----------------------------
(***************************************************************************)
(* One codex session: internal/codexnative.  Run starts a codex app-server *)
(* and drives it over its standard input and output, with calls that prove *)
(* what the server will run the model with before a turn is started.  The  *)
(* server's tools meanwhile use the store's native HTTP endpoint, whose    *)
(* writes are bound to the thread the server has started.                  *)
(***************************************************************************)
EXTENDS Integers, Sequences, FiniteSets

CONSTANTS
    ServerId,    \* ids the server gives its own requests, chosen as it likes
    PipeMax,     \* messages a pipe holds before a write to it blocks
    MaxServing,  \* bound on native HTTP requests at a time
    None

ASSUME CodexAssumption ==
    /\ PipeMax \in Nat \ {0} /\ MaxServing \in Nat
    /\ None \notin {"completed", "failed"}

VARIABLES
    driver,    \* driveNativeSession: [call, phase, asked, turn, expired]
    run,       \* Run's main goroutine: [phase, result]
    reader,    \* the goroutine that reads: the message it offers, or Eof
    toServer,  \* the pipe of the server's standard input
    toDriver,  \* the pipe of its standard output
    server,    \* [alive, local, exact, pending, turn, unasked, refused]
    service,   \* nativeService: [bound, subject, serving]
    written    \* notes and packages committed by native requests: [op, thread]

vars == <<driver, run, reader, toServer, toDriver, server, service, written>>

-----------------------------------------------------------------------------
(* The calls, in their order; the id of each is its place.  After the last *)
(* the driver waits for the turn.                                          *)

Calls == <<"initialize", "third-party", "local", "thread/start", "mcpServerStatus/list",
           "turn/start">>
Waiting == Len(Calls) + 1

Eof == [kind |-> "eof", id |-> None, result |-> None]

(* Faulty variant: any error of environment/info excludes the environment. *)
AnyErrorExcludes ==
    <<{"ok", "null"}, {"ok", "null"}, {"unknown", "error"}, {"ok"}, {"ok"}, {"ok", "null"}>>

(* The results a call goes on with: environment/info must not know the     *)
(* environment "local", the thread must have an id, and the inventory must *)
(* be the eight tools of rca_state and nothing else.                       *)
Expected == <<{"ok", "null"}, {"ok", "null"}, {"unknown"}, {"ok"}, {"ok"}, {"ok", "null"}>>

Thread == "thread"
Subjects(thread) ==
    [model_tool |-> thread, background |-> "background", installer |-> "host"]
Roles == DOMAIN Subjects(None)

-----------------------------------------------------------------------------
(* The driver *)

Stop(result) == driver' = [driver EXCEPT !.phase = "stopped", !.turn = result]

(* Encode on the server's input: it waits for room in the pipe, fails when *)
(* the server is gone or Run has closed the pipe, and minds no timeout.    *)
Write(message, next) ==
    /\ IF server.alive /\ run.phase = "running"
       THEN /\ Len(toServer) < PipeMax
            /\ toServer' = Append(toServer, message)
            /\ driver' = next
       ELSE Stop("failed") /\ UNCHANGED toServer
    /\ UNCHANGED <<run, reader, toDriver, server, service, written>>

NextCall(d) == [d EXCEPT !.call = @ + 1, !.phase = "send"]

DriverSends ==
    /\ driver.phase = "send"
    /\ Write([kind |-> "call", id |-> driver.call], [driver EXCEPT !.phase = "await"])

DriverInitialized ==
    /\ driver.phase = "initialized"
    /\ Write([kind |-> "initialized", id |-> None], NextCall(driver))

(* handle: a request of the server is refused, whatever it asks. *)
DriverRefuses ==
    /\ driver.phase = "refuse"
    /\ Write([kind |-> "refusal", id |-> driver.asked],
             [driver EXCEPT !.phase = "await", !.asked = None])

(* Faulty variant: the id alone tells a response. *)
AnswersById(m) == m.id = driver.call

(* A message answers the outstanding call: its id, and no method. *)
Answers(m) == m.kind = "response" /\ m.id = driver.call

(* call's return, and what driveNativeSession does next. *)
Proceed(m) ==
    IF m.result \notin Expected[driver.call]
    THEN Stop("failed")
    ELSE driver' =
           CASE Calls[driver.call] = "initialize" -> [driver EXCEPT !.phase = "initialized"]
             [] Calls[driver.call] = "thread/start" -> [driver EXCEPT !.phase = "bind"]
             [] Calls[driver.call] = "turn/start" ->
                  [driver EXCEPT !.call = Waiting,
                                 !.phase = IF driver.turn = None THEN "await" ELSE "stopped"]
             [] OTHER -> NextCall(driver)

(* next, and handle for what is not the answer.  The turn may be completed *)
(* before the response that says it was started.                           *)
DriverTakes ==
    /\ driver.phase = "await" /\ reader # None /\ reader # Eof
    /\ reader' = None
    /\ IF Answers(reader)
       THEN Proceed(reader)
       ELSE driver' =
              CASE reader.kind = "request" ->
                     [driver EXCEPT !.phase = "refuse", !.asked = reader.id]
                [] reader.kind = "completed" ->
                     [driver EXCEPT !.turn = reader.result,
                                    !.phase = IF driver.call = Waiting THEN "stopped" ELSE @]
                [] OTHER -> driver
    /\ UNCHANGED <<run, toServer, toDriver, server, service, written>>

(* Faulty variant: the startup has no limit. *)
FailsUntimed == reader = Eof \/ run.phase = "closed"

(* Faulty variant: the end of the server's output is not told. *)
FailsUnclosed == (driver.call < Waiting /\ driver.expired) \/ run.phase = "closed"

(* A read fails: the server has closed its output, thirty seconds are over *)
(* before the turn has started, or Run has returned.                       *)
ReadFails ==
    \/ reader = Eof
    \/ driver.call < Waiting /\ driver.expired
    \/ run.phase = "closed"

DriverFails ==
    /\ driver.phase = "await" /\ ReadFails
    /\ Stop("failed")
    /\ UNCHANGED <<run, reader, toServer, toDriver, server, service, written>>

(* bindThread: the write lock waits for the requests being served.  Only   *)
(* the first thread is bound, if its id is one the endpoint accepts.       *)
DriverBinds ==
    /\ driver.phase = "bind" /\ service.serving = {}
    /\ \/ /\ ~service.bound
          /\ driver' = NextCall(driver)
          /\ service' = [service EXCEPT !.bound = TRUE, !.subject = Subjects(Thread)]
       \/ Stop("failed") /\ UNCHANGED service
    /\ UNCHANGED <<run, reader, toServer, toDriver, server, written>>

StartupExpires ==
    /\ ~driver.expired /\ driver.call < Waiting /\ driver.phase # "stopped"
    /\ driver' = [driver EXCEPT !.expired = TRUE]
    /\ UNCHANGED <<run, reader, toServer, toDriver, server, service, written>>

Driver == \/ DriverSends \/ DriverInitialized \/ DriverRefuses
          \/ DriverTakes \/ DriverFails \/ DriverBinds

(* The goroutine that scans the server's output, a message ahead.  A line  *)
(* that is not JSON, or too long, is an end of the output like any other.  *)
Reader ==
    /\ reader = None
    /\ \/ toDriver # <<>> /\ reader' \in {Head(toDriver), Eof} /\ toDriver' = Tail(toDriver)
       \/ toDriver = <<>> /\ ~server.alive /\ reader' = Eof /\ UNCHANGED toDriver
    /\ UNCHANGED <<driver, run, toServer, server, service, written>>

-----------------------------------------------------------------------------
(* nativeService and the roles of the native HTTP endpoint *)

(* Faulty variant: notes are served before the thread is known. *)
AdmitsUnbound(role, op) ==
    CASE op = "read"    -> TRUE
      [] op = "note"    -> role = "model_tool"
      [] op = "job"     -> role = "background"
      [] op = "package" -> role = "installer"

(* What a request may do: the operations of the endpoint by the role they  *)
(* require, and no note until the thread is bound (503).                   *)
Admits(role, op) ==
    CASE op = "read"    -> TRUE
      [] op = "note"    -> role = "model_tool" /\ service.bound
      [] op = "job"     -> role = "background"
      [] op = "package" -> role = "installer"

(* A request takes the read lock, unless bind waits for the write lock. *)
HttpBegins(role, op) ==
    /\ server.alive /\ run.phase # "closed" /\ driver.phase # "bind"
    /\ Cardinality(service.serving) < MaxServing
    /\ Admits(role, op)
    /\ service' = [service EXCEPT !.serving = @ \cup {[role |-> role, op |-> op]}]
    /\ UNCHANGED <<driver, run, reader, toServer, toDriver, server, written>>

(* It commits under the subject of its credential, and unlocks.  A job is  *)
(* recorded under its role alone.                                          *)
HttpEnds(h) ==
    /\ written' = written \cup
         (IF h.op \in {"note", "package"}
          THEN {[op |-> h.op, thread |-> service.subject[h.role]]} ELSE {})
    /\ service' = [service EXCEPT !.serving = @ \ {h}]
    /\ UNCHANGED <<driver, run, reader, toServer, toDriver, server>>

-----------------------------------------------------------------------------
(* The app-server *)

ServerReads ==
    /\ server.alive /\ toServer # <<>>
    /\ LET m == Head(toServer)
       IN  \E turn \in IF m.kind = "call" /\ m.id = Len(Calls) THEN {"none", "running"}
                       ELSE {server.turn} :
             server' = [server EXCEPT
                          !.turn = turn,
                          !.pending = IF m.kind = "call" THEN @ \cup {m.id} ELSE @,
                          !.refused = IF m.kind = "refusal" THEN @ \cup {m.id} ELSE @]
    /\ toServer' = Tail(toServer)
    /\ UNCHANGED <<driver, run, reader, toDriver, service, written>>

(* The results the server may truthfully give. *)
Results(id) ==
    CASE Calls[id] = "local" -> IF server.local THEN {"ok", "error"} ELSE {"unknown", "error"}
      [] Calls[id] = "mcpServerStatus/list" -> IF server.exact THEN {"ok"} ELSE {"other"}
      [] Calls[id] = "turn/start" -> IF server.turn = "none" THEN {"error"} ELSE {"ok"}
      [] OTHER -> {"ok", "error"}

Emit(kind, id, result) ==
    /\ server.alive /\ Len(toDriver) < PipeMax
    /\ toDriver' = Append(toDriver, [kind |-> kind, id |-> id, result |-> result])
    /\ UNCHANGED <<driver, run, reader, toServer, service, written>>

ServerAnswers(id) ==
    /\ \E result \in Results(id) : Emit("response", id, result)
    /\ server' = [server EXCEPT !.pending = @ \ {id}]

(* An approval or an elicitation, under an id of the server's own. *)
ServerAsks(id) ==
    /\ Emit("request", id, "null")
    /\ server' = [server EXCEPT !.unasked = @ \ {id}]

ServerCompletes(status) ==
    /\ server.turn = "running"
    /\ Emit("completed", None, status)
    /\ server' = [server EXCEPT !.turn = status]

ServerDies ==
    /\ server.alive
    /\ server' = [server EXCEPT !.alive = FALSE]
    /\ UNCHANGED <<driver, run, reader, toServer, toDriver, service, written>>

-----------------------------------------------------------------------------
(* Run *)

Stopping(result) ==
    /\ run.phase = "running"
    /\ run' = [phase |-> "stopping", result |-> result]
    /\ UNCHANGED <<driver, reader, toServer, toDriver, server, service, written>>

SessionDone == driver.phase = "stopped" /\ Stopping(driver.turn)

(* SIGINT or SIGTERM, passed to the server's group; or the HTTP server has *)
(* stopped.                                                                *)
Interrupted == Stopping("interrupted")

(* The deferred calls: the input is closed, three seconds later the server *)
(* killed, and the HTTP server and the store are closed.                   *)
Reap ==
    /\ run.phase = "stopping" /\ server.alive
    /\ server' = [server EXCEPT !.alive = FALSE]
    /\ UNCHANGED <<driver, run, reader, toServer, toDriver, service, written>>

Close ==
    /\ run.phase = "stopping" /\ ~server.alive
    /\ run' = [run EXCEPT !.phase = "closed"]
    /\ service' = [service EXCEPT !.serving = {}]
    /\ UNCHANGED <<driver, reader, toServer, toDriver, server, written>>

-----------------------------------------------------------------------------
Init ==
    /\ driver = [call |-> 1, phase |-> "send", asked |-> None, turn |-> None,
                 expired |-> FALSE]
    /\ run = [phase |-> "running", result |-> None]
    /\ reader = None /\ toServer = <<>> /\ toDriver = <<>>
    /\ \E local, exact \in BOOLEAN :
         server = [alive |-> TRUE, local |-> local, exact |-> exact, pending |-> {},
                   turn |-> "none", unasked |-> ServerId, refused |-> {}]
    /\ service = [bound |-> FALSE, subject |-> Subjects("bootstrap"), serving |-> {}]
    /\ written = {}

Next ==
    \/ Driver \/ StartupExpires \/ Reader
    \/ \E role \in Roles, op \in {"read", "note", "job", "package"} : HttpBegins(role, op)
    \/ \E h \in service.serving : HttpEnds(h)
    \/ ServerReads \/ ServerDies
    \/ \E id \in server.pending : ServerAnswers(id)
    \/ \E id \in server.unasked : ServerAsks(id)
    \/ \E status \in {"completed", "failed"} : ServerCompletes(status)
    \/ SessionDone \/ Interrupted \/ Reap \/ Close

Spec == Init /\ [][Next]_vars

(* The goroutines run, the timers expire, a request is served in the end;  *)
(* and the server reads its input, which is all that is assumed of it.     *)
FairSpec ==
    /\ Spec
    /\ WF_vars(Driver) /\ WF_vars(StartupExpires) /\ WF_vars(Reader)
    /\ WF_vars(\E h \in service.serving : HttpEnds(h))
    /\ WF_vars(SessionDone) /\ WF_vars(Reap) /\ WF_vars(Close)
    /\ WF_vars(ServerReads)

-----------------------------------------------------------------------------
(* Properties *)

(* The server runs a turn only if it has no local environment, no tool but *)
(* the store's and the thread that notes are bound to; and a session that  *)
(* reports success has had its turn completed (session.go: "refusing model *)
(* turn").                                                                 *)
TurnIsVerified ==
    /\ server.turn # "none" =>
          /\ ~server.local /\ server.exact
          /\ service.bound /\ service.subject.model_tool = Thread
    /\ run.result = "completed" => server.turn = "completed"

(* A package is written under the installer's name, and a note under the   *)
(* thread, never under the name the endpoint starts with (nativeService:   *)
(* "cannot create notes under a synthetic ID").                            *)
WritesHaveTheirAuthor ==
    \A w \in written : w.thread = IF w.op = "note" THEN Thread ELSE "host"

(* A request of the server is refused, even one with the id of the call it *)
(* comes across, unless the session is over first: the server never waits  *)
(* for an answer that will not come (handle).                              *)
RequestsAreRefused ==
    \A id \in ServerId :
        id \notin server.unasked ~> id \in server.refused \/ run.phase # "running"

(* The session gets to its turn or gives up, whatever the server does with *)
(* the calls it reads (the startup context).                               *)
StartupEnds == run.phase = "running" ~> driver.call = Waiting \/ run.phase # "running"

(* When the server dies or a signal comes, Run returns, and no app-server  *)
(* is left behind (next, and the deferred calls of Run).                   *)
SessionEnds ==
    ~server.alive \/ run.phase = "stopping" ~> run.phase = "closed" /\ ~server.alive
=============================================================================
