------------------------ MODULE CodexSessionProofs ------------------------
(***************************************************************************)
(* For every set of server ids, every pipe and any number of requests at a *)
(* time: a turn is started only when the session is verified, and native   *)
(* writes are under their author's name.  The inductive invariant follows  *)
(* what a call has shown from the server through the pipe to the driver.   *)
(***************************************************************************)
EXTENDS CodexSession, TLAPS

Id == (1..6) \cup ServerId \cup {None}
Op == {"read", "note", "job", "package"}
Request == [role : Roles, op : Op]
Sent == [kind : {"call", "initialized", "refusal"}, id : Id]
Told == [kind : {"response", "request", "completed"}, id : Id,
         result : {"ok", "null", "unknown", "error", "other", "completed", "failed"}]

DriverType ==
    /\ driver \in [call : 1..7, phase : {"send", "await", "refuse", "initialized", "bind",
                                         "stopped"},
                   asked : Id, turn : {None, "completed", "failed"}, expired : BOOLEAN]
    /\ driver.phase = "send" => driver.call < 7
    /\ driver.phase = "initialized" => driver.call = 1
    /\ driver.phase = "bind" => driver.call = 4

ServerType ==
    server \in [alive : BOOLEAN, local : BOOLEAN, exact : BOOLEAN, pending : SUBSET (1..6),
                turn : {"none", "running", "completed", "failed"},
                unasked : SUBSET ServerId, refused : SUBSET Id]

ServiceType ==
    /\ service \in [bound : BOOLEAN, subject : {Subjects("bootstrap"), Subjects(Thread)},
                    serving : SUBSET Request]
    /\ service.subject = IF service.bound THEN Subjects(Thread) ELSE Subjects("bootstrap")

PipeType ==
    /\ toServer \in Seq(Sent)
    /\ toDriver \in Seq(Told)
    /\ reader \in Told \cup {None, Eof}
    /\ run \in [phase : {"running", "stopping", "closed"},
                result : {None, "completed", "failed", "interrupted"}]

(* A response tells what is so at the server, and so does turn/completed. *)
Honest(m, s) ==
    /\ m.kind = "response" /\ m.id = 3 /\ m.result = "unknown" => ~s.local
    /\ m.kind = "response" /\ m.id = 5 /\ m.result = "ok" => s.exact
    /\ m.kind = "completed" /\ m.result = "completed" => s.turn = "completed"
    /\ m.kind = "completed" => m.result \in {"completed", "failed"}
    /\ m.kind = "response" => m.id \in 1..6

HonestInv ==
    /\ \A i \in 1..Len(toDriver) : Honest(toDriver[i], server)
    /\ reader # None => Honest(reader, server)

(* What the driver knows of a server by the call it has got to. *)
PassedInv ==
    /\ driver.call > 3 => ~server.local
    /\ driver.call > 5 => server.exact
    /\ service.bound <=> driver.call > 4

StartsTurn(m) == m.kind = "call" /\ m.id = 6
Unsent == driver.call < 6 \/ (driver.call = 6 /\ driver.phase = "send")

(* turn/start is sent once. *)
OnceInv ==
    /\ \A i \in 1..Len(toServer) : toServer[i].kind = "call" => toServer[i].id \in 1..6
    /\ Unsent => /\ server.turn = "none"
                 /\ \A i \in 1..Len(toServer) : ~StartsTurn(toServer[i])
    /\ \A i \in 1..Len(toServer) :
          StartsTurn(toServer[i]) =>
             /\ server.turn = "none"
             /\ \A j \in 1..Len(toServer) : StartsTurn(toServer[j]) => i = j

ResultInv ==
    /\ driver.turn = "completed" => server.turn = "completed"
    /\ run.result = "completed" => server.turn = "completed"

SessionInv ==
    /\ DriverType /\ ServerType /\ ServiceType /\ PipeType
    /\ HonestInv /\ PassedInv /\ OnceInv /\ ResultInv

-----------------------------------------------------------------------------
(* The inductive invariant holds before the first call. *)
LEMMA InitEstablishes == Init => SessionInv
<1> SUFFICES ASSUME Init PROVE SessionInv
    OBVIOUS
<1> USE CodexAssumption DEF Init
<1>1. DriverType
    BY DEF DriverType, Id
<1>2. ServerType
    BY DEF ServerType
<1>3. ServiceType
    BY DEF ServiceType
<1>4. PipeType
    BY DEF PipeType
<1>5. HonestInv
    BY DEF HonestInv
<1>6. PassedInv /\ OnceInv /\ ResultInv
    BY DEF PassedInv, OnceInv, ResultInv, Unsent
<1>7. QED
    BY <1>1, <1>2, <1>3, <1>4, <1>5, <1>6 DEF SessionInv

-----------------------------------------------------------------------------
(* The steps of the driver *)

(* A write appends what is not turn/start, and the driver goes on in its   *)
(* call or to the next; or it stops.                                       *)
LEMMA WriteStep ==
    ASSUME SessionInv, NEW m \in Sent, NEW next, Write(m, next),
           next \in [call : 1..7, phase : {"send", "await"}, asked : Id,
                     turn : {driver.turn}, expired : BOOLEAN],
           next.phase = "send" => next.call < 7,
           next.call = driver.call \/ (driver.call = 1 /\ next.call = 2),
           m.kind = "call" => m.id \in 1..6,
           StartsTurn(m) => Unsent /\ next.call = 6 /\ next.phase = "await",
           driver.call = 6 /\ next.phase = "send" => driver.phase = "send"
    PROVE  SessionInv'
<1> USE DEF SessionInv, Write, Stop
<1>1. toServer' = toServer \/ toServer' = Append(toServer, m)
    OBVIOUS
<1>goes. \/ driver' = next
         \/ driver'.call = driver.call /\ driver'.phase = "stopped" /\ driver'.turn = "failed"
    BY DEF DriverType
<1>calls. driver.call \in 1..7 /\ next.call \in 1..7
    <2>1. DriverType
        OBVIOUS
    <2> HIDE DEF SessionInv, Write, Stop
    <2>2. driver.call \in 1..7
        BY <2>1 DEF DriverType
    <2>3. next.call \in 1..7
        OBVIOUS
    <2>4. QED
        BY <2>2, <2>3
<1>2. DriverType'
    <2>1. DriverType
        OBVIOUS
    <2>2. driver' = next \/ driver' = [driver EXCEPT !.phase = "stopped", !.turn = "failed"]
        OBVIOUS
    <2> HIDE DEF SessionInv, Write, Stop
    <2>3. CASE driver' = next
        BY <2>1, <2>3 DEF DriverType
    <2>4. CASE driver' = [driver EXCEPT !.phase = "stopped", !.turn = "failed"]
        BY <2>1, <2>4 DEF DriverType
    <2>5. QED
        BY <2>2, <2>3, <2>4
<1>3. ServerType' /\ ServiceType'
    BY DEF ServerType, ServiceType
<1>4. PipeType'
    <2>1. toServer \in Seq(Sent) /\ m \in Sent
        BY DEF PipeType
    <2>2. UNCHANGED <<toDriver, reader, run>>
        OBVIOUS
    <2>3. PipeType
        OBVIOUS
    <2> HIDE DEF SessionInv, Write
    <2>4. toServer' \in Seq(Sent)
        BY <1>1, <2>1
    <2>5. QED
        BY <2>2, <2>3, <2>4 DEF PipeType
<1>5. HonestInv'
    <2>1. UNCHANGED <<toDriver, reader, server>>
        OBVIOUS
    <2>2. HonestInv
        OBVIOUS
    <2> HIDE DEF SessionInv, Write
    <2>3. QED
        BY <2>1, <2>2 DEF HonestInv
<1>6. PassedInv'
    BY <1>goes, <1>calls DEF PassedInv
<1>7. OnceInv'
    <2> DEFINE Writes == server.alive /\ run.phase = "running"
    <2>1. Unsent' => Unsent
        BY <1>goes, <1>calls DEF Unsent
    <2>2. server' = server
        OBVIOUS
    <2>3. CASE ~Writes
        <3>1. toServer' = toServer
            BY <2>3
        <3>2. QED
            BY <2>1, <2>2, <3>1 DEF OnceInv, StartsTurn
    <2>4. CASE Writes
        <3>1. toServer' = Append(toServer, m) /\ driver' = next
            BY <2>4
        <3>2. /\ Len(toServer') = Len(toServer) + 1
              /\ toServer'[Len(toServer) + 1] = m
              /\ \A i \in 1..Len(toServer) : toServer'[i] = toServer[i]
              /\ Len(toServer) \in Nat
            BY <3>1 DEF PipeType
        <3>3. StartsTurn(m) => ~Unsent'
            BY <3>1 DEF Unsent
        <3>4. OnceInv /\ m \in Sent
            OBVIOUS
        <3>5. \A i \in 1..Len(toServer') :
                 \/ i \in 1..Len(toServer) /\ toServer'[i] = toServer[i]
                 \/ i = Len(toServer) + 1 /\ toServer'[i] = m
            BY <3>2
        <3>6. /\ StartsTurn(m) => Unsent /\ ~Unsent'
              /\ m.kind = "call" => m.id \in 1..6
            BY <3>3
        <3> HIDE DEF Writes, SessionInv, Write
        <3>7. \A i \in 1..Len(toServer') :
                 toServer'[i].kind = "call" => toServer'[i].id \in 1..6
            BY <3>4, <3>5, <3>6 DEF OnceInv
        <3>8. Unsent' => /\ server'.turn = "none"
                         /\ \A i \in 1..Len(toServer') : ~StartsTurn(toServer'[i])
            BY <2>1, <2>2, <3>4, <3>5, <3>6 DEF OnceInv
        <3>9. \A i \in 1..Len(toServer') : StartsTurn(toServer'[i]) =>
                 /\ server'.turn = "none"
                 /\ \A j \in 1..Len(toServer') : StartsTurn(toServer'[j]) => i = j
            BY <2>2, <3>4, <3>5, <3>6 DEF OnceInv
        <3>10. QED
            BY <3>7, <3>8, <3>9 DEF OnceInv, StartsTurn
    <2>5. QED
        BY <2>3, <2>4
<1>8. ResultInv'
    BY DEF ResultInv, DriverType
<1>9. QED
    BY <1>2, <1>3, <1>4, <1>5, <1>6, <1>7, <1>8

(* The calls up to turn/start, the notification and the refusals. *)
LEMMA DriverWrites ==
    SessionInv /\ (DriverSends \/ DriverInitialized \/ DriverRefuses) => SessionInv'
<1> SUFFICES ASSUME SessionInv, DriverSends \/ DriverInitialized \/ DriverRefuses
             PROVE  SessionInv'
    OBVIOUS
<1>1. /\ driver \in [call : 1..7, phase : {"send", "await", "refuse", "initialized", "bind",
                                           "stopped"},
                     asked : Id, turn : {None, "completed", "failed"}, expired : BOOLEAN]
      /\ driver.phase = "send" => driver.call < 7
      /\ driver.phase = "initialized" => driver.call = 1
    BY DEF SessionInv, DriverType
<1>2. CASE DriverSends
    <2> DEFINE m == [kind |-> "call", id |-> driver.call]
               next == [driver EXCEPT !.phase = "await"]
    <2>1. Write(m, next) /\ driver.phase = "send"
        BY <1>2 DEF DriverSends
    <2>2. m \in Sent /\ m.kind = "call" /\ m.id \in 1..6
        BY <1>1, <2>1 DEF Sent, Id
    <2>3. /\ next \in [call : 1..7, phase : {"send", "await"}, asked : Id,
                       turn : {driver.turn}, expired : BOOLEAN]
          /\ next.phase = "await" /\ next.call = driver.call
        BY <1>1
    <2>4. StartsTurn(m) => Unsent /\ next.call = 6
        BY <1>1, <2>1 DEF StartsTurn, Unsent
    <2> HIDE DEF m, next
    <2>5. QED
        BY <2>1, <2>2, <2>3, <2>4, WriteStep
<1>3. CASE DriverInitialized
    <2> DEFINE m == [kind |-> "initialized", id |-> None]
               next == NextCall(driver)
    <2>1. Write(m, next) /\ driver.phase = "initialized"
        BY <1>3 DEF DriverInitialized
    <2>2. m \in Sent /\ m.kind = "initialized"
        BY DEF Sent, Id
    <2>3. /\ next \in [call : 1..7, phase : {"send", "await"}, asked : Id,
                       turn : {driver.turn}, expired : BOOLEAN]
          /\ next.phase = "send" /\ next.call = 2 /\ driver.call = 1
        <3>1. driver.call = 1 /\ driver.call + 1 = 2
            BY <1>1, <2>1
        <3>2. next = [driver EXCEPT !.call = 2, !.phase = "send"]
            BY <3>1 DEF NextCall
        <3>3. /\ next = [call |-> 2, phase |-> "send", asked |-> driver.asked,
                         turn |-> driver.turn, expired |-> driver.expired]
              /\ driver.asked \in Id /\ driver.expired \in BOOLEAN
            BY <1>1, <3>2
        <3> HIDE DEF next
        <3>4. QED
            BY <3>1, <3>3
    <2> HIDE DEF m, next
    <2>4. QED
        BY <2>1, <2>2, <2>3, WriteStep DEF StartsTurn
<1>4. CASE DriverRefuses
    <2> DEFINE m == [kind |-> "refusal", id |-> driver.asked]
               next == [driver EXCEPT !.phase = "await", !.asked = None]
    <2>1. Write(m, next)
        BY <1>4 DEF DriverRefuses
    <2>2. m \in Sent /\ m.kind = "refusal"
        BY <1>1 DEF Sent
    <2>3. /\ next \in [call : 1..7, phase : {"send", "await"}, asked : Id,
                       turn : {driver.turn}, expired : BOOLEAN]
          /\ next.phase = "await" /\ next.call = driver.call
        BY <1>1 DEF Id
    <2> HIDE DEF m, next
    <2>4. QED
        BY <2>1, <2>2, <2>3, WriteStep DEF StartsTurn
<1>5. QED
    BY <1>2, <1>3, <1>4

(* A step of the driver that sends nothing leaves the pipes and the server *)
(* as they are: what is left to show is what the driver has become.        *)
LEMMA QuietStep ==
    ASSUME SessionInv, DriverType', PassedInv',
           reader' = reader \/ reader' = None,
           UNCHANGED <<toServer, toDriver, server>>,
           PipeType', ServiceType',
           Unsent' => Unsent,
           ResultInv'
    PROVE  SessionInv'
<1>1. ServerType'
    BY DEF SessionInv, ServerType
<1>2. HonestInv'
    BY DEF SessionInv, HonestInv, Honest
<1>3. OnceInv'
    BY DEF SessionInv, OnceInv, StartsTurn
<1>4. QED
    BY <1>1, <1>2, <1>3 DEF SessionInv

(* A message is taken: an answer to the outstanding call carries the       *)
(* driver past it only with what it expects.                               *)
LEMMA TakesStep == SessionInv /\ DriverTakes => SessionInv'
<1> SUFFICES ASSUME SessionInv, DriverTakes PROVE SessionInv'
    OBVIOUS
<1>1. /\ driver \in [call : 1..7, phase : {"send", "await", "refuse", "initialized", "bind",
                                           "stopped"},
                     asked : Id, turn : {None, "completed", "failed"}, expired : BOOLEAN]
      /\ driver.phase = "await"
      /\ reader \in Told /\ Honest(reader, server)
      /\ reader' = None
      /\ UNCHANGED <<run, toServer, toDriver, server, service>>
      /\ PassedInv /\ ResultInv /\ PipeType /\ ServiceType
    BY DEF SessionInv, DriverType, PipeType, HonestInv, DriverTakes
<1>2. PipeType' /\ ServiceType'
    BY <1>1 DEF PipeType, ServiceType
<1>3. CASE ~Answers(reader)
    <2>1. \/ /\ reader.kind = "request"
             /\ driver' = [driver EXCEPT !.phase = "refuse", !.asked = reader.id]
          \/ /\ reader.kind = "completed"
             /\ driver' = [driver EXCEPT !.turn = reader.result,
                              !.phase = IF driver.call = Waiting THEN "stopped" ELSE @]
          \/ driver' = driver
        BY <1>3 DEF DriverTakes
    <2>2. CASE /\ reader.kind = "request"
               /\ driver' = [driver EXCEPT !.phase = "refuse", !.asked = reader.id]
        <3>1. /\ driver'.call = driver.call /\ driver'.turn = driver.turn
              /\ driver'.phase = "refuse"
            BY <1>1, <2>2
        <3>2. DriverType'
            BY <1>1, <2>2 DEF DriverType, Told
        <3>3. QED
            BY <1>1, <1>2, <3>1, <3>2, QuietStep DEF PassedInv, ResultInv, Unsent
    <2>3. CASE /\ reader.kind = "completed"
               /\ driver' = [driver EXCEPT !.turn = reader.result,
                                !.phase = IF driver.call = Waiting THEN "stopped" ELSE @]
        <3>1. /\ driver'.call = driver.call /\ driver'.turn = reader.result
              /\ driver'.phase \in {"await", "stopped"}
            BY <1>1, <2>3
        <3>2. DriverType'
            BY <1>1, <2>3 DEF DriverType, Honest
        <3>3. QED
            BY <1>1, <1>2, <2>3, <3>1, <3>2, QuietStep
            DEF PassedInv, ResultInv, Unsent, Honest
    <2>4. CASE driver' = driver
        <3>1. DriverType'
            BY <2>4 DEF SessionInv, DriverType
        <3>2. QED
            BY <1>1, <1>2, <2>4, <3>1, QuietStep DEF PassedInv, ResultInv, Unsent
    <2>5. QED
        BY <2>1, <2>2, <2>3, <2>4
<1>4. CASE Answers(reader)
    <2>1. /\ reader.kind = "response" /\ reader.id = driver.call /\ driver.call \in 1..6
          /\ Proceed(reader)
        BY <1>1, <1>4 DEF Answers, DriverTakes, Honest
    <2>2. CASE reader.result \notin Expected[driver.call]
        <3>1. driver' = [driver EXCEPT !.phase = "stopped", !.turn = "failed"]
            BY <2>1, <2>2 DEF Proceed, Stop
        <3>2. /\ driver'.call = driver.call /\ driver'.turn = "failed"
              /\ driver'.phase = "stopped"
            BY <1>1, <3>1
        <3>3. DriverType'
            BY <1>1, <3>1 DEF DriverType
        <3>4. QED
            BY <1>1, <1>2, <3>2, <3>3, QuietStep DEF PassedInv, ResultInv, Unsent
    <2>3. CASE reader.result \in Expected[driver.call]
        <3>1. CASE driver.call = 1
            <4>1. driver' = [driver EXCEPT !.phase = "initialized"]
                BY <2>1, <2>3, <3>1 DEF Proceed, Calls
            <4>2. /\ driver'.call = 1 /\ driver'.turn = driver.turn
                  /\ driver'.phase = "initialized"
                BY <1>1, <3>1, <4>1
            <4>3. DriverType'
                BY <1>1, <3>1, <4>1 DEF DriverType
            <4>4. QED
                BY <1>1, <1>2, <3>1, <4>2, <4>3, QuietStep DEF PassedInv, ResultInv, Unsent
        <3>2. CASE driver.call \in {2, 3, 5}
            <4>1. driver' = NextCall(driver)
                BY <2>1, <2>3, <3>2 DEF Proceed, Calls
            <4>2. driver.call = 3 => ~server.local
                BY <1>1, <2>1, <2>3 DEF Expected, Honest
            <4>3. driver.call = 5 => server.exact
                BY <1>1, <2>1, <2>3 DEF Expected, Honest
            <4>4. driver' = [driver EXCEPT !.call = driver.call + 1, !.phase = "send"]
                BY <4>1 DEF NextCall
            <4>5. driver.call + 1 \in {3, 4, 6}
                BY <3>2
            <4>6. /\ driver'.call = driver.call + 1 /\ driver'.turn = driver.turn
                  /\ driver'.phase = "send"
                BY <1>1, <4>4
            <4>7. DriverType'
                <5> DEFINE n == driver.call + 1
                <5>1. n \in 1..7 /\ n < 7
                    BY <4>5
                <5>2. driver' = [driver EXCEPT !.call = n, !.phase = "send"]
                    BY <4>4
                <5> HIDE DEF n
                <5>3. QED
                    BY <1>1, <5>1, <5>2 DEF DriverType
            <4>8. PassedInv'
                BY <1>1, <3>2, <4>2, <4>3, <4>6 DEF PassedInv
            <4>9. Unsent' => Unsent
                BY <3>2, <4>6 DEF Unsent
            <4>10. QED
                BY <1>1, <1>2, <4>6, <4>7, <4>8, <4>9, QuietStep DEF ResultInv
        <3>3. CASE driver.call = 4
            <4>1. driver' = [driver EXCEPT !.phase = "bind"]
                BY <2>1, <2>3, <3>3 DEF Proceed, Calls
            <4>2. /\ driver'.call = 4 /\ driver'.turn = driver.turn
                  /\ driver'.phase = "bind"
                BY <1>1, <3>3, <4>1
            <4>3. DriverType'
                BY <1>1, <3>3, <4>1 DEF DriverType
            <4>4. QED
                BY <1>1, <1>2, <3>3, <4>2, <4>3, QuietStep DEF PassedInv, ResultInv, Unsent
        <3>4. CASE driver.call = 6
            <4>1. driver' = [driver EXCEPT !.call = 7,
                                !.phase = IF driver.turn = None THEN "await" ELSE "stopped"]
                BY <2>1, <2>3, <3>4 DEF Proceed, Calls, Waiting
            <4>2. /\ driver'.call = 7 /\ driver'.turn = driver.turn
                  /\ driver'.phase \in {"await", "stopped"}
                BY <1>1, <4>1
            <4>3. DriverType'
                <5>1. PICK p \in {"await", "stopped"} :
                         driver' = [driver EXCEPT !.call = 7, !.phase = p]
                    BY <4>1
                <5>2. driver' = [call |-> 7, phase |-> p, asked |-> driver.asked,
                                 turn |-> driver.turn, expired |-> driver.expired]
                    BY <1>1, <5>1
                <5>3. QED
                    BY <1>1, <5>2 DEF DriverType
            <4>4. QED
                BY <1>1, <1>2, <3>4, <4>2, <4>3, QuietStep DEF PassedInv, ResultInv, Unsent
        <3>5. QED
            BY <2>1, <3>1, <3>2, <3>3, <3>4
    <2>4. QED
        BY <2>2, <2>3
<1>5. QED
    BY <1>3, <1>4

(* A failed read ends the driver, and bindThread takes it on. *)
LEMMA DriverStops ==
    SessionInv /\ (DriverFails \/ DriverBinds \/ StartupExpires) => SessionInv'
<1> SUFFICES ASSUME SessionInv, DriverFails \/ DriverBinds \/ StartupExpires
             PROVE  SessionInv'
    OBVIOUS
<1>1. /\ driver \in [call : 1..7, phase : {"send", "await", "refuse", "initialized", "bind",
                                           "stopped"},
                     asked : Id, turn : {None, "completed", "failed"}, expired : BOOLEAN]
      /\ DriverType /\ PassedInv /\ ResultInv /\ PipeType /\ ServiceType
    BY DEF SessionInv, DriverType
<1>2. UNCHANGED <<run, reader, toServer, toDriver, server>>
    BY DEF DriverFails, DriverBinds, StartupExpires
<1>3. PipeType'
    BY <1>1, <1>2 DEF PipeType
<1>4. CASE service' = service /\ Stop("failed")
    <2>1. /\ driver'.call = driver.call /\ driver'.turn = "failed"
          /\ driver'.phase = "stopped"
        BY <1>1, <1>4 DEF Stop
    <2>2. DriverType' /\ ServiceType'
        BY <1>1, <1>4 DEF DriverType, ServiceType, Stop
    <2>3. QED
        BY <1>1, <1>2, <1>3, <1>4, <2>1, <2>2, QuietStep DEF PassedInv, ResultInv, Unsent
<1>5. CASE /\ driver.phase = "bind" /\ driver' = NextCall(driver)
           /\ service' = [service EXCEPT !.bound = TRUE, !.subject = Subjects(Thread)]
    <2>1. driver.phase = "bind" /\ driver.call = 4 /\ driver.call + 1 = 5
        BY <1>1, <1>5 DEF DriverType
    <2>2. driver' = [driver EXCEPT !.call = 5, !.phase = "send"]
        BY <1>5, <2>1 DEF NextCall
    <2>3. /\ driver'.call = 5 /\ driver'.turn = driver.turn /\ driver'.phase = "send"
        BY <1>1, <2>2
    <2>4. DriverType'
        <3>1. driver' = [call |-> 5, phase |-> "send", asked |-> driver.asked,
                         turn |-> driver.turn, expired |-> driver.expired]
            BY <1>1, <2>2
        <3>2. QED
            BY <1>1, <3>1 DEF DriverType
    <2>5. ServiceType' /\ service'.bound
        BY <1>1, <1>5 DEF ServiceType
    <2>6. QED
        BY <1>1, <1>2, <1>3, <2>1, <2>3, <2>4, <2>5, QuietStep
        DEF PassedInv, ResultInv, Unsent
<1>6. CASE StartupExpires
    <2>1. driver' = [driver EXCEPT !.expired = TRUE] /\ service' = service
        BY <1>6 DEF StartupExpires
    <2>2. /\ driver'.call = driver.call /\ driver'.turn = driver.turn
          /\ driver'.phase = driver.phase
        BY <1>1, <2>1
    <2>3. DriverType' /\ ServiceType'
        BY <1>1, <2>1 DEF DriverType, ServiceType
    <2>4. QED
        BY <1>1, <1>2, <1>3, <2>1, <2>2, <2>3, QuietStep DEF PassedInv, ResultInv, Unsent
<1>7. QED
    BY <1>4, <1>5, <1>6 DEF DriverFails, DriverBinds

(* The reader moves a message; the rest of what is known is about others. *)
LEMMA ReaderStep == SessionInv /\ Reader => SessionInv'
<1> SUFFICES ASSUME SessionInv, Reader PROVE SessionInv'
    OBVIOUS
<1>1. UNCHANGED <<driver, run, toServer, server, service, written>>
    BY DEF Reader
<1>2. /\ DriverType' /\ ServerType' /\ ServiceType' /\ PassedInv' /\ ResultInv'
    BY <1>1 DEF SessionInv, DriverType, ServerType, ServiceType, PassedInv, ResultInv
<1>3. OnceInv'
    BY <1>1 DEF SessionInv, OnceInv, Unsent, StartsTurn
<1>4. CASE toDriver # <<>> /\ reader' = Head(toDriver) /\ toDriver' = Tail(toDriver)
    <2>1. /\ toDriver \in Seq(Told) /\ Len(toDriver) > 0
          /\ \A i \in 1..Len(toDriver) : Honest(toDriver[i], server)
        BY <1>4 DEF SessionInv, PipeType, HonestInv
    <2>2. /\ reader' = toDriver[1] /\ toDriver[1] \in Told
          /\ toDriver' \in Seq(Told) /\ Len(toDriver') = Len(toDriver) - 1
          /\ \A i \in 1..Len(toDriver') : toDriver'[i] = toDriver[i + 1]
        BY <1>4, <2>1
    <2>3. PipeType'
        BY <1>1, <2>2 DEF SessionInv, PipeType
    <2>4. HonestInv'
        BY <1>1, <2>1, <2>2 DEF HonestInv, Honest
    <2>5. QED
        BY <1>2, <1>3, <2>3, <2>4 DEF SessionInv
<1>5. CASE \/ reader' = Eof /\ toDriver' = toDriver
           \/ toDriver # <<>> /\ reader' = Eof /\ toDriver' = Tail(toDriver)
    <2>1. /\ toDriver \in Seq(Told)
          /\ \A i \in 1..Len(toDriver) : Honest(toDriver[i], server)
        BY DEF SessionInv, PipeType, HonestInv
    <2>2. /\ toDriver' \in Seq(Told)
          /\ \A i \in 1..Len(toDriver') :
                \E k \in 1..Len(toDriver) : toDriver'[i] = toDriver[k]
        <3>1. CASE toDriver' = toDriver
            BY <2>1, <3>1
        <3>2. CASE toDriver # <<>> /\ toDriver' = Tail(toDriver)
            <4>1. /\ toDriver' \in Seq(Told) /\ Len(toDriver') = Len(toDriver) - 1
                  /\ \A i \in 1..Len(toDriver') : toDriver'[i] = toDriver[i + 1]
                BY <2>1, <3>2
            <4>2. \A i \in 1..Len(toDriver') : i + 1 \in 1..Len(toDriver)
                BY <2>1, <4>1
            <4>3. QED
                BY <4>1, <4>2
        <3>3. QED
            BY <1>5, <3>1, <3>2
    <2>3. PipeType'
        BY <1>1, <1>5, <2>2 DEF SessionInv, PipeType
    <2>4. HonestInv'
        BY <1>1, <1>5, <2>1, <2>2 DEF SessionInv, HonestInv, Honest, Eof
    <2>5. QED
        BY <1>2, <1>3, <2>3, <2>4 DEF SessionInv
<1>6. QED
    BY <1>4, <1>5 DEF Reader

-----------------------------------------------------------------------------
(* The steps of the server, of its native requests and of Run *)

(* The server reads: its turn starts with the one turn/start, if at all. *)
LEMMA ServerReadsStep == SessionInv /\ ServerReads => SessionInv'
<1> SUFFICES ASSUME SessionInv, ServerReads PROVE SessionInv'
    OBVIOUS
<1> DEFINE m == Head(toServer)
<1>1. UNCHANGED <<driver, run, reader, toDriver, service, written>>
    BY DEF ServerReads
<1>2. /\ toServer \in Seq(Sent) /\ Len(toServer) > 0
      /\ m = toServer[1] /\ m \in Sent
      /\ toServer' \in Seq(Sent) /\ Len(toServer') = Len(toServer) - 1
      /\ \A i \in 1..Len(toServer') : toServer'[i] = toServer[i + 1]
    BY DEF SessionInv, PipeType, ServerReads
<1>3. PICK turn \in IF m.kind = "call" /\ m.id = Len(Calls) THEN {"none", "running"}
                    ELSE {server.turn} :
        server' = [server EXCEPT
                     !.turn = turn,
                     !.pending = IF m.kind = "call" THEN @ \cup {m.id} ELSE @,
                     !.refused = IF m.kind = "refusal" THEN @ \cup {m.id} ELSE @]
    BY DEF ServerReads
<1>4. Len(Calls) = 6
    BY DEF Calls
<1>5. m.kind = "call" => m.id \in 1..6
    BY <1>2 DEF SessionInv, OnceInv
<1>6. m.id \in Id
    BY <1>2 DEF Sent
<1>7. ServerType /\ OnceInv /\ ResultInv /\ HonestInv /\ PassedInv
    BY DEF SessionInv
<1> HIDE DEF m
<1>8. ServerType' /\ server'.local = server.local /\ server'.exact = server.exact
                  /\ server'.turn = turn
    <2>1. turn \in {"none", "running", "completed", "failed"}
        BY <1>3, <1>7 DEF ServerType
    <2>2. (IF m.kind = "call" THEN server.pending \cup {m.id} ELSE server.pending)
             \in SUBSET (1..6)
        BY <1>5, <1>7 DEF ServerType
    <2>3. (IF m.kind = "refusal" THEN server.refused \cup {m.id} ELSE server.refused)
             \in SUBSET Id
        BY <1>6, <1>7 DEF ServerType
    <2>4. QED
        BY <1>3, <1>7, <2>1, <2>2, <2>3 DEF ServerType
<1>9. \/ ~StartsTurn(m) /\ turn = server.turn
      \/ StartsTurn(m) /\ server.turn = "none" /\ turn \in {"none", "running"}
    BY <1>2, <1>3, <1>4, <1>7 DEF OnceInv, StartsTurn
<1>10. OnceInv'
    <2>1. Unsent' = Unsent
        BY <1>1 DEF Unsent
    <2>2. StartsTurn(m) => ~Unsent
        BY <1>2, <1>7 DEF OnceInv
    <2>3. \A i \in 1..Len(toServer') : i + 1 \in 1..Len(toServer) /\ i + 1 # 1
        BY <1>2
    <2>4. CASE ~StartsTurn(m) /\ turn = server.turn
        <3>1. server'.turn = server.turn
            BY <1>8, <2>4
        <3>2. \A i, j \in 1..Len(toServer') : i + 1 = j + 1 => i = j
            BY <1>2
        <3>3. \A i \in 1..Len(toServer') :
                 /\ toServer'[i].kind = "call" => toServer'[i].id \in 1..6
                 /\ Unsent => ~StartsTurn(toServer'[i])
                 /\ StartsTurn(toServer'[i]) =>
                       /\ server'.turn = "none"
                       /\ \A j \in 1..Len(toServer') : StartsTurn(toServer'[j]) => i = j
            BY <1>2, <1>7, <2>3, <3>1, <3>2 DEF OnceInv
        <3>4. Unsent => server'.turn = "none"
            BY <1>7, <3>1 DEF OnceInv
        <3>5. QED
            BY <2>1, <3>3, <3>4 DEF OnceInv, StartsTurn
    <2>5. CASE StartsTurn(m)
        <3>1. \A i \in 1..Len(toServer') : ~StartsTurn(toServer'[i])
            BY <1>2, <1>7, <2>3, <2>5 DEF OnceInv
        <3>2. \A i \in 1..Len(toServer') :
                 toServer'[i].kind = "call" => toServer'[i].id \in 1..6
            BY <1>2, <1>7, <2>3 DEF OnceInv
        <3>3. ~Unsent'
            BY <2>1, <2>2, <2>5
        <3>4. QED
            BY <3>1, <3>2, <3>3 DEF OnceInv, StartsTurn
    <2>6. QED
        BY <1>9, <2>4, <2>5
<1>11. ResultInv' /\ HonestInv' /\ PassedInv'
    BY <1>1, <1>7, <1>8, <1>9 DEF ResultInv, HonestInv, Honest, PassedInv
<1>12. DriverType' /\ ServiceType' /\ PipeType'
    BY <1>1, <1>2 DEF SessionInv, DriverType, ServiceType, PipeType
<1>13. QED
    BY <1>8, <1>10, <1>11, <1>12 DEF SessionInv

(* What the server tells is so, now and later. *)
LEMMA EmitStep ==
    ASSUME SessionInv, NEW kind, NEW id, NEW result, Emit(kind, id, result),
           [kind |-> kind, id |-> id, result |-> result] \in Told,
           ServerType', server'.local = server.local, server'.exact = server.exact,
           \/ server'.turn = server.turn
           \/ server.turn = "running" /\ server'.turn \in {"completed", "failed"},
           Honest([kind |-> kind, id |-> id, result |-> result], server')
    PROVE  SessionInv'
<1> DEFINE m == [kind |-> kind, id |-> id, result |-> result]
<1>1. UNCHANGED <<driver, run, reader, toServer, service, written>>
    BY DEF Emit
<1>2. toDriver \in Seq(Told) /\ toDriver' = Append(toDriver, m)
    BY DEF Emit, SessionInv, PipeType
<1>3. /\ toDriver' \in Seq(Told) /\ Len(toDriver') = Len(toDriver) + 1
      /\ toDriver'[Len(toDriver) + 1] = m
      /\ \A i \in 1..Len(toDriver) : toDriver'[i] = toDriver[i]
      /\ Len(toDriver) \in Nat
    BY <1>2
<1>4. Honest(m, server')
    OBVIOUS
<1> HIDE DEF m
<1>5. DriverType' /\ ServiceType' /\ PipeType'
    BY <1>1, <1>3 DEF SessionInv, DriverType, ServiceType, PipeType
<1>6. PassedInv' /\ ResultInv'
    BY <1>1 DEF SessionInv, PassedInv, ResultInv
<1>7. OnceInv'
    <2>1. server.turn = "none" => server'.turn = "none"
        OBVIOUS
    <2>2. QED
        BY <1>1, <2>1 DEF SessionInv, OnceInv, Unsent, StartsTurn
<1>8. HonestInv'
    <2>1. \A i \in 1..Len(toDriver) : Honest(toDriver'[i], server')
        BY <1>3 DEF SessionInv, HonestInv, Honest
    <2>2. reader' # None => Honest(reader', server')
        BY <1>1 DEF SessionInv, HonestInv, Honest
    <2>3. QED
        BY <1>3, <1>4, <2>1, <2>2 DEF HonestInv, Honest
<1>9. QED
    BY <1>5, <1>6, <1>7, <1>8 DEF SessionInv

(* Answers, requests of its own and the end of its turn. *)
LEMMA ServerTells ==
    ASSUME SessionInv,
           \/ \E id \in server.pending : ServerAnswers(id)
           \/ \E id \in server.unasked : ServerAsks(id)
           \/ \E status \in {"completed", "failed"} : ServerCompletes(status)
    PROVE  SessionInv'
<1>1. ServerType
    BY DEF SessionInv
<1>2. CASE \E id \in server.pending : ServerAnswers(id)
    <2>1. PICK id \in server.pending : ServerAnswers(id)
        BY <1>2
    <2>2. id \in 1..6
        BY <1>1 DEF ServerType
    <2>3. PICK result \in Results(id) : Emit("response", id, result)
        BY <2>1 DEF ServerAnswers
    <2>4. /\ ServerType' /\ server'.turn = server.turn
          /\ server'.local = server.local /\ server'.exact = server.exact
        BY <1>1, <2>1 DEF ServerAnswers, ServerType
    <2>5. /\ result \in {"ok", "null", "unknown", "error", "other"}
          /\ id = 3 /\ result = "unknown" => ~server.local
          /\ id = 5 /\ result = "ok" => server.exact
        BY <2>2, <2>3 DEF Results, Calls
    <2> DEFINE m == [kind |-> "response", id |-> id, result |-> result]
    <2>6. m \in Told
        BY <2>2, <2>5 DEF Told, Id
    <2>7. Honest(m, server')
        BY <2>2, <2>4, <2>5 DEF Honest
    <2>8. QED
        BY <2>3, <2>4, <2>6, <2>7, EmitStep
<1>3. CASE \E id \in server.unasked : ServerAsks(id)
    <2>1. PICK id \in server.unasked : ServerAsks(id)
        BY <1>3
    <2>2. Emit("request", id, "null")
        BY <2>1 DEF ServerAsks
    <2>3. /\ ServerType' /\ server'.turn = server.turn
          /\ server'.local = server.local /\ server'.exact = server.exact
        BY <1>1, <2>1 DEF ServerAsks, ServerType
    <2> DEFINE m == [kind |-> "request", id |-> id, result |-> "null"]
    <2>4. m \in Told
        BY <1>1 DEF ServerType, Told, Id
    <2>5. Honest(m, server')
        BY DEF Honest
    <2>6. QED
        BY <2>2, <2>3, <2>4, <2>5, EmitStep
<1>4. CASE \E status \in {"completed", "failed"} : ServerCompletes(status)
    <2>1. PICK status \in {"completed", "failed"} : ServerCompletes(status)
        BY <1>4
    <2>2. Emit("completed", None, status) /\ server.turn = "running"
        BY <2>1 DEF ServerCompletes
    <2>3. /\ ServerType' /\ server'.turn = status
          /\ server'.local = server.local /\ server'.exact = server.exact
        BY <1>1, <2>1 DEF ServerCompletes, ServerType
    <2> DEFINE m == [kind |-> "completed", id |-> None, result |-> status]
    <2>4. m \in Told
        BY DEF Told, Id
    <2>5. Honest(m, server')
        BY <2>3 DEF Honest
    <2>6. QED
        BY <2>2, <2>3, <2>4, <2>5, EmitStep
<1>5. QED
    BY <1>2, <1>3, <1>4

(* What touches neither the driver nor the pipes nor what the server is. *)
LEMMA OtherStep ==
    ASSUME SessionInv,
           \/ ServerDies \/ Reap \/ Close \/ SessionDone \/ Interrupted
           \/ \E role \in Roles, op \in Op : HttpBegins(role, op)
           \/ \E h \in service.serving : HttpEnds(h)
           \/ UNCHANGED vars
    PROVE  SessionInv'
<1> USE DEF ServerDies, Reap, Close, SessionDone, Interrupted, Stopping, HttpBegins, HttpEnds,
            vars
<1>1. UNCHANGED <<driver, reader, toServer, toDriver>>
    OBVIOUS
<1>2. server' = server \/ server' = [server EXCEPT !.alive = FALSE]
    OBVIOUS
<1>3. \/ run' = run
      \/ run' = [run EXCEPT !.phase = "closed"]
      \/ run' = [phase |-> "stopping", result |-> driver.turn]
      \/ run' = [phase |-> "stopping", result |-> "interrupted"]
    OBVIOUS
<1>4. \/ service' = service
      \/ service' = [service EXCEPT !.serving = {}]
      \/ \E role \in Roles, op \in Op :
            service' = [service EXCEPT !.serving = @ \cup {[role |-> role, op |-> op]}]
      \/ \E h \in service.serving : service' = [service EXCEPT !.serving = @ \ {h}]
    OBVIOUS
<1>5. /\ ServerType' /\ server'.local = server.local /\ server'.exact = server.exact
      /\ server'.turn = server.turn
    BY <1>2 DEF SessionInv, ServerType
<1>6. ServiceType' /\ service'.bound = service.bound
    BY <1>4 DEF SessionInv, ServiceType, Request
<1>7. PipeType' /\ (run'.result = "completed" => server.turn = "completed")
    <2>1. run' \in [phase : {"running", "stopping", "closed"},
                    result : {None, "completed", "failed", "interrupted"}]
        BY <1>3 DEF SessionInv, PipeType, DriverType
    <2>2. run'.result \in {run.result, driver.turn, "interrupted"}
        BY <1>3 DEF SessionInv, PipeType
    <2>3. QED
        BY <1>1, <2>1, <2>2 DEF SessionInv, PipeType, ResultInv
<1> HIDE DEF ServerDies, Reap, Close, SessionDone, Interrupted, Stopping, HttpBegins, HttpEnds,
             vars
<1>8. DriverType' /\ PassedInv' /\ ResultInv'
    BY <1>1, <1>5, <1>6, <1>7 DEF SessionInv, DriverType, PassedInv, ResultInv
<1>9. HonestInv'
    BY <1>1, <1>5 DEF SessionInv, HonestInv, Honest
<1>10. OnceInv'
    BY <1>1, <1>5 DEF SessionInv, OnceInv, Unsent, StartsTurn
<1>11. QED
    BY <1>5, <1>6, <1>7, <1>8, <1>9, <1>10 DEF SessionInv

(* Every step keeps the inductive invariant, *)
LEMMA StepPreserves == SessionInv /\ [Next]_vars => SessionInv'
<1> SUFFICES ASSUME SessionInv, [Next]_vars PROVE SessionInv'
    OBVIOUS
<1>1. CASE Driver
    BY <1>1, DriverWrites, TakesStep, DriverStops DEF Driver
<1>2. CASE StartupExpires \/ Reader \/ ServerReads
    BY <1>2, DriverStops, ReaderStep, ServerReadsStep
<1>3. CASE \/ \E id \in server.pending : ServerAnswers(id)
           \/ \E id \in server.unasked : ServerAsks(id)
           \/ \E status \in {"completed", "failed"} : ServerCompletes(status)
    BY <1>3, ServerTells
<1>4. CASE \/ ServerDies \/ Reap \/ Close \/ SessionDone \/ Interrupted
           \/ \E role \in Roles, op \in Op : HttpBegins(role, op)
           \/ \E h \in service.serving : HttpEnds(h)
           \/ UNCHANGED vars
    BY <1>4, OtherStep
<1>5. QED
    BY <1>1, <1>2, <1>3, <1>4 DEF Next, Op

(* so that it holds in every reachable state. *)
LEMMA SessionInvariant == Spec => []SessionInv
<1>1. QED
    BY InitEstablishes, StepPreserves, PTL DEF Spec

(* The server runs a turn only if it has no local environment, no tool but *)
(* the store's and the thread that notes are bound to, and a session that  *)
(* reports success has had its turn completed (driveNativeSession).        *)
THEOREM TurnsAreVerified == Spec => []TurnIsVerified
<1>1. SessionInv => TurnIsVerified
    <2> SUFFICES ASSUME SessionInv PROVE TurnIsVerified
        OBVIOUS
    <2>1. server.turn # "none" => driver.call > 5
        BY DEF SessionInv, OnceInv, Unsent, DriverType
    <2>2. driver.call > 5 => driver.call > 3 /\ driver.call > 4
        BY DEF SessionInv, DriverType
    <2>3. service.bound => service.subject.model_tool = Thread
        BY DEF SessionInv, ServiceType, Subjects
    <2>4. QED
        BY <2>1, <2>2, <2>3 DEF SessionInv, PassedInv, ResultInv, TurnIsVerified
<1>2. QED
    BY <1>1, SessionInvariant, PTL

-----------------------------------------------------------------------------
(* The native writes *)

AuthorInv ==
    /\ \A h \in service.serving :
          /\ h.op = "note" => h.role = "model_tool" /\ service.bound
          /\ h.op = "package" => h.role = "installer"
    /\ \A w \in written :
          \/ w.op = "note" /\ w.thread = Thread
          \/ w.op = "package" /\ w.thread = "host"

(* Every step keeps what is known of the native writes. *)
LEMMA AuthorsStay == SessionInv /\ AuthorInv /\ [Next]_vars => AuthorInv'
<1> SUFFICES ASSUME SessionInv, AuthorInv, [Next]_vars PROVE AuthorInv'
    OBVIOUS
<1>1. ServiceType
    BY DEF SessionInv
<1>2. ASSUME NEW role \in Roles, NEW op \in Op, HttpBegins(role, op)
      PROVE  AuthorInv'
    <2> DEFINE h == [role |-> role, op |-> op]
    <2>1. /\ service'.serving = service.serving \cup {h}
          /\ service'.bound = service.bound /\ written' = written
        BY <1>1, <1>2 DEF HttpBegins, ServiceType
    <2>2. /\ op = "note" => role = "model_tool" /\ service.bound
          /\ op = "package" => role = "installer"
        BY <1>2 DEF HttpBegins, Admits
    <2>3. QED
        BY <2>1, <2>2 DEF AuthorInv
<1>3. ASSUME NEW h \in service.serving, HttpEnds(h)
      PROVE  AuthorInv'
    <2>1. /\ service'.serving = service.serving \ {h}
          /\ service'.bound = service.bound
          /\ written' = written \cup
               (IF h.op \in {"note", "package"}
                THEN {[op |-> h.op, thread |-> service.subject[h.role]]} ELSE {})
        BY <1>1, <1>3 DEF HttpEnds, ServiceType
    <2>2. /\ Subjects("bootstrap").installer = "host"
          /\ Subjects(Thread).model_tool = Thread
          /\ Subjects(Thread).installer = "host"
        BY DEF Subjects
    <2>3. service.subject = IF service.bound THEN Subjects(Thread) ELSE Subjects("bootstrap")
        BY <1>1 DEF ServiceType
    <2>4. \/ h.op \notin {"note", "package"}
          \/ h.op = "note" /\ service.subject[h.role] = Thread
          \/ h.op = "package" /\ service.subject[h.role] = "host"
        BY <2>2, <2>3 DEF AuthorInv
    <2>5. QED
        BY <2>1, <2>4 DEF AuthorInv
<1>4. ASSUME service'.bound \/ ~service.bound, service'.serving \subseteq service.serving,
             written' = written
      PROVE  AuthorInv'
    BY <1>4 DEF AuthorInv
<1>5. CASE DriverBinds
    BY <1>1, <1>4, <1>5 DEF DriverBinds, ServiceType
<1>6. CASE Close
    BY <1>1, <1>4, <1>6 DEF Close, ServiceType
<1>7. CASE UNCHANGED <<service, written>>
    BY <1>4, <1>7
<1>8. \/ DriverBinds \/ Close \/ UNCHANGED <<service, written>>
      \/ \E role \in Roles, op \in Op : HttpBegins(role, op)
      \/ \E h \in service.serving : HttpEnds(h)
    BY DEF Next, Driver, DriverSends, DriverInitialized, DriverRefuses, DriverTakes, DriverFails,
           Write, StartupExpires, Reader, ServerReads, ServerDies, ServerAnswers, ServerAsks,
           ServerCompletes, Emit, SessionDone, Interrupted, Reap, Stopping, Op, vars
<1>9. QED
    BY <1>2, <1>3, <1>5, <1>6, <1>7, <1>8

(* A package is written under the installer's name, and no note under the  *)
(* name the endpoint starts with (nativeService).                          *)
THEOREM WritesHaveAuthors == Spec => []WritesHaveTheirAuthor
<1>1. Init => AuthorInv
    BY DEF Init, AuthorInv
<1>2. AuthorInv => WritesHaveTheirAuthor
    BY DEF AuthorInv, WritesHaveTheirAuthor
<1>3. QED
    BY <1>1, <1>2, AuthorsStay, SessionInvariant, PTL DEF Spec
=============================================================================
