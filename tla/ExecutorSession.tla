-------------------------- MODULE ExecutorSession --------------------------
(***************************************************************************)
(* The tool calls of one session on their way to the remote computer and   *)
(* back: HTTP handlers of the tool gateway, the executor client with its   *)
(* mutex, the transport's two pipes, the executor's loop, the write of a   *)
(* file and the process tree of a command, with the timeouts on both ends  *)
(* (internal/toolgateway, internal/executor, claudenative/run.go).         *)
(*                                                                         *)
(* Time passes only while a command runs or something hangs: everything    *)
(* else is taken to be quick.  One unit is the HTTP server's write timeout.*)
(***************************************************************************)
EXTENDS Integers, Sequences, FiniteSets

CONSTANTS
    Call,           \* the tool calls of the session
    NoCall,         \* not a call
    Op,             \* what each call asks for: "read", "write" or "exec"
    Size,           \* MiB of content each call carries
    RequestedTimeout, \* the timeout_ms of each call, 0 when it has none
    BodyLimit,      \* MiB of an HTTP body (http.go:33)
    MaxContent,     \* MiB of a file (proto.go:25)
    LineLimit,      \* MiB of a protocol line (proto.go:106)
    Growth,         \* the most that JSON encoding lengthens a content
    DefaultTimeout, MaxTimeout, WriteTimeout,
    Faults,         \* what the environment does, of EveryFault
    Garbage         \* bytes on the transport's output that are no reply

EveryFault ==
    {"cut", "kill", "garbage", "detach", "close", "stall", "fifo", "stubborn"}

(* What a call has done, and what the client tells its caller.             *)
Result == Call \cup {"ok", "error", "exit", "timedout"}
ReplyLine == [id: Nat, answer: Result]

ASSUME ConstantsOK ==
    /\ NoCall \notin Result /\ Garbage \notin ReplyLine
    /\ Call \cap {"none", "running"} = {}
    /\ Op \in [Call -> {"read", "write", "exec"}]
    /\ Size \in [Call -> Nat]
    /\ RequestedTimeout \in [Call -> Nat]
    /\ {BodyLimit, MaxContent, LineLimit, Growth} \subseteq Nat
    /\ {DefaultTimeout, MaxTimeout, WriteTimeout} \subseteq Nat \ {0}
    /\ DefaultTimeout <= MaxTimeout
    /\ Faults \subseteq EveryFault

VARIABLES
    \* the trusted side
    phase,      \* where the handler of each call is
    age,        \* how long each handler has been at it, up to WriteTimeout
    outcome,    \* what Client.Call returned to it
    mu,         \* the calls inside the client's mutex
    next,       \* the id of the last request
    reqId,      \* the id of each call's request
    dead,       \* the call whose transport failure the client recorded
    session,    \* "open", "closing" (server shut down), "reaping" and "stuck"
                \* (Client.Close waits for the transport program), "closed"
    \* the transport
    up, down,   \* lines on their way to the executor and back
    cut,        \* the transport is gone
    stalled,    \* it is there, but nothing arrives on either end
    failed,     \* history: the environment broke or closed the transport
    \* the remote side
    server,     \* where the executor's loop is, and with which request
    tree,       \* which processes of the command still hold its output
    elapsed,    \* how long the command has run, up to its timeout
    file, temp, \* the contents of the file and of a write's temporary file
    result      \* what each call has done here

handlers  == <<phase, age, outcome>>
client    == <<mu, next, reqId, dead>>
transport == <<up, down, cut, stalled, failed>>
remote    == <<server, tree, elapsed, file, temp, result>>
vars      == <<handlers, client, session, transport, remote>>

NoTree == [leader |-> FALSE, group |-> FALSE, detached |-> FALSE]
Idle   == [at |-> "scan", id |-> 0, call |-> NoCall, answer |-> "none"]

Init ==
    /\ phase = [c \in Call |-> "new"]
    /\ age = [c \in Call |-> 0]
    /\ outcome = [c \in Call |-> "none"]
    /\ mu = {} /\ next = 0 /\ reqId = [c \in Call |-> 0] /\ dead = NoCall
    /\ session = "open"
    /\ up = <<>> /\ down = <<>>
    /\ cut = FALSE /\ stalled = FALSE /\ failed = FALSE
    /\ server = Idle /\ tree = NoTree /\ elapsed = 0
    /\ file = NoCall /\ temp = NoCall
    /\ result = [c \in Call |-> "none"]

-----------------------------------------------------------------------------
(* The trusted side *)

(* The handler reads the body, which may be too large, and the gateway     *)
(* builds a request.                                                       *)
Arrive(c) ==
    /\ session = "open" /\ phase[c] = "new"
    /\ IF Size[c] > BodyLimit
         THEN /\ phase' = [phase EXCEPT ![c] = "returned"]
              /\ outcome' = [outcome EXCEPT ![c] = "rejected"]
         ELSE phase' = [phase EXCEPT ![c] = "waiting"] /\ UNCHANGED outcome
    /\ UNCHANGED <<age, client, session, transport, remote>>

(* Faulty variant: the client without its mutex. *)
CanAlwaysLock == TRUE

(* Client.Close keeps the mutex while it waits for the transport program.  *)
CanLock == mu = {} /\ session \notin {"reaping", "stuck"}

(* Faulty variant: a way out of Client.Call that does not unlock. *)
ReturnLocked(c, answer) ==
    /\ phase' = [phase EXCEPT ![c] = "returned"]
    /\ outcome' = [outcome EXCEPT ![c] = answer]
    /\ UNCHANGED <<mu, age>>

Return(c, answer) ==
    /\ phase' = [phase EXCEPT ![c] = "returned"]
    /\ outcome' = [outcome EXCEPT ![c] = answer]
    /\ mu' = mu \ {c}
    /\ UNCHANGED age

(* die: the first failure is the one every later call reports.             *)
Die(c) ==
    /\ dead' = IF dead = NoCall THEN c ELSE dead
    /\ Return(c, "failed")

FailFast(c) ==
    /\ phase[c] = "waiting" /\ CanLock
    /\ dead # NoCall
    /\ Return(c, "failed")
    /\ UNCHANGED <<next, reqId, dead, session, transport, remote>>

NewRequest(c) ==
    /\ phase[c] = "waiting" /\ CanLock
    /\ dead = NoCall
    /\ next' = next + 1
    /\ reqId' = [reqId EXCEPT ![c] = next']

SendRequest(c) ==
    /\ NewRequest(c)
    /\ ~cut
    /\ mu' = mu \cup {c}
    /\ up' = Append(up, [id |-> next', call |-> c])
    /\ phase' = [phase EXCEPT ![c] = "sent"]
    /\ UNCHANGED <<age, outcome, dead, session, down, cut, stalled, failed, remote>>

FailSend(c) ==
    /\ NewRequest(c)
    /\ cut
    /\ Die(c)
    /\ UNCHANGED <<session, transport, remote>>

(* Nothing ends the wait for an answer but an answer or the end of the     *)
(* stream: Client.Call has no deadline.                                    *)
Receive(c) ==
    /\ c \in mu /\ ~stalled
    /\ down # <<>> /\ Head(down) # Garbage
    /\ down' = Tail(down)
    /\ IF Head(down).id = reqId[c]
         THEN Return(c, Head(down).answer) /\ UNCHANGED dead
         ELSE Die(c)
    /\ UNCHANGED <<next, reqId, session, up, cut, stalled, failed, remote>>

(* The end of the stream, or something the decoder does not understand.    *)
FailReceive(c) ==
    /\ c \in mu /\ ~stalled
    /\ IF down = <<>> THEN cut ELSE Head(down) = Garbage
    /\ Die(c)
    /\ UNCHANGED <<next, reqId, session, transport, remote>>

(* The HTTP server writes the response, unless its deadline has passed or  *)
(* it was closed.                                                          *)
Deliver(c) ==
    /\ phase[c] = "returned"
    /\ phase' = [phase EXCEPT ![c] =
           IF age[c] < WriteTimeout /\ session = "open" THEN "answered" ELSE "lost"]
    /\ UNCHANGED <<age, outcome, client, session, transport, remote>>

(* The session ends: the HTTP server is shut down, its handlers go on.     *)
BeginClose ==
    /\ "close" \in Faults /\ session = "open"
    /\ session' = "closing"
    /\ UNCHANGED <<handlers, client, transport, remote>>

(* What was on its way arrives or is lost. *)
Hangup ==
    /\ cut' = TRUE /\ failed' = TRUE /\ stalled' = FALSE
    /\ up' \in {up, <<>>}
    /\ down' \in {down, <<>>}

(* Client.Close: closes the pipe and sends the transport SIGTERM, ...      *)
CloseClient ==
    /\ session = "closing" /\ CanLock
    /\ session' = "reaping"
    /\ Hangup
    /\ UNCHANGED <<handlers, client, remote>>

(* ... and waits for it, ... *)
ReapTransport ==
    /\ session = "reaping"
    /\ session' = "closed"
    /\ UNCHANGED <<handlers, client, transport, remote>>

(* ... for as long as it likes, when it ignores SIGTERM. *)
IgnoreSigterm ==
    /\ "stubborn" \in Faults /\ session = "reaping"
    /\ session' = "stuck"
    /\ UNCHANGED <<handlers, client, transport, remote>>

TransportExits ==
    /\ session = "stuck"
    /\ session' = "closed"
    /\ UNCHANGED <<handlers, client, transport, remote>>

-----------------------------------------------------------------------------
(* The executor *)

Serving(op) ==
    /\ server.at = "scan" /\ up # <<>> /\ ~stalled
    /\ Op[Head(up).call] = op
    /\ Size[Head(up).call] * Growth <= LineLimit
    /\ up' = Tail(up)
    /\ UNCHANGED <<handlers, client, session, down, cut, stalled, failed>>

(* The request at hand has the given result, which is what Serve answers.  *)
Done(id, c, answer) ==
    /\ server' = [at |-> "reply", id |-> id, call |-> c, answer |-> answer]
    /\ result' = [result EXCEPT ![c] = answer]

Begin(id, c, step) == server' = [at |-> step, id |-> id, call |-> c, answer |-> "none"]

ServeRead ==
    /\ Serving("read")
    /\ file # NoCall
    /\ Done(Head(up).id, Head(up).call, file)
    /\ UNCHANGED <<tree, elapsed, file, temp>>

(* Server.read turns directories away, but opens a FIFO that nobody writes *)
(* to: os.ReadFile does not come back.                                     *)
BlockRead ==
    /\ "fifo" \in Faults /\ Serving("read")
    /\ Begin(Head(up).id, Head(up).call, "blocked")
    /\ UNCHANGED <<tree, elapsed, file, temp, result>>

(* Faulty variant: the file is written in place. *)
StartWriteInPlace ==
    /\ Serving("write")
    /\ Size[Head(up).call] <= MaxContent
    /\ temp' = Head(up).call /\ file' = temp'
    /\ Begin(Head(up).id, Head(up).call, "writing")
    /\ UNCHANGED <<tree, elapsed, result>>

StartWrite ==
    /\ Serving("write")
    /\ Size[Head(up).call] <= MaxContent
    /\ temp' = Head(up).call
    /\ Begin(Head(up).id, Head(up).call, "writing")
    /\ UNCHANGED <<tree, elapsed, file, result>>

StartCommand ==
    /\ Serving("exec")
    /\ tree' = [NoTree EXCEPT !.leader = TRUE]
    /\ elapsed' = 0
    /\ Begin(Head(up).id, Head(up).call, "running")
    /\ result' = [result EXCEPT ![Head(up).call] = "running"]
    /\ UNCHANGED <<file, temp>>

(* A file that is not there, a path that does not resolve, a program that  *)
(* cannot be started, ...                                                  *)
RefuseRequest ==
    /\ \E op \in {"read", "write", "exec"} : Serving(op)
    /\ Done(Head(up).id, Head(up).call, "error")
    /\ UNCHANGED <<tree, elapsed, file, temp>>

RenameWrite ==
    /\ server.at = "writing"
    /\ file' = temp
    /\ temp' = NoCall
    /\ Done(server.id, server.call, "ok")
    /\ UNCHANGED <<handlers, client, session, transport, tree, elapsed>>

FailWrite ==
    /\ server.at = "writing"
    /\ temp' = NoCall
    /\ Done(server.id, server.call, "error")
    /\ UNCHANGED <<handlers, client, session, transport, tree, elapsed, file>>

EffectiveTimeout(c) ==
    LET asked == IF RequestedTimeout[c] > 0 THEN RequestedTimeout[c] ELSE DefaultTimeout
    IN  IF asked > MaxTimeout THEN MaxTimeout ELSE asked

(* Faulty variant: only the leader of the group is killed. *)
ExpireLeaderOnly ==
    /\ server.at = "running"
    /\ elapsed >= EffectiveTimeout(server.call)
    /\ server' = [server EXCEPT !.at = "killed"]
    /\ tree' = [tree EXCEPT !.leader = FALSE]
    /\ UNCHANGED <<handlers, client, session, transport, elapsed, file, temp, result>>

(* The context expires; the command may have ended at the same moment, and *)
(* select takes either.  The kill reaches the command's process group.     *)
Expire ==
    /\ server.at = "running"
    /\ elapsed >= EffectiveTimeout(server.call)
    /\ server' = [server EXCEPT !.at = "killed"]
    /\ tree' = [tree EXCEPT !.leader = FALSE, !.group = FALSE]
    /\ UNCHANGED <<handlers, client, session, transport, elapsed, file, temp, result>>

(* cmd.Wait returns when the leader is gone and nobody holds the pipes.    *)
CommandOver ==
    /\ server.at \in {"running", "killed"}
    /\ tree = NoTree
    /\ Done(server.id, server.call, IF server.at = "killed" THEN "timedout" ELSE "exit")
    /\ UNCHANGED <<handlers, client, session, transport, tree, elapsed, file, temp>>

Reply ==
    /\ server.at = "reply" /\ ~cut
    /\ down' = Append(down, [id |-> server.id, answer |-> server.answer])
    /\ server' = Idle
    /\ UNCHANGED <<handlers, client, session, up, cut, stalled, failed, tree, elapsed,
                   file, temp, result>>

(* Serve returns: the input is at its end or holds a line too long for the *)
(* scanner, or the output is gone.                                         *)
EndServe ==
    /\ server.at \in {"scan", "reply"} /\ ~stalled
    /\ IF server.at = "scan" /\ up # <<>>
         THEN Size[Head(up).call] * Growth > LineLimit
         ELSE cut
    /\ server' = [Idle EXCEPT !.at = "ended"]
    /\ up' = <<>> /\ cut' = TRUE
    /\ UNCHANGED <<handlers, client, session, down, stalled, failed, tree, elapsed, file,
                   temp, result>>

-----------------------------------------------------------------------------
(* The environment *)

(* A command starts a process that inherits its output; one that calls     *)
(* setsid is in the command's process group no more.                       *)
Fork ==
    /\ server.at = "running" /\ (tree.leader \/ tree.group)
    /\ \E p \in {"group"} \cup (IF "detach" \in Faults THEN {"detached"} ELSE {}) :
           tree' = [tree EXCEPT ![p] = TRUE]
    /\ UNCHANGED <<handlers, client, session, transport, server, elapsed, file, temp, result>>

ProcessExits ==
    /\ \E p \in {"leader", "group", "detached"} :
           tree[p] /\ tree' = [tree EXCEPT ![p] = FALSE]
    /\ UNCHANGED <<handlers, client, session, transport, server, elapsed, file, temp, result>>

AtMost(n, bound) == IF n > bound THEN bound ELSE n

Tick ==
    /\ \/ server.at \in {"running", "killed", "blocked"}
       \/ stalled \/ session = "stuck"
    /\ elapsed' = IF server.at \in {"running", "killed"}
                    THEN AtMost(elapsed + 1, EffectiveTimeout(server.call)) ELSE elapsed
    /\ age' = [c \in Call |-> IF phase[c] \in {"waiting", "sent", "returned"}
                                THEN AtMost(age[c] + 1, WriteTimeout) ELSE age[c]]
    /\ UNCHANGED <<phase, outcome, client, session, transport, server, tree, file, temp, result>>

CutTransport ==
    /\ "cut" \in Faults /\ ~cut
    /\ Hangup
    /\ UNCHANGED <<handlers, client, session, remote>>

(* The network no longer carries anything, and neither end is told; it may *)
(* recover, or the transport gives up (CutTransport).  A stall while no    *)
(* call is inside the mutex shows when the next one is.                    *)
Stall ==
    /\ "stall" \in Faults /\ ~cut /\ mu # {}
    /\ stalled' = ~stalled
    /\ UNCHANGED <<handlers, client, session, up, down, cut, failed, remote>>

(* The executor is killed; a command it was running is not.  (While the    *)
(* transport is stalled nobody can tell: the kill comes after the stall.)  *)
KillServer ==
    /\ "kill" \in Faults /\ server.at # "ended" /\ ~stalled
    /\ server' = [Idle EXCEPT !.at = "ended"]
    /\ Hangup
    /\ UNCHANGED <<handlers, client, session, tree, elapsed, file, temp, result>>

(* The transport program prints something that is not a reply.             *)
PrintGarbage ==
    /\ "garbage" \in Faults /\ ~cut
    /\ \A i \in DOMAIN down : down[i] # Garbage
    /\ down' = Append(down, Garbage)
    /\ failed' = TRUE
    /\ UNCHANGED <<handlers, client, session, up, cut, stalled, remote>>

-----------------------------------------------------------------------------
Handler(c) ==
    \/ FailFast(c) \/ SendRequest(c) \/ FailSend(c)
    \/ Receive(c) \/ FailReceive(c) \/ Deliver(c)

Serve ==
    \/ ServeRead \/ BlockRead \/ StartWrite \/ StartCommand \/ RefuseRequest
    \/ RenameWrite \/ FailWrite \/ Expire \/ CommandOver
    \/ Reply \/ EndServe

Environment ==
    \/ Fork \/ ProcessExits \/ CutTransport \/ Stall \/ KillServer \/ PrintGarbage
    \/ BeginClose \/ IgnoreSigterm \/ TransportExits

Next ==
    \/ \E c \in Call : Arrive(c) \/ Handler(c)
    \/ CloseClient \/ ReapTransport \/ Serve \/ Tick \/ Environment

Spec == Init /\ [][Next]_vars

(* Both programs keep running and time passes.  The mutex is fair enough   *)
(* with weak fairness, for a session has finitely many calls.  No fairness *)
(* makes a command end, a stalled network carry again, a blocked read come *)
(* back or a transport exit that ignores SIGTERM.                          *)
FairSpec ==
    /\ Spec
    /\ \A c \in Call : WF_vars(Handler(c))
    /\ WF_vars(CloseClient) /\ WF_vars(ReapTransport)
    /\ WF_vars(Serve) /\ WF_vars(Tick)

-----------------------------------------------------------------------------
(* Properties *)

(* Every answer is that of the caller's own request, a request takes       *)
(* effect at most once, a reader sees whole files only, and after a        *)
(* transport failure no later call takes effect (Client.Call, die,         *)
(* Server.write).                                                          *)
Abstract == INSTANCE RemoteCalls WITH broken <- dead
ImplementsRemoteCalls == Abstract!ASpec

(* Concurrent callers and legal requests do not break a session: the       *)
(* client gives its transport up only when the transport failed, because   *)
(* the requests are serialised and no line of theirs is too long for the   *)
(* executor's scanner.                                                     *)
DeadOnlyByFault ==
    dead # NoCall => failed

(* What the code puts no limit to: an uncut transport that carries nothing *)
(* (client.go:93), a read of a FIFO (server.go:208), a process that has    *)
(* left its group and keeps the command's output open (server.go:384), a   *)
(* transport program that ignores SIGTERM (client.go:69).                  *)
Held ==
    \/ ~cut /\ (stalled \/ server.at = "blocked" \/ tree.detached)
    \/ session = "stuck"

(* Unless they are held again and again, or for ever, all calls that have  *)
(* arrived come back (a call never goes back to an earlier phase): the     *)
(* timeout kills the process group, a broken pipe is noticed even by a     *)
(* call whose request blocks the executor, and the mutex is passed on,     *)
(* Client.Close included.                                                  *)
EveryCallReturns ==
    <>[]~Held => []<>(\A c \in Call : phase[c] \in {"new", "answered", "lost"})

(* Client.Close waits for the call that holds the mutex, gets it and reaps *)
(* the transport, with the same exceptions.                                *)
CloseReturns ==
    <>[]~Held => []<>(session \in {"open", "closed"})

=============================================================================
