----------------------- MODULE ExecutorSessionProofs -----------------------
(***************************************************************************)
(* ExecutorSession, for any calls, sizes, timeouts and faults: it          *)
(* implements RemoteCalls, and the client gives its transport up only when *)
(* the environment broke it.                                               *)
(***************************************************************************)
EXTENDS ExecutorSession, SequenceTheorems, TLAPS

Phases  == {"new", "waiting", "sent", "returned", "answered", "lost"}
Results == Result \cup {"none", "running"}
Message == [id: Nat, call: Call]
ServerState ==
    [at: {"scan", "blocked", "writing", "running", "killed", "reply", "ended"}, id: Nat,
     call: Call \cup {NoCall}, answer: Result \cup {"none"}]

(* The types of the variables that the argument is about. *)
Types ==
    /\ phase \in [Call -> Phases]
    /\ outcome \in [Call -> Result \cup {"none", "failed", "rejected"}]
    /\ mu \in SUBSET Call /\ next \in Nat /\ reqId \in [Call -> Nat]
    /\ dead \in Call \cup {NoCall}
    /\ up \in Seq(Message) /\ down \in Seq(ReplyLine \cup {Garbage})
    /\ cut \in BOOLEAN /\ failed \in BOOLEAN
    /\ server \in ServerState
    /\ file \in Call \cup {NoCall} /\ temp \in Call \cup {NoCall}
    /\ result \in [Call -> Results]

(* One call at most is inside the client's mutex, and none once the        *)
(* transport was found broken; who has no answer has no request either, or *)
(* is the one inside.                                                      *)
ClientInv ==
    /\ \A c \in Call : c \in mu <=> phase[c] = "sent"
    /\ \A a, b \in mu : a = b
    /\ mu # {} => dead = NoCall
    /\ dead # NoCall => outcome[dead] # "none"
    /\ \A c \in Call :
          /\ outcome[c] = "none" <=> phase[c] \in {"new", "waiting", "sent"}
          /\ phase[c] \in {"new", "waiting"} => result[c] = "none"

(* Who may have a request on its way: the call inside the mutex, or the    *)
(* one that found the transport broken.                                    *)
Owner(c) == c \in mu \/ c = dead

Busy == server.at \in {"blocked", "writing", "running", "killed", "reply"}

Replies == {i \in DOMAIN down : down[i] # Garbage}

(* A request on its way is in one place: in the pipe, at the executor or,  *)
(* as a reply, on its way back.  What it has done is known from where it   *)
(* is.                                                                     *)
FlightInv ==
    /\ Len(up) <= 1
    /\ \A i \in DOMAIN up :
          /\ Owner(up[i].call) /\ up[i].id = reqId[up[i].call]
          /\ result[up[i].call] = "none"
    /\ Busy => up = <<>> /\ server.call \in Call /\ Owner(server.call)
               /\ server.id = reqId[server.call]
    /\ server.at = "blocked" => result[server.call] = "none"
    /\ server.at = "writing" => /\ result[server.call] = "none"
                                /\ temp = server.call /\ Op[server.call] = "write"
    /\ server.at \in {"running", "killed"} => result[server.call] = "running"
    /\ server.at = "reply" => /\ server.answer = result[server.call]
                              /\ server.answer \in Result
    /\ Replies # {} => up = <<>> /\ ~Busy
    /\ \A i, j \in Replies : i = j
    /\ \A i \in Replies : \E c \in Call :
          /\ Owner(c) /\ down[i].id = reqId[c]
          /\ down[i].answer = result[c] /\ result[c] \in Result

SessionInv == Types /\ ClientInv /\ FlightInv

(* Where a fault comes from. *)
FaultInv ==
    /\ (cut \/ dead # NoCall) => failed
    /\ \A i \in DOMAIN down : down[i] = Garbage => failed
    /\ \A c \in Call : phase[c] = "waiting" => Size[c] <= BodyLimit
    /\ \A i \in DOMAIN up : Size[up[i].call] <= BodyLimit

-----------------------------------------------------------------------------
(* SessionInv holds in the beginning. *)
LEMMA InitSessionInv == Init => SessionInv
<1> SUFFICES ASSUME Init PROVE SessionInv
  OBVIOUS
<1>1. Types
  <2>1. up \in Seq(Message) /\ down \in Seq(ReplyLine \cup {Garbage})
    BY DEF Init
  <2>2. server \in ServerState
    BY DEF Init, Idle, ServerState
  <2> QED
    BY <2>1, <2>2 DEF Init, Types, Phases, Results
<1>2. ClientInv
  BY DEF Init, ClientInv
<1>3. FlightInv
  BY DEF Init, FlightInv, Busy, Replies, Idle
<1> QED
  BY <1>1, <1>2, <1>3 DEF SessionInv

(* A request on its way names its call and its id. *)
LEMMA MessageType ==
  ASSUME Types
  PROVE  /\ Len(up) \in Nat /\ DOMAIN up = 1..Len(up)
         /\ Len(up) = 0 => up = <<>>
         /\ \A i \in DOMAIN up : up[i].call \in Call /\ up[i].id \in Nat
<1>1. up \in Seq(Message)
  BY DEF Types
<1>2. \A m \in Message : m.call \in Call /\ m.id \in Nat
  BY DEF Message
<1>3. \A i \in DOMAIN up : up[i] \in Message
  BY <1>1
<1> QED
  BY <1>1, <1>2, <1>3

(* Nothing is on its way when nobody waits inside the mutex and the        *)
(* transport is not known to be broken.                                    *)
LEMMA NothingOnItsWay ==
  ASSUME SessionInv, mu = {}, dead = NoCall
  PROVE  up = <<>> /\ ~Busy /\ Replies = {}
<1>1. \A c \in Call : ~Owner(c)
  BY ConstantsOK DEF Owner, Result
<1>2. up = <<>>
  <2>1. Len(up) # 0 => 1 \in DOMAIN up /\ up[1].call \in Call
    BY MessageType DEF SessionInv
  <2>2. Len(up) = 0
    BY <1>1, <2>1 DEF SessionInv, FlightInv
  <2> QED
    BY <2>2, MessageType DEF SessionInv
<1>3. ~Busy
  BY <1>1 DEF SessionInv, FlightInv
<1>4. Replies = {}
  BY <1>1 DEF SessionInv, FlightInv
<1> QED
  BY <1>2, <1>3, <1>4

LEMMA ArriveInv ==
  ASSUME SessionInv, NEW c \in Call, Arrive(c)
  PROVE  SessionInv'
<1> USE DEF SessionInv, Arrive, client, transport, remote
<1>1. Types'
  BY DEF Types, Phases
<1>2. ClientInv'
  BY DEF ClientInv, Types
<1>3. FlightInv'
  BY DEF FlightInv, Owner, Busy, Replies
<1> QED
  BY <1>1, <1>2, <1>3

LEMMA FailFastInv ==
  ASSUME SessionInv, NEW c \in Call, FailFast(c)
  PROVE  SessionInv'
<1> USE DEF SessionInv, FailFast, Return, CanLock, transport, remote
<1>1. Types'
  BY DEF Types, Phases
<1>2. ClientInv'
  BY DEF ClientInv, Types
<1>3. FlightInv'
  BY DEF FlightInv, Owner, Busy, Replies
<1> QED
  BY <1>1, <1>2, <1>3

LEMMA SendRequestInv ==
  ASSUME SessionInv, NEW c \in Call, SendRequest(c)
  PROVE  SessionInv'
<1> USE DEF SessionInv, SendRequest, NewRequest, CanLock, remote
<1> DEFINE m == [id |-> next', call |-> c]
<1>1. up = <<>> /\ ~Busy /\ Replies = {}
  BY NothingOnItsWay
<1>2. m \in Message /\ m.id = next' /\ m.call = c
  BY DEF Types, Message
<1>3. up' = Append(up, m) /\ Len(up) = 0 /\ up \in Seq(Message)
  BY <1>1 DEF Types
<1> HIDE DEF m
<1>4. Len(up') = 1 /\ up'[1] = m /\ DOMAIN up' = {1} /\ up' \in Seq(Message)
  BY <1>2, <1>3
<1>5. Types'
  BY <1>4 DEF Types, Phases
<1>6. ClientInv'
  BY DEF ClientInv, Types
<1>7. FlightInv'
  <2>1. result[c] = "none"
    BY DEF ClientInv
  <2>2. reqId'[c] = next' /\ c \in mu'
    BY DEF Types
  <2>3. ~Busy' /\ Replies' = {}
    BY <1>1 DEF Busy, Replies
  <2>4. \A i \in DOMAIN up' : i = 1 /\ up'[i].call = c /\ up'[i].id = next'
    BY <1>2, <1>4
  <2> QED
    BY <1>4, <2>1, <2>2, <2>3, <2>4 DEF FlightInv, Owner, Busy, Replies
<1> QED
  BY <1>5, <1>6, <1>7

LEMMA FailSendInv ==
  ASSUME SessionInv, NEW c \in Call, FailSend(c)
  PROVE  SessionInv'
<1> USE DEF SessionInv, FailSend, NewRequest, CanLock, Die, Return, transport, remote
<1>1. up = <<>> /\ ~Busy /\ Replies = {}
  BY NothingOnItsWay
<1>2. Types'
  BY DEF Types, Phases
<1>3. ClientInv'
  BY DEF ClientInv, Types
<1>4. FlightInv'
  <2>1. up' = <<>> /\ ~Busy' /\ Replies' = {}
    BY <1>1 DEF Busy, Replies
  <2> QED
    BY <2>1 DEF FlightInv, Busy, Types
<1> QED
  BY <1>2, <1>3, <1>4

(* The reply that comes first is that of the call inside. *)
LEMMA ReceivesItsOwn ==
  ASSUME SessionInv, NEW c \in Call, Receive(c)
  PROVE  /\ down \in Seq(ReplyLine \cup {Garbage}) /\ Len(down) # 0
         /\ 1 \in Replies /\ up = <<>> /\ ~Busy
         /\ Head(down).id = reqId[c]
         /\ Head(down).answer = result[c] /\ result[c] \in Result
<1>1. down \in Seq(ReplyLine \cup {Garbage}) /\ Len(down) # 0 /\ Head(down) = down[1]
  BY DEF Receive, SessionInv, Types
<1>2. 1 \in Replies
  BY <1>1 DEF Receive, Replies
<1>3. PICK d \in Call : /\ Owner(d) /\ down[1].id = reqId[d]
                        /\ down[1].answer = result[d] /\ result[d] \in Result
  BY <1>2 DEF SessionInv, FlightInv
<1>4. d = c
  <2>1. c \in mu /\ dead = NoCall /\ \A a, b \in mu : a = b
    BY DEF SessionInv, ClientInv, Receive
  <2> QED
    BY <1>3, <2>1, ConstantsOK DEF Owner, Result
<1> QED
  BY <1>1, <1>2, <1>3, <1>4 DEF SessionInv, FlightInv

LEMMA ReceiveInv ==
  ASSUME SessionInv, NEW c \in Call, Receive(c)
  PROVE  SessionInv'
<1> USE DEF SessionInv, Receive, Return, remote
<1>1. /\ down \in Seq(ReplyLine \cup {Garbage}) /\ Len(down) # 0
      /\ 1 \in Replies /\ up = <<>> /\ ~Busy
      /\ Head(down).id = reqId[c]
      /\ Head(down).answer = result[c] /\ result[c] \in Result
  BY ReceivesItsOwn
<1>2. /\ phase' = [phase EXCEPT ![c] = "returned"]
      /\ outcome' = [outcome EXCEPT ![c] = result[c]]
      /\ mu' = mu \ {c} /\ down' = Tail(down)
      /\ UNCHANGED <<next, reqId, dead, up, cut, failed, server, file, temp, result>>
  BY <1>1
<1>3. /\ down' \in Seq(ReplyLine \cup {Garbage})
      /\ \A i \in DOMAIN down' : i + 1 \in DOMAIN down /\ down'[i] = down[i + 1]
  BY <1>1, <1>2
<1>4. Replies' = {}
  BY <1>1, <1>3 DEF FlightInv, Replies
<1>5. Types'
  BY <1>1, <1>2, <1>3 DEF Types, Phases
<1>6. ClientInv'
  <2>1. outcome'[c] # "none"
    BY <1>1, <1>2, ConstantsOK DEF Types, Result
  <2>2. phase'[c] = "returned" /\ c \in mu
    BY <1>2 DEF Types
  <2> QED
    BY <1>2, <2>1, <2>2 DEF ClientInv, Types
<1>7. FlightInv'
  <2>1. up' = <<>> /\ ~Busy'
    BY <1>1, <1>2 DEF Busy
  <2> QED
    BY <1>4, <2>1 DEF FlightInv, Busy, Types
<1> QED
  BY <1>5, <1>6, <1>7

LEMMA FailReceiveInv ==
  ASSUME SessionInv, NEW c \in Call, FailReceive(c)
  PROVE  SessionInv'
<1> USE DEF SessionInv, FailReceive, Die, Return, transport, remote
<1>1. dead = NoCall /\ dead' = c /\ mu' = {} /\ mu = {c}
  BY DEF ClientInv, Types
<1>2. Types'
  BY DEF Types, Phases
<1>3. ClientInv'
  BY <1>1 DEF ClientInv, Types
<1>4. FlightInv'
  <2>1. \A d \in Call : Owner(d) => Owner(d)'
    BY <1>1, ConstantsOK DEF Owner, Result
  <2>2. UNCHANGED <<up, down, server, result, reqId, temp>>
    OBVIOUS
  <2>3. \A i \in DOMAIN up : up[i].call \in Call
    BY MessageType
  <2> QED
    BY <2>1, <2>2, <2>3 DEF FlightInv, Busy, Replies
<1> QED
  BY <1>2, <1>3, <1>4

LEMMA DeliverInv ==
  ASSUME SessionInv, NEW c \in Call, Deliver(c)
  PROVE  SessionInv'
<1> USE DEF SessionInv, Deliver, client, transport, remote
<1>1. Types'
  BY DEF Types, Phases
<1>2. ClientInv'
  BY DEF ClientInv, Types
<1>3. FlightInv'
  BY DEF FlightInv, Owner, Busy, Replies
<1> QED
  BY <1>1, <1>2, <1>3

(* Steps that touch neither the client nor what is on its way. *)
LEMMA QuietInv ==
  ASSUME SessionInv,
         UNCHANGED <<phase, outcome, client, up, down, cut, failed, server, file, temp, result>>
  PROVE  SessionInv'
<1> USE DEF SessionInv, client
<1>1. Types'
  BY DEF Types
<1>2. ClientInv'
  BY DEF ClientInv
<1>3. FlightInv'
  BY DEF FlightInv, Owner, Busy, Replies
<1> QED
  BY <1>1, <1>2, <1>3

(* The transport loses what it carries, or does not; the executor may be   *)
(* gone with it.                                                           *)
LEMMA HangupInv ==
  ASSUME SessionInv, Hangup, UNCHANGED <<handlers, client, file, temp, result>>,
         server' = server \/ (server' \in ServerState /\ server'.at = "ended")
  PROVE  SessionInv'
<1> USE DEF SessionInv, Hangup, handlers, client
<1>1. Types'
  <2>1. up' \in Seq(Message) /\ down' \in Seq(ReplyLine \cup {Garbage})
    <3>1. up \in Seq(Message) /\ down \in Seq(ReplyLine \cup {Garbage})
      BY DEF Types
    <3>2. <<>> \in Seq(Message) /\ <<>> \in Seq(ReplyLine \cup {Garbage})
      BY EmptySeq
    <3> QED
      BY <3>1, <3>2
  <2> QED
    BY <2>1 DEF Types
<1>2. ClientInv'
  BY DEF ClientInv
<1>3. FlightInv'
  <2>1. server' = server \/ (~Busy' /\ server'.at = "ended")
    BY DEF Busy
  <2>2. Busy' => Busy /\ server' = server
    BY <2>1 DEF Busy
  <2>3. (up' = up \/ up' = <<>>) /\ (down' = down \/ Replies' = {})
    BY DEF Replies
  <2>4. down' = down => Replies' = Replies
    BY DEF Replies
  <2>5. Len(up') <= 1
    BY <2>3 DEF FlightInv
  <2>6. \A i \in DOMAIN up' : i \in DOMAIN up /\ up'[i] = up[i]
    BY <2>3
  <2> QED
    BY <2>1, <2>2, <2>3, <2>4, <2>5, <2>6 DEF FlightInv, Owner, Busy
<1> QED
  BY <1>1, <1>2, <1>3

(* The request at the head of the pipe. *)
LEMMA HeadOfUp ==
  ASSUME SessionInv, up # <<>>
  PROVE  /\ Head(up).call \in Call /\ Head(up).id \in Nat
         /\ Owner(Head(up).call) /\ Head(up).id = reqId[Head(up).call]
         /\ result[Head(up).call] = "none"
         /\ Tail(up) = <<>> /\ Replies = {}
<1>1. up \in Seq(Message) /\ Len(up) = 1 /\ 1 \in DOMAIN up
  <2>1. Len(up) <= 1
    BY DEF SessionInv, FlightInv
  <2>2. up \in Seq(Message) /\ Len(up) \in Nat /\ Len(up) # 0 /\ DOMAIN up = 1..Len(up)
    BY MessageType DEF SessionInv, Types
  <2> QED
    BY <2>1, <2>2
<1>2. Head(up) = up[1]
  BY <1>1
<1>3. Tail(up) = <<>>
  <2>1. Tail(up) \in Seq(Message) /\ Len(Tail(up)) = 0
    BY <1>1, HeadTailProperties
  <2> QED
    BY <2>1, EmptySeq
<1> QED
  BY <1>1, <1>2, <1>3, MessageType DEF SessionInv, FlightInv

(* Who may have a request on its way has made one. *)
LEMMA OwnerAsked ==
  ASSUME SessionInv, NEW c \in Call, Owner(c)
  PROVE  phase[c] \notin {"new", "waiting"}
<1>1. outcome[c] # "none" \/ phase[c] = "sent"
  BY ConstantsOK DEF Owner, Result, SessionInv, ClientInv
<1> QED
  BY <1>1 DEF SessionInv, ClientInv

(* The empty pipe has no message. *)
LEMMA NothingInEmpty == Len(<<>>) <= 1 /\ DOMAIN <<>> = {}
OBVIOUS

(* The executor answers a request without further ado. *)
LEMMA ServesAtOnce ==
  ASSUME SessionInv, NEW op, Serving(op), NEW answer \in Result,
         NEW c, NEW id, c = Head(up).call, id = Head(up).id,
         Done(id, c, answer), UNCHANGED <<file, temp>>
  PROVE  SessionInv'
<1> DEFINE r == [at |-> "reply", id |-> id, call |-> c, answer |-> answer]
<1> USE DEF SessionInv, Serving, handlers, client
<1>1. /\ c \in Call /\ id \in Nat /\ Owner(c) /\ id = reqId[c]
      /\ up' = <<>> /\ Replies = {} /\ result[c] = "none"
  BY HeadOfUp
<1>2. server' = r /\ result' = [result EXCEPT ![c] = answer]
  BY DEF Done
<1>3. /\ r \in ServerState
      /\ r.at = "reply" /\ r.id = reqId[c] /\ r.call = c /\ r.answer = answer
  BY <1>1 DEF ServerState
<1> HIDE DEF r
<1>4. result' \in [Call -> Results]
  BY <1>1, <1>2 DEF Types, Results
<1>5. Types'
  BY <1>1, <1>2, <1>3, <1>4 DEF Types
<1>6. ClientInv'
  <2>1. phase[c] \notin {"new", "waiting"}
    BY <1>1, OwnerAsked
  <2> QED
    BY <1>1, <1>2, <2>1 DEF ClientInv, Types
<1>7. FlightInv'
  <2>1. Owner(c)' /\ Replies' = {} /\ result'[c] = answer
    BY <1>1, <1>2 DEF Owner, Replies, Types
  <2>2. Len(up') <= 1 /\ DOMAIN up' = {}
    BY <1>1, NothingInEmpty
  <2>3. ~(server'.at = "writing") /\ server'.at \notin {"running", "killed"} /\ Busy'
    BY <1>2, <1>3 DEF Busy
  <2> QED
    BY <1>1, <1>2, <1>3, <2>1, <2>2, <2>3 DEF FlightInv
<1> QED
  BY <1>5, <1>6, <1>7

(* The executor begins to read or write a file or starts a command. *)
LEMMA BeginsWork ==
  ASSUME SessionInv, NEW op, Serving(op), NEW c, NEW id,
         c = Head(up).call, id = Head(up).id, NEW step, Begin(id, c, step),
         \/ step = "blocked" /\ UNCHANGED <<file, temp, result>>
         \/ step = "writing" /\ op = "write" /\ temp' = c /\ UNCHANGED <<file, result>>
         \/ /\ step = "running" /\ result' = [result EXCEPT ![c] = "running"]
            /\ UNCHANGED <<file, temp>>
  PROVE  SessionInv'
<1> DEFINE r == [at |-> step, id |-> id, call |-> c, answer |-> "none"]
<1> USE DEF SessionInv, Serving, handlers, client
<1>1. /\ c \in Call /\ id \in Nat /\ Owner(c) /\ id = reqId[c] /\ (op = "write" => Op[c] = "write")
      /\ up' = <<>> /\ Replies = {} /\ result[c] = "none"
  BY HeadOfUp
<1>2. server' = r
  BY DEF Begin
<1>3. /\ r \in ServerState
      /\ r.at = step /\ r.id = reqId[c] /\ r.call = c
  BY <1>1 DEF ServerState
<1> HIDE DEF r
<1>4. /\ result' \in [Call -> Results]
      /\ \A d \in Call : d # c => result'[d] = result[d]
  BY <1>1 DEF Types, Results
<1>5. Types'
  BY <1>1, <1>2, <1>3, <1>4 DEF Types
<1>6. ClientInv'
  <2>1. phase[c] \notin {"new", "waiting"}
    BY <1>1, OwnerAsked
  <2> QED
    BY <1>1, <1>2, <1>4, <2>1 DEF ClientInv, Types
<1>7. FlightInv'
  <2>1. Owner(c)' /\ Replies' = {}
    BY <1>1, <1>2 DEF Owner, Replies, Types
  <2>2. Len(up') <= 1 /\ DOMAIN up' = {}
    BY <1>1, NothingInEmpty
  <2>3. server'.at = step /\ server'.call = c /\ server'.id = reqId'[c]
    BY <1>2, <1>3
  <2>4. step = "writing" => result'[c] = "none" /\ temp' = c /\ Op[c] = "write"
    BY <1>1
  <2>5. /\ step = "running" => result'[c] = "running"
        /\ step = "blocked" => result'[c] = "none"
    BY <1>1 DEF Types
  <2> QED
    BY <1>1, <2>1, <2>2, <2>3, <2>4, <2>5 DEF FlightInv, Busy
<1> QED
  BY <1>5, <1>6, <1>7

(* The executor is done with what it was at. *)
LEMMA Finishes ==
  ASSUME SessionInv, server.at \in {"writing", "running", "killed"},
         NEW answer \in Result, Done(server.id, server.call, answer),
         UNCHANGED <<handlers, client, transport>>,
         file' \in Call \cup {NoCall}, temp' \in Call \cup {NoCall}
  PROVE  SessionInv'
<1> USE DEF SessionInv, handlers, client, transport
<1>1. PICK c \in Call : c = server.call
  BY DEF FlightInv, Busy
<1> DEFINE r == [at |-> "reply", id |-> server.id, call |-> c, answer |-> answer]
<1>2. /\ Owner(c) /\ server.id = reqId[c] /\ server.id \in Nat
      /\ up = <<>> /\ Replies = {} /\ result[c] \in {"none", "running"}
  BY <1>1 DEF FlightInv, Busy, Types
<1>3. server' = r /\ result' = [result EXCEPT ![c] = answer]
  BY <1>1 DEF Done
<1>4. /\ r \in ServerState
      /\ r.at = "reply" /\ r.id = reqId[c] /\ r.call = c /\ r.answer = answer
  BY <1>1, <1>2 DEF ServerState
<1> HIDE DEF r
<1>5. result' \in [Call -> Results]
  BY <1>3 DEF Types, Results
<1>6. Types'
  BY <1>3, <1>4, <1>5 DEF Types
<1>7. ClientInv'
  <2>1. phase[c] \notin {"new", "waiting"}
    BY <1>2, OwnerAsked
  <2> QED
    BY <1>3, <2>1 DEF ClientInv, Types
<1>8. FlightInv'
  <2>1. Owner(c)' /\ Replies' = {} /\ result'[c] = answer
    BY <1>2, <1>3 DEF Owner, Replies, Types
  <2>2. up' = <<>> /\ Len(up') <= 1 /\ DOMAIN up' = {}
    BY <1>2, NothingInEmpty
  <2>3. ~(server'.at = "writing") /\ server'.at \notin {"running", "killed"} /\ Busy'
    BY <1>3, <1>4 DEF Busy
  <2> QED
    BY <1>2, <1>3, <1>4, <2>1, <2>2, <2>3 DEF FlightInv
<1> QED
  BY <1>6, <1>7, <1>8

LEMMA ExpireInv ==
  ASSUME SessionInv, Expire
  PROVE  SessionInv'
<1> USE DEF SessionInv, Expire, handlers, client, transport
<1>1. /\ server' \in ServerState /\ server'.at = "killed"
      /\ server'.call = server.call /\ server'.id = server.id
  BY DEF Types, ServerState
<1>2. Types'
  BY <1>1 DEF Types
<1>3. ClientInv'
  BY DEF ClientInv
<1>4. FlightInv'
  BY <1>1 DEF FlightInv, Owner, Busy, Replies
<1> QED
  BY <1>2, <1>3, <1>4

LEMMA ReplyInv ==
  ASSUME SessionInv, Reply
  PROVE  SessionInv'
<1> USE DEF SessionInv, Reply, handlers, client
<1>1. PICK c \in Call : c = server.call
  BY DEF FlightInv, Busy
<1> DEFINE r == [id |-> server.id, answer |-> server.answer]
<1>2. /\ Owner(c) /\ server.id = reqId[c] /\ server.id \in Nat
      /\ up = <<>> /\ Replies = {} /\ server.answer = result[c] /\ result[c] \in Result
  BY <1>1 DEF FlightInv, Busy, Types
<1>3. r \in ReplyLine /\ r.id = reqId[c] /\ r.answer = result[c] /\ r # Garbage
  BY <1>2, ConstantsOK DEF ReplyLine
<1>4. down' = Append(down, r) /\ down \in Seq(ReplyLine \cup {Garbage})
  BY DEF Types
<1> HIDE DEF r
<1>5. /\ down' \in Seq(ReplyLine \cup {Garbage}) /\ Len(down) \in Nat
      /\ DOMAIN down' = 1..(Len(down) + 1) /\ DOMAIN down = 1..Len(down)
      /\ down'[Len(down) + 1] = r /\ \A i \in DOMAIN down : down'[i] = down[i]
  BY <1>3, <1>4
<1>6. Replies' = {Len(down) + 1}
  BY <1>2, <1>3, <1>5 DEF Replies
<1>7. server' \in ServerState /\ server'.at = "scan"
  BY DEF Idle, ServerState
<1>8. Types'
  BY <1>5, <1>7 DEF Types
<1>9. ClientInv'
  BY DEF ClientInv
<1>10. FlightInv'
  <2>1. Owner(c)'
    BY <1>2 DEF Owner
  <2>2. up' = <<>> /\ Len(up') <= 1 /\ DOMAIN up' = {}
    BY <1>2, NothingInEmpty
  <2>3. ~(server'.at = "writing") /\ server'.at \notin {"running", "killed"} /\ ~Busy'
    BY <1>7 DEF Busy
  <2>4. \A i \in Replies' : down'[i].id = reqId'[c] /\ down'[i].answer = result'[c]
    BY <1>3, <1>5, <1>6
  <2> QED
    BY <1>2, <1>6, <1>7, <2>1, <2>2, <2>3, <2>4 DEF FlightInv
<1> QED
  BY <1>8, <1>9, <1>10

LEMMA EndServeInv ==
  ASSUME SessionInv, EndServe
  PROVE  SessionInv'
<1> USE DEF SessionInv, EndServe, handlers, client
<1>1. server' \in ServerState /\ server'.at = "ended"
  BY DEF Idle, ServerState
<1>2. up' \in Seq(Message)
  BY EmptySeq
<1>3. Types'
  BY <1>1, <1>2 DEF Types
<1>4. ClientInv'
  BY DEF ClientInv
<1>5. FlightInv'
  <2>1. ~Busy' /\ Replies' = Replies
    BY <1>1 DEF Busy, Replies
  <2>2. up' = <<>> /\ Len(up') <= 1 /\ DOMAIN up' = {}
    BY NothingInEmpty
  <2> QED
    BY <1>1, <2>1, <2>2 DEF FlightInv, Owner
<1> QED
  BY <1>3, <1>4, <1>5

LEMMA PrintGarbageInv ==
  ASSUME SessionInv, PrintGarbage
  PROVE  SessionInv'
<1> USE DEF SessionInv, PrintGarbage, handlers, client, remote
<1>1. /\ down' = Append(down, Garbage) /\ down \in Seq(ReplyLine \cup {Garbage})
  BY DEF Types
<1>2. /\ down' \in Seq(ReplyLine \cup {Garbage}) /\ Len(down) \in Nat
      /\ DOMAIN down' = 1..(Len(down) + 1) /\ DOMAIN down = 1..Len(down)
      /\ down'[Len(down) + 1] = Garbage /\ \A i \in DOMAIN down : down'[i] = down[i]
  BY <1>1
<1>3. Replies' = Replies /\ \A i \in Replies : down'[i] = down[i]
  BY <1>2 DEF Replies
<1>4. Types'
  BY <1>2 DEF Types
<1>5. ClientInv'
  BY DEF ClientInv
<1>6. FlightInv'
  <2>1. UNCHANGED <<mu, dead, up, server, result, reqId, temp>>
    OBVIOUS
  <2>2. /\ Replies' # {} => up' = <<>> /\ ~Busy'
        /\ \A i, j \in Replies' : i = j
    BY <1>3, <2>1 DEF FlightInv, Busy
  <2>3. (\A i \in Replies : \E c \in Call :
           /\ Owner(c) /\ down[i].id = reqId[c]
           /\ down[i].answer = result[c] /\ result[c] \in Result)'
    <3>1. (\A i \in Replies : \E c \in Call :
             /\ Owner(c) /\ down[i].id = reqId[c]
             /\ down[i].answer = result[c] /\ result[c] \in Result)
      BY DEF FlightInv
    <3>2. Replies' = Replies /\ \A i \in Replies : down'[i] = down[i]
      BY <1>3
    <3> HIDE DEF SessionInv, PrintGarbage
    <3> QED
      BY <2>1, <3>1, <3>2 DEF Owner
  <2>4. (/\ Len(up) <= 1
         /\ \A i \in DOMAIN up :
               /\ Owner(up[i].call) /\ up[i].id = reqId[up[i].call]
               /\ result[up[i].call] = "none")'
    BY <2>1 DEF FlightInv, Owner
  <2>5. (Busy => up = <<>> /\ server.call \in Call /\ Owner(server.call)
                 /\ server.id = reqId[server.call])'
    BY <2>1 DEF FlightInv, Owner, Busy
  <2>6. (/\ server.at = "blocked" => result[server.call] = "none"
         /\ server.at = "writing" => /\ result[server.call] = "none"
                                    /\ temp = server.call /\ Op[server.call] = "write"
         /\ server.at \in {"running", "killed"} => result[server.call] = "running"
         /\ server.at = "reply" => /\ server.answer = result[server.call]
                                  /\ server.answer \in Result)'
    BY <2>1 DEF FlightInv
  <2> QED
    BY <2>2, <2>3, <2>4, <2>5, <2>6 DEF FlightInv
<1> QED
  BY <1>4, <1>5, <1>6

LEMMA NextSessionInv == SessionInv /\ [Next]_vars => SessionInv'
<1> SUFFICES ASSUME SessionInv, [Next]_vars
             PROVE  SessionInv'
  OBVIOUS
<1>1. ASSUME NEW c \in Call, Arrive(c) PROVE SessionInv'
  BY <1>1, ArriveInv
<1>2. ASSUME NEW c \in Call, Handler(c) PROVE SessionInv'
  BY <1>2, FailFastInv, SendRequestInv, FailSendInv, ReceiveInv, FailReceiveInv, DeliverInv
     DEF Handler
<1>3. CASE ServeRead
  <2>1. file \in Result
    BY <1>3 DEF ServeRead, SessionInv, Types, Result
  <2> QED
    BY <1>3, <2>1, ServesAtOnce DEF ServeRead
<1>4. CASE RefuseRequest
  <2>1. "error" \in Result
    BY DEF Result
  <2> QED
    BY <1>4, <2>1, ServesAtOnce DEF RefuseRequest
<1>5. CASE StartWrite \/ BlockRead
  BY <1>5, BeginsWork DEF StartWrite, BlockRead
<1>6. CASE StartCommand
  BY <1>6, BeginsWork DEF StartCommand
<1>7. CASE RenameWrite
  <2>1. "ok" \in Result /\ file' \in Call \cup {NoCall} /\ temp' \in Call \cup {NoCall}
    BY <1>7 DEF RenameWrite, Result, SessionInv, Types
  <2> QED
    BY <1>7, <2>1, Finishes DEF RenameWrite
<1>8. CASE FailWrite
  <2>1. "error" \in Result /\ file' \in Call \cup {NoCall} /\ temp' \in Call \cup {NoCall}
    BY <1>8 DEF FailWrite, Result, SessionInv, Types
  <2> QED
    BY <1>8, <2>1, Finishes DEF FailWrite
<1>9. CASE CommandOver
  <2>1. {"exit", "timedout"} \subseteq Result
        /\ file' \in Call \cup {NoCall} /\ temp' \in Call \cup {NoCall}
    BY <1>9 DEF CommandOver, Result, SessionInv, Types
  <2> QED
    BY <1>9, <2>1, Finishes DEF CommandOver
<1>10. CASE Expire
  BY <1>10, ExpireInv
<1>11. CASE Reply
  BY <1>11, ReplyInv
<1>12. CASE EndServe
  BY <1>12, EndServeInv
<1>13. CASE CloseClient
  <2>1. Hangup /\ server' = server /\ UNCHANGED <<handlers, client, file, temp, result>>
    BY <1>13 DEF CloseClient, remote
  <2> QED
    BY <2>1, HangupInv
<1>14. CASE CutTransport
  <2>1. Hangup /\ server' = server /\ UNCHANGED <<handlers, client, file, temp, result>>
    BY <1>14 DEF CutTransport, remote
  <2> QED
    BY <2>1, HangupInv
<1>15. CASE KillServer
  <2>1. server' \in ServerState /\ server'.at = "ended"
    BY <1>15 DEF KillServer, Idle, ServerState
  <2> QED
    BY <1>15, <2>1, HangupInv DEF KillServer
<1>16. CASE PrintGarbage
  BY <1>16, PrintGarbageInv
<1>17. CASE Fork \/ ProcessExits
  BY <1>17, QuietInv DEF Fork, ProcessExits, handlers, transport
<1>18. CASE Tick
  BY <1>18, QuietInv DEF Tick, transport
<1>19. CASE BeginClose \/ ReapTransport \/ IgnoreSigterm \/ TransportExits \/ Stall
  BY <1>19, QuietInv DEF BeginClose, ReapTransport, IgnoreSigterm, TransportExits, Stall,
                         handlers, transport, remote
<1>20. CASE UNCHANGED vars
  BY <1>20, QuietInv DEF vars, handlers, transport, remote
<1> QED
  BY <1>1, <1>2, <1>3, <1>4, <1>5, <1>6, <1>7, <1>8, <1>9, <1>10, <1>11, <1>12, <1>13,
     <1>14, <1>15, <1>16, <1>17, <1>18, <1>19, <1>20 DEF Next, Serve, Environment

(* At most one call is inside the client's mutex, and its request is in    *)
(* one place: on its way, at the executor, or on its way back (Client.Call,*)
(* Server.Serve).                                                          *)
THEOREM SessionInvariant == Spec => []SessionInv
<1>1. Init => SessionInv
  BY InitSessionInv
<1>2. SessionInv /\ [Next]_vars => SessionInv'
  BY NextSessionInv
<1> QED
  BY <1>1, <1>2, PTL DEF Spec

-----------------------------------------------------------------------------
(* Steps that the abstract specification does not see. *)
LEMMA StutterImplements ==
  ASSUME UNCHANGED <<outcome, dead, file, result>>
  PROVE  [Abstract!ANext]_<<file, result, outcome, dead>>
OBVIOUS

(* A call that arrives is the abstract rejection, or not seen yet. *)
LEMMA ArriveImplements ==
  ASSUME SessionInv, NEW c \in Call, Arrive(c)
  PROVE  [Abstract!ANext]_<<file, result, outcome, dead>>
<1>1. CASE Size[c] > BodyLimit
  <2>1. outcome[c] = "none" /\ result[c] = "none"
    BY DEF SessionInv, ClientInv, Arrive
  <2>2. Abstract!Reject(c)
    BY <1>1, <2>1 DEF Arrive, client, remote, Abstract!Reject
  <2> QED
    BY <2>2 DEF Abstract!ANext
<1>2. CASE ~(Size[c] > BodyLimit)
  BY <1>2, StutterImplements DEF Arrive, client, remote
<1> QED
  BY <1>1, <1>2

(* The ways out of Client.Call without an answer. *)
LEMMA FailureImplements ==
  ASSUME SessionInv, NEW c \in Call, FailFast(c) \/ FailSend(c) \/ FailReceive(c)
  PROVE  [Abstract!ANext]_<<file, result, outcome, dead>>
<1>1. /\ outcome[c] = "none"
      /\ dead # NoCall => result[c] = "none"
  BY DEF FailFast, FailSend, FailReceive, NewRequest, SessionInv, ClientInv
<1>2. /\ outcome' = [outcome EXCEPT ![c] = "failed"]
      /\ dead' = IF dead = NoCall THEN c ELSE dead
      /\ UNCHANGED <<file, result>>
  BY DEF FailFast, FailSend, FailReceive, Die, Return, remote
<1>3. Abstract!Fail(c)
  BY <1>1, <1>2 DEF Abstract!Fail
<1> QED
  BY <1>3 DEF Abstract!ANext

(* A response that is received is the abstract answer, or the failure. *)
LEMMA ReceiveImplements ==
  ASSUME SessionInv, NEW c \in Call, Receive(c)
  PROVE  [Abstract!ANext]_<<file, result, outcome, dead>>
<1>1. Head(down).id = reqId[c] /\ Head(down).answer = result[c] /\ result[c] \in Result
  BY ReceivesItsOwn
<1>2. outcome[c] = "none"
  BY DEF Receive, SessionInv, ClientInv
<1>3. /\ outcome' = [outcome EXCEPT ![c] = result[c]]
      /\ UNCHANGED <<file, result, dead>>
  BY <1>1 DEF Receive, Return, remote
<1>4. Abstract!Answer(c)
  BY <1>1, <1>2, <1>3 DEF Abstract!Answer, Abstract!Answers, Result
<1> QED
  BY <1>4 DEF Abstract!ANext

(* A call whose request is under way may take effect. *)
LEMMA OwnerMayPerform ==
  ASSUME SessionInv, NEW c \in Call, Owner(c), result[c] = "none"
  PROVE  Abstract!MayPerform(c)
<1>1. CASE c \in mu
  BY <1>1 DEF SessionInv, ClientInv, Abstract!MayPerform
<1>2. CASE c = dead
  BY <1>2, ConstantsOK DEF SessionInv, ClientInv, Abstract!MayPerform, Result
<1> QED
  BY <1>1, <1>2 DEF Owner

(* What the executor does for the call at hand is the abstract effect. *)
LEMMA PerformImplements ==
  ASSUME SessionInv, NEW c \in Call, Owner(c), result[c] = "none", NEW r,
         \/ Op[c] = "read"  /\ r \in {file, "error"} \ {NoCall}
         \/ Op[c] = "write" /\ r \in {"ok", "error"}
         \/ Op[c] = "exec"  /\ r \in {"running", "error"},
         result' = [result EXCEPT ![c] = r],
         file' = IF Op[c] = "write" /\ r = "ok" THEN c ELSE file,
         UNCHANGED <<outcome, dead>>
  PROVE  [Abstract!ANext]_<<file, result, outcome, dead>>
<1>1. Abstract!MayPerform(c)
  BY OwnerMayPerform
<1>2. Abstract!Perform(c, r)
  BY <1>1 DEF Abstract!Perform
<1>3. r \in Abstract!Answers \cup {"running"}
  BY DEF Abstract!Answers, SessionInv, Types
<1> QED
  BY <1>2, <1>3 DEF Abstract!ANext

(* Each way to serve a request is an abstract effect or none. *)
LEMMA ServeImplements ==
  ASSUME SessionInv, Serve
  PROVE  [Abstract!ANext]_<<file, result, outcome, dead>>
<1> USE DEF handlers, client, transport
<1>1. ASSUME NEW op, Serving(op)
      PROVE  /\ Head(up).call \in Call /\ Owner(Head(up).call)
             /\ result[Head(up).call] = "none" /\ Op[Head(up).call] = op
  BY <1>1, HeadOfUp DEF Serving
<1>2. CASE ServeRead
  <2>1. PICK c \in Call : c = Head(up).call
    BY <1>1, <1>2 DEF ServeRead
  <2>2. /\ Owner(c) /\ result[c] = "none" /\ Op[c] = "read" /\ file # NoCall
        /\ result' = [result EXCEPT ![c] = file] /\ UNCHANGED <<file, outcome, dead>>
    BY <1>1, <1>2, <2>1 DEF ServeRead, Done, Serving
  <2> QED
    BY <2>2, PerformImplements
<1>3. CASE RefuseRequest
  <2>1. PICK op \in {"read", "write", "exec"} : Serving(op)
    BY <1>3 DEF RefuseRequest
  <2>2. PICK c \in Call : c = Head(up).call
    BY <1>1, <2>1
  <2>3. /\ Owner(c) /\ result[c] = "none" /\ Op[c] \in {"read", "write", "exec"}
        /\ result' = [result EXCEPT ![c] = "error"] /\ UNCHANGED <<file, outcome, dead>>
    BY <1>1, <1>3, <2>1, <2>2 DEF RefuseRequest, Done, Serving
  <2>4. "error" # NoCall
    BY ConstantsOK DEF Result
  <2> QED
    BY <2>3, <2>4, PerformImplements
<1>4. CASE StartCommand
  <2>1. PICK c \in Call : c = Head(up).call
    BY <1>1, <1>4 DEF StartCommand
  <2>2. /\ Owner(c) /\ result[c] = "none" /\ Op[c] = "exec"
        /\ result' = [result EXCEPT ![c] = "running"] /\ UNCHANGED <<file, outcome, dead>>
    BY <1>1, <1>4, <2>1 DEF StartCommand, Serving
  <2> QED
    BY <2>2, PerformImplements
<1>5. CASE RenameWrite \/ FailWrite
  <2>1. PICK c \in Call : c = server.call
    BY <1>5 DEF RenameWrite, FailWrite, SessionInv, FlightInv, Busy
  <2>2. /\ Owner(c) /\ result[c] = "none" /\ Op[c] = "write" /\ temp = c
    BY <1>5, <2>1 DEF RenameWrite, FailWrite, SessionInv, FlightInv, Busy
  <2>3. \/ result' = [result EXCEPT ![c] = "ok"] /\ file' = c
        \/ result' = [result EXCEPT ![c] = "error"] /\ file' = file
    BY <1>5, <2>1, <2>2 DEF RenameWrite, FailWrite, Done
  <2>4. UNCHANGED <<outcome, dead>>
    BY <1>5 DEF RenameWrite, FailWrite
  <2> QED
    BY <2>2, <2>3, <2>4, PerformImplements
<1>6. CASE CommandOver
  <2>1. PICK c \in Call : c = server.call
    BY <1>6 DEF CommandOver, SessionInv, FlightInv, Busy
  <2>2. result[c] = "running"
    BY <1>6, <2>1 DEF CommandOver, SessionInv, FlightInv
  <2>3. PICK r \in {"exit", "timedout"} : result' = [result EXCEPT ![c] = r]
    BY <1>6, <2>1 DEF CommandOver, Done
  <2>4. UNCHANGED <<file, outcome, dead>>
    BY <1>6 DEF CommandOver
  <2>5. Abstract!CommandEnds(c, r)
    BY <2>2, <2>3, <2>4 DEF Abstract!CommandEnds
  <2> QED
    BY <2>5 DEF Abstract!ANext, Abstract!Answers
<1>7. CASE BlockRead \/ StartWrite \/ Expire \/ Reply \/ EndServe
  <2>1. UNCHANGED <<outcome, dead, file, result>>
    BY <1>7 DEF BlockRead, StartWrite, Serving, Expire, Reply, EndServe
  <2> QED
    BY <2>1, StutterImplements
<1> QED
  BY <1>2, <1>3, <1>4, <1>5, <1>6, <1>7 DEF Serve

(* Each step is an abstract step or none. *)
LEMMA NextImplements ==
  ASSUME SessionInv, [Next]_vars
  PROVE  [Abstract!ANext]_<<file, result, outcome, dead>>
<1>1. ASSUME NEW c \in Call, Arrive(c)
      PROVE  [Abstract!ANext]_<<file, result, outcome, dead>>
  BY <1>1, ArriveImplements
<1>2. ASSUME NEW c \in Call, Handler(c)
      PROVE  [Abstract!ANext]_<<file, result, outcome, dead>>
  <2>1. CASE FailFast(c) \/ FailSend(c) \/ FailReceive(c)
    BY <2>1, FailureImplements
  <2>2. CASE Receive(c)
    BY <2>2, ReceiveImplements
  <2>3. CASE SendRequest(c) \/ Deliver(c)
    <3>1. UNCHANGED <<outcome, dead, file, result>>
      BY <2>3 DEF SendRequest, Deliver, client, remote
    <3> QED
      BY <3>1, StutterImplements
  <2> QED
    BY <1>2, <2>1, <2>2, <2>3 DEF Handler
<1>3. CASE Serve
  BY <1>3, ServeImplements
<1>4. CASE CloseClient \/ ReapTransport \/ Tick \/ Environment \/ UNCHANGED vars
  <2>1. UNCHANGED <<outcome, dead, file, result>>
    BY <1>4 DEF CloseClient, ReapTransport, Tick, Environment, Fork, ProcessExits,
                CutTransport, Stall, KillServer, PrintGarbage, BeginClose, IgnoreSigterm,
                TransportExits, handlers, client, remote, vars
  <2> QED
    BY <2>1, StutterImplements
<1> QED
  BY <1>1, <1>2, <1>3, <1>4 DEF Next

(* Every answer is that of the caller's own request, a request takes       *)
(* effect at most once, a reader sees whole files only, and after a        *)
(* transport failure no later call takes effect, for any number of callers *)
(* and whatever happens to the transport (Client.Call, die, Server.write). *)
THEOREM SessionImplementsRemoteCalls == Spec => ImplementsRemoteCalls
<1>1. Init => Abstract!AInit
  BY DEF Init, Abstract!AInit
<1>2. SessionInv /\ [Next]_vars => [Abstract!ANext]_<<file, result, outcome, dead>>
  BY NextImplements
<1>3. SessionInv /\ [Next]_vars => [Abstract!ANext]_(Abstract!absVars)
  BY <1>2 DEF Abstract!absVars
<1> QED
  BY <1>1, <1>3, SessionInvariant, PTL DEF Spec, ImplementsRemoteCalls, Abstract!ASpec

-----------------------------------------------------------------------------
(* What the constants of the code satisfy: a body of 2 MiB at most, of     *)
(* which encoding makes six times as much, in lines of 16 MiB (http.go:33, *)
(* proto.go:25, 106).                                                      *)
BodiesFit == BodyLimit * Growth <= LineLimit

(* A body the gateway accepts makes a line the executor accepts. *)
LEMMA RequestsFit ==
  ASSUME BodiesFit, NEW c \in Call, Size[c] <= BodyLimit
  PROVE  ~(Size[c] * Growth > LineLimit)
<1>1. Size[c] \in Nat /\ BodyLimit \in Nat /\ Growth \in Nat /\ LineLimit \in Nat
  BY ConstantsOK
<1>2. \A s, b, g \in Nat : s <= b => s * g <= b * g
  OBVIOUS
<1>3. Size[c] * Growth <= BodyLimit * Growth
  BY <1>1, <1>2
<1>4. Size[c] * Growth \in Nat /\ BodyLimit * Growth \in Nat
  BY <1>1
<1> QED
  BY <1>1, <1>3, <1>4 DEF BodiesFit

(* FaultInv holds in the beginning. *)
LEMMA InitFaultInv == Init => FaultInv
BY DEF Init, FaultInv

(* Steps of the trusted side. *)
LEMMA HandlerFaultInv ==
  ASSUME SessionInv, FaultInv, NEW c \in Call, Arrive(c) \/ Handler(c)
  PROVE  FaultInv'
<1> USE DEF FaultInv, client, transport, remote
<1>1. phase \in [Call -> Phases]
  BY DEF SessionInv, Types
<1>2. CASE Arrive(c)
  <2>1. phase'[c] = "waiting" => Size[c] <= BodyLimit
    BY <1>1, <1>2, ConstantsOK DEF Arrive
  <2>2. /\ UNCHANGED <<up, down, cut, dead, failed>>
        /\ \A d \in Call : d # c => phase'[d] = phase[d]
    BY <1>1, <1>2 DEF Arrive
  <2> QED
    BY <2>1, <2>2
<1>3. CASE FailFast(c)
  BY <1>1, <1>3 DEF FailFast, Return
<1>4. CASE SendRequest(c)
  <2> DEFINE m == [id |-> next', call |-> c]
  <2>1. up = <<>>
    BY <1>4, NothingOnItsWay DEF SendRequest, NewRequest, CanLock
  <2>2. m.call = c /\ m \in Message
    BY <1>4 DEF Message, SendRequest, NewRequest, SessionInv, Types
  <2>3. up' = Append(up, m) /\ Len(up) = 0 /\ up \in Seq(Message)
    BY <1>4, <2>1 DEF SendRequest, SessionInv, Types
  <2> HIDE DEF m
  <2>4. \A i \in DOMAIN up' : up'[i] = m
    BY <2>2, <2>3
  <2>5. Size[c] <= BodyLimit
    BY <1>4 DEF SendRequest, NewRequest
  <2>6. /\ UNCHANGED <<down, cut, dead, failed>>
        /\ \A d \in Call : phase'[d] = "waiting" => phase[d] = "waiting"
    BY <1>1, <1>4 DEF SendRequest
  <2> QED
    BY <2>2, <2>4, <2>5, <2>6
<1>5. CASE FailSend(c)
  BY <1>1, <1>5 DEF FailSend, NewRequest, Die, Return
<1>6. CASE Receive(c)
  <2>1. down \in Seq(ReplyLine \cup {Garbage}) /\ Len(down) # 0 /\ Head(down).id = reqId[c]
    BY <1>6, ReceivesItsOwn
  <2>2. down' = Tail(down) /\ UNCHANGED <<up, cut, dead, failed>>
    BY <1>6, <2>1 DEF Receive
  <2>3. \A i \in DOMAIN down' : i + 1 \in DOMAIN down /\ down'[i] = down[i + 1]
    BY <2>1, <2>2
  <2>4. \A d \in Call : phase'[d] = "waiting" => phase[d] = "waiting"
    BY <1>1, <1>6, <2>1 DEF Receive, Return
  <2> QED
    BY <2>2, <2>3, <2>4
<1>7. CASE FailReceive(c)
  <2>1. failed
    <3>1. down # <<>> => 1 \in DOMAIN down /\ Head(down) = down[1]
      BY DEF SessionInv, Types
    <3> QED
      BY <1>7, <3>1 DEF FailReceive
  <2>2. /\ UNCHANGED <<up, down, cut, failed>>
        /\ \A d \in Call : phase'[d] = "waiting" => phase[d] = "waiting"
    BY <1>1, <1>7 DEF FailReceive, Die, Return
  <2> QED
    BY <2>1, <2>2
<1>8. CASE Deliver(c)
  BY <1>1, <1>8 DEF Deliver
<1> QED
  BY <1>2, <1>3, <1>4, <1>5, <1>6, <1>7, <1>8 DEF Handler

(* Steps of the executor: it ends on its own only when the transport is    *)
(* gone, for no request is too long.                                       *)
LEMMA ServeFaultInv ==
  ASSUME SessionInv, FaultInv, BodiesFit, Serve
  PROVE  FaultInv'
<1> USE DEF FaultInv, handlers, client, transport
<1>1. ASSUME NEW op, Serving(op) PROVE FaultInv'
  <2>1. up' = <<>>
    BY <1>1, HeadOfUp DEF Serving
  <2>2. DOMAIN up' = {}
    BY <2>1, NothingInEmpty
  <2> QED
    BY <1>1, <2>2 DEF Serving
<1>2. CASE EndServe
  <2>1. cut
    <3>1. up # <<>> => Head(up).call \in Call /\ 1 \in DOMAIN up /\ Head(up) = up[1]
      <4>1. up # <<>> => Head(up).call \in Call
        BY HeadOfUp
      <4> QED
        BY <4>1 DEF SessionInv, Types
    <3>2. up # <<>> => ~(Size[Head(up).call] * Growth > LineLimit)
      BY <3>1, RequestsFit
    <3> QED
      BY <1>2, <3>2 DEF EndServe
  <2>2. DOMAIN up' = {}
    BY <1>2, NothingInEmpty DEF EndServe
  <2> QED
    BY <1>2, <2>1, <2>2 DEF EndServe
<1>3. CASE Reply
  <2>1. [id |-> server.id, answer |-> server.answer] \in ReplyLine
    BY <1>3 DEF Reply, SessionInv, Types, FlightInv, ServerState, ReplyLine
  <2>2. PICK r \in ReplyLine : down' = Append(down, r)
    BY <1>3, <2>1 DEF Reply
  <2>3. down \in Seq(ReplyLine \cup {Garbage}) /\ r # Garbage
    BY ConstantsOK DEF SessionInv, Types
  <2>4. \A i \in DOMAIN down' : down'[i] = r \/ (i \in DOMAIN down /\ down'[i] = down[i])
    BY <2>2, <2>3
  <2>5. UNCHANGED <<up, cut, dead, failed, phase>>
    BY <1>3 DEF Reply
  <2> QED
    BY <2>3, <2>4, <2>5
<1>4. CASE RenameWrite \/ FailWrite \/ Expire \/ CommandOver
  BY <1>4 DEF RenameWrite, FailWrite, Expire, CommandOver
<1> QED
  BY <1>1, <1>2, <1>3, <1>4
     DEF Serve, ServeRead, BlockRead, StartWrite, StartCommand, RefuseRequest

(* Steps of the environment, and the end of the session.                   *)
LEMMA EnvironmentFaultInv ==
  ASSUME SessionInv, FaultInv,
         CloseClient \/ ReapTransport \/ Tick \/ Environment \/ UNCHANGED vars
  PROVE  FaultInv'
<1> USE DEF FaultInv, handlers, client
<1>1. ASSUME Hangup, UNCHANGED <<phase, dead>> PROVE FaultInv'
  BY <1>1 DEF Hangup
<1>2. CASE CloseClient \/ CutTransport \/ KillServer
  <2>1. Hangup /\ UNCHANGED <<phase, dead>>
    BY <1>2 DEF CloseClient, CutTransport, KillServer
  <2> QED
    BY <1>1, <2>1
<1>3. CASE PrintGarbage
  BY <1>3 DEF PrintGarbage
<1>4. CASE \/ Tick \/ Fork \/ ProcessExits \/ BeginClose \/ UNCHANGED vars
           \/ ReapTransport \/ Stall \/ IgnoreSigterm \/ TransportExits
  BY <1>4 DEF Tick, Fork, ProcessExits, BeginClose, ReapTransport, Stall, IgnoreSigterm,
              TransportExits, vars, transport
<1> QED
  BY <1>2, <1>3, <1>4 DEF Environment

(* The client gives its transport up only when the transport failed: the   *)
(* requests are serialised, every reply is the one that is waited for, and *)
(* no line is too long for the executor's scanner, as long as the limits   *)
(* of body and line stand as they do in the code (Client.Call, die,        *)
(* scanner).                                                               *)
THEOREM DeadOnlyByFaultHolds ==
  ASSUME BodiesFit
  PROVE  Spec => []DeadOnlyByFault
<1>1. Init => FaultInv
  BY InitFaultInv
<1>2. SessionInv /\ FaultInv /\ [Next]_vars => FaultInv'
  BY HandlerFaultInv, ServeFaultInv, EnvironmentFaultInv DEF Next
<1>3. FaultInv => DeadOnlyByFault
  BY DEF FaultInv, DeadOnlyByFault
<1> QED
  BY <1>1, <1>2, <1>3, SessionInvariant, PTL DEF Spec
=============================================================================
