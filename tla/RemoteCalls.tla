----------------------------- MODULE RemoteCalls -----------------------------
(***************************************************************************)
(* What a client of the remote executor may rely on (client.go:15-18,      *)
(* 74-76, 108-109): every tool call takes effect on the remote computer at *)
(* most once, between its start and its answer; the answer is its own; and *)
(* when the transport breaks, at most one call is left whose effect its    *)
(* caller does not know, for no later call has one.  There is no pipe, no  *)
(* lock, no server loop here; ExecutorSession is shown to implement this.  *)
(***************************************************************************)

CONSTANTS
    Call,       \* the tool calls of a session
    NoCall,     \* not a call
    Op          \* what each call asks for: "read", "write" or "exec"

(* A file holds what a call wrote, so contents are named by calls; NoCall  *)
(* stands for a file that does not exist.                                  *)
Answers == Call \cup {"ok", "error", "exit", "timedout"}

VARIABLES
    file,       \* the file the calls read and write
    result,     \* what each call has done remotely, "running" for a command
    outcome,    \* what each caller was told
    broken      \* the call that found the transport broken

absVars == <<file, result, outcome, broken>>

AInit ==
    /\ file = NoCall
    /\ result = [c \in Call |-> "none"]
    /\ outcome = [c \in Call |-> "none"]
    /\ broken = NoCall

(* An effect belongs to a call that waits for it.  The one exception is    *)
(* the call that found the transport broken: it may still take effect.     *)
MayPerform(c) ==
    /\ result[c] = "none"
    /\ outcome[c] = "none" => broken = NoCall
    /\ outcome[c] # "none" => broken = c

Perform(c, r) ==
    /\ MayPerform(c)
    /\ \/ Op[c] = "read"  /\ r \in {file, "error"} \ {NoCall}
       \/ Op[c] = "write" /\ r \in {"ok", "error"}
       \/ Op[c] = "exec"  /\ r \in {"running", "error"}
    /\ result' = [result EXCEPT ![c] = r]
    /\ file' = IF Op[c] = "write" /\ r = "ok" THEN c ELSE file
    /\ UNCHANGED <<outcome, broken>>

CommandEnds(c, r) ==
    /\ result[c] = "running"
    /\ r \in {"exit", "timedout"}
    /\ result' = [result EXCEPT ![c] = r]
    /\ UNCHANGED <<file, outcome, broken>>

Answer(c) ==
    /\ outcome[c] = "none"
    /\ result[c] \in Answers
    /\ outcome' = [outcome EXCEPT ![c] = result[c]]
    /\ UNCHANGED <<file, result, broken>>

(* Refused before it reached the transport. *)
Reject(c) ==
    /\ outcome[c] = "none"
    /\ result[c] = "none"
    /\ outcome' = [outcome EXCEPT ![c] = "rejected"]
    /\ UNCHANGED <<file, result, broken>>

Fail(c) ==
    /\ outcome[c] = "none"
    /\ broken # NoCall => result[c] = "none"
    /\ outcome' = [outcome EXCEPT ![c] = "failed"]
    /\ broken' = IF broken = NoCall THEN c ELSE broken
    /\ UNCHANGED <<file, result>>

ANext ==
    \E c \in Call :
        \/ \E r \in Answers \cup {"running"} : Perform(c, r) \/ CommandEnds(c, r)
        \/ Answer(c) \/ Reject(c) \/ Fail(c)

ASpec == AInit /\ [][ANext]_absVars
=============================================================================
