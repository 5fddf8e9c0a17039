---------------------------- MODULE JournalStore ----------------------------
(***************************************************************************)
(* The journal-backed store of internal/trustedstate: one process at a     *)
(* time holds the file lock, replays the journal, then serves requests     *)
(* under one mutex.  A request is appended (Write), made durable (Sync)    *)
(* and only then applied and answered (Finish); a process may die between  *)
(* any two of these, an append or an fsync may fail, and a machine may     *)
(* lose the part of the file that no fsync has covered.                    *)
(***************************************************************************)
EXTENDS StoreSemantics, Sequences, FiniteSets

CONSTANTS
    MaxRecords,         \* bound on the journal's length
    MaxImports,         \* bound on concurrent ImportLegacyMemory calls
    AllowPowerLoss      \* whether unsynced records can disappear

ASSUME JournalAssumption ==
    /\ MaxRecords \in Nat
    /\ MaxImports \in Nat
    /\ AllowPowerLoss \in BOOLEAN

VARIABLES
    file,       \* the complete lines of journal.jsonl, as records
    hist,       \* history: hist[k+1] is the state the first k records make
    torn,       \* the file ends in an incomplete line
    synced,     \* how many records an fsync has covered
    proc,       \* "closed", "replaying" (inside Open) or "open"
    pos,        \* records replayed by Open so far
    mem,        \* the maps of the running Store
    poisoned,   \* Store.poisoned
    stage,      \* inside the mutex: "idle", "written" or "synced"
    imports,    \* batches ImportLegacyMemory has built and not yet submitted
    acked,      \* history: the receipt last returned for each request_id
    refusal     \* history: why Open has refused, "none" if it never has

fileVars == <<file, hist, torn, synced>>
procVars == <<proc, pos, mem, poisoned, stage, imports>>
vars == <<file, hist, torn, synced, proc, pos, mem, poisoned, stage, imports,
          acked, refusal>>

CommittedState == hist[Len(hist)]

TypeOK ==
    /\ file \in Seq(Record)
    /\ hist \in Seq(State) /\ Len(hist) = Len(file) + 1
    /\ torn \in BOOLEAN
    /\ synced \in 0..Len(file)
    /\ proc \in {"closed", "replaying", "open"}
    /\ pos \in 0..Len(file)
    /\ mem \in State
    /\ poisoned \in BOOLEAN
    /\ stage \in {"idle", "written", "synced"}
    /\ imports \in SUBSET ImportRequests
    /\ acked \in [Id -> Record \cup {NoRecord}]
    /\ refusal \in {"none", "torn", "inconsistent"}

Init ==
    /\ file = <<>> /\ hist = <<EmptyState>>
    /\ torn = FALSE /\ synced = 0
    /\ proc = "closed" /\ pos = 0 /\ mem = EmptyState
    /\ poisoned = FALSE /\ stage = "idle" /\ imports = {}
    /\ acked = [i \in Id |-> NoRecord]
    /\ refusal = "none"

(* What is left of a process that has ended. *)
ProcessEnds ==
    /\ proc' = "closed" /\ pos' = 0 /\ mem' = EmptyState
    /\ poisoned' = FALSE /\ stage' = "idle" /\ imports' = {}

-----------------------------------------------------------------------------
(* Open *)

OpenStore ==
    /\ proc = "closed"
    /\ proc' = "replaying" /\ pos' = 0 /\ mem' = EmptyState
    /\ UNCHANGED <<fileVars, poisoned, stage, imports, acked, refusal>>

(* Faulty variant: the sequence is compared with that of the last record. *)
ConsistentOffByOne(m, r) ==
    /\ m.receipts[r.req.id] = NoRecord
    /\ r.sequence = m.sequence
    /\ r.result = Evaluate(m, r.req)

(* The checks of the replay loop and of replayNative: dense sequence, no   *)
(* request_id twice in either protocol, and the same result again.         *)
Consistent(m, r) ==
    /\ m.receipts[r.req.id] = NoRecord
    /\ r.sequence = m.sequence + 1
    /\ r.result = Evaluate(m, r.req)

ReplayRecord ==
    /\ proc = "replaying" /\ pos < Len(file)
    /\ IF Consistent(mem, file[pos + 1])
       THEN /\ mem' = Apply(mem, file[pos + 1])
            /\ pos' = pos + 1
            /\ UNCHANGED <<proc, poisoned, stage, imports, refusal>>
       ELSE /\ refusal' = "inconsistent"
            /\ ProcessEnds
    /\ UNCHANGED <<fileVars, acked>>

(* journalLines: an object without its final newline is not a record. *)
RefuseTorn ==
    /\ proc = "replaying" /\ pos = Len(file) /\ torn
    /\ refusal' = "torn"
    /\ ProcessEnds
    /\ UNCHANGED <<fileVars, acked>>

(* Faulty variant: the store serves before the journal is replayed. *)
OpenSucceedsEarly ==
    /\ proc = "replaying" /\ ~torn
    /\ proc' = "open"
    /\ UNCHANGED <<fileVars, pos, mem, poisoned, stage, imports, acked, refusal>>

(* Open syncs the directory here, never the file it has just read.  A      *)
(* directory that cannot be synced ends Open: Crash.                       *)
OpenSucceeds ==
    /\ proc = "replaying" /\ pos = Len(file) /\ ~torn
    /\ proc' = "open"
    /\ UNCHANGED <<fileVars, pos, mem, poisoned, stage, imports, acked, refusal>>

-----------------------------------------------------------------------------
(* Mutate and NativeBatch *)

Unlocked == proc = "open" /\ stage = "idle"
Serving  == Unlocked /\ ~poisoned
Callable == Requests \cup imports

(* Faulty variant: only the protocol's own receipts are looked up. *)
FreshInProtocol(q) ==
    mem.receipts[q.id] # NoRecord => mem.receipts[q.id].req.proto # q.proto

Fresh(q) == mem.receipts[q.id] = NoRecord

(* Retry of a request_id the store knows: no new record. *)
AnswerKnown(q) ==
    /\ Serving
    /\ mem.receipts[q.id] # NoRecord
    /\ SameRequest(mem.receipts[q.id].req, q)
    /\ acked' = [acked EXCEPT ![q.id] = mem.receipts[q.id]]
    /\ imports' = imports \ {q}
    /\ UNCHANGED <<fileVars, proc, pos, mem, poisoned, stage, refusal>>

(* The call fails without a record: poisoned, or request_id reused.  Only  *)
(* an import in progress has anything to forget.                           *)
FailCall(q) ==
    /\ Unlocked
    /\ q \in imports
    /\ \/ poisoned
       \/ /\ mem.receipts[q.id] # NoRecord
          /\ ~SameRequest(mem.receipts[q.id].req, q)
    /\ imports' = imports \ {q}
    /\ UNCHANGED <<fileVars, proc, pos, mem, poisoned, stage, acked, refusal>>

(* appendRecord, the write: the whole line reaches the file. *)
Write(q) ==
    /\ Serving
    /\ Fresh(q)
    /\ Len(file) < MaxRecords
    /\ file' = Append(file, NewRecord(mem, q))
    /\ hist' = Append(hist, Apply(CommittedState, NewRecord(mem, q)))
    /\ stage' = "written"
    /\ imports' = imports \ {q}
    /\ UNCHANGED <<torn, synced, proc, pos, mem, poisoned, acked, refusal>>

(* Faulty variant: a failed write does not poison the store. *)
FailWriteServing(q) ==
    /\ Serving
    /\ Fresh(q)
    /\ torn' \in BOOLEAN
    /\ imports' = imports \ {q}
    /\ UNCHANGED <<file, hist, synced, proc, pos, mem, poisoned, stage, acked, refusal>>

(* appendRecord: the write fails, leaving nothing or part of a line. *)
FailWrite(q) ==
    /\ Serving
    /\ Fresh(q)
    /\ torn' \in BOOLEAN
    /\ poisoned' = TRUE
    /\ imports' = imports \ {q}
    /\ UNCHANGED <<file, hist, synced, proc, pos, mem, stage, acked, refusal>>

Sync ==
    /\ stage = "written"
    /\ synced' = Len(file)
    /\ stage' = "synced"
    /\ UNCHANGED <<file, hist, torn, proc, pos, mem, poisoned, imports, acked, refusal>>

(* Faulty variant: a failed fsync does not poison the store. *)
FailSyncServing ==
    /\ stage = "written"
    /\ stage' = "idle"
    /\ UNCHANGED <<fileVars, proc, pos, mem, poisoned, imports, acked, refusal>>

(* A failed fsync has an uncertain outcome: the line stays in the file. *)
FailSync ==
    /\ stage = "written"
    /\ poisoned' = TRUE
    /\ stage' = "idle"
    /\ UNCHANGED <<fileVars, proc, pos, mem, imports, acked, refusal>>

(* apply / applyNative, then the mutex is released with the answer. *)
Finish ==
    /\ stage = "synced"
    /\ LET r == file[Len(file)]
       IN  /\ mem' = Apply(mem, r)
           /\ acked' = [acked EXCEPT ![r.req.id] = r]
    /\ pos' = Len(file)
    /\ stage' = "idle"
    /\ UNCHANGED <<fileVars, proc, poisoned, imports, refusal>>

(* ImportLegacyMemory reads the object in one critical section and submits *)
(* the batch built from it in another.                                     *)
BeginImport(i, o, n) ==
    /\ Serving
    /\ Live(mem.objects[o])
    /\ Cardinality(imports) < MaxImports
    /\ imports' = imports \cup {ImportRequest(i, o, n, mem.objects[o])}
    /\ UNCHANGED <<fileVars, proc, pos, mem, poisoned, stage, acked, refusal>>

-----------------------------------------------------------------------------
(* Close, and the failures. *)

Close ==
    /\ Unlocked
    /\ ProcessEnds
    /\ UNCHANGED <<fileVars, acked, refusal>>

Crash ==
    /\ proc # "closed"
    /\ ProcessEnds
    /\ UNCHANGED <<fileVars, acked, refusal>>

(* The machine stops: any suffix that no fsync covered may be gone. *)
PowerLoss ==
    /\ AllowPowerLoss
    /\ \E n \in synced..Len(file) :
          /\ file' = SubSeq(file, 1, n)
          /\ hist' = SubSeq(hist, 1, n + 1)
          /\ torn' \in (IF torn \/ n < Len(file) THEN BOOLEAN ELSE {FALSE})
    /\ ProcessEnds
    /\ UNCHANGED <<synced, acked, refusal>>

Opening == OpenStore \/ ReplayRecord \/ RefuseTorn \/ OpenSucceeds

Next ==
    \/ Opening
    \/ \E q \in Callable : AnswerKnown(q) \/ FailCall(q) \/ Write(q) \/ FailWrite(q)
    \/ Sync \/ FailSync \/ Finish
    \/ \E i \in Id, o \in Object, n \in Note : BeginImport(i, o, n)
    \/ Close \/ Crash \/ PowerLoss

Spec == Init /\ [][Next]_vars

(* Failures cease, callers retry, and the operator reopens a store that    *)
(* reports itself unavailable: what store.go:68-70 tells them to do.       *)
(* An Open that refuses the journal ends the process like a crash does,    *)
(* but it is no failure: it is what the code does, each time.              *)
Refusal == ReplayRecord \/ RefuseTorn
Failure ==
    \/ FailSync \/ \E q \in Callable : FailWrite(q)
    \/ (Crash \/ PowerLoss) /\ ~Refusal
Retry(q) == AnswerKnown(q) \/ Write(q)
Restart == poisoned /\ Close

FairSpec ==
    /\ Spec
    /\ WF_vars(Opening) /\ WF_vars(Sync) /\ WF_vars(Finish) /\ WF_vars(Restart)
    /\ \A q \in Requests : WF_vars(Retry(q))
    /\ <>[][~Failure /\ (Close => poisoned)]_vars

-----------------------------------------------------------------------------
(* Properties *)

(* The maps of the running store are those of a prefix of the journal, and *)
(* of the whole journal when it serves: replay (Open) and apply agree, and *)
(* a store whose append or fsync failed never serves again.                *)
MemoryMatchesJournal ==
    /\ mem = hist[pos + 1]
    /\ Serving => pos = Len(file)

(* Open never refuses what Mutate and NativeBatch have written for         *)
(* requests without job commands, the only ones here: whatever mixture of  *)
(* protocols, reused ids, rejections, retries and failures made the file,  *)
(* the replay loop accepts every complete line (store.go:136-144).  What   *)
(* job commands leave in a record is MemoryJobs' RestartRecovers, and it   *)
(* does not hold.                                                          *)
NeverInconsistent == refusal # "inconsistent"

Touches(r, k) ==
    /\ Committed(r)
    /\ \/ r.req.proto = "v1" /\ k = <<"v1", r.req.obj>>
       \/ r.req.proto = "v2" /\ k[1] = "v2" /\ k[2] \in DOMAIN r.req.changes

Expected(r, k) == IF k[1] = "v1" THEN r.req.exp ELSE r.req.changes[k[2]].exp

Keys == ({"v1"} \X Object) \cup ({"v2"} \X NativeKey)

(* Compare-and-swap over the whole history, restarts included: a commit    *)
(* names exactly the number of commits its key had before it, so no update *)
(* overwrites one its author had not seen (evaluate, evaluateNative).      *)
NoLostUpdate ==
    \A k \in Keys : \A n \in 1..Len(file) :
        Touches(file[n], k) =>
            Expected(file[n], k) = Cardinality({j \in 1..(n - 1) : Touches(file[j], k)})

(* An imported object stays what it was imported from, for ever: the batch *)
(* that publishes the copy freezes the source, though ImportLegacyMemory   *)
(* read the source in an earlier critical section (native_migration.go).   *)
ImportIsExact ==
    \A o \in Object :
        LET alias  == CommittedState.native[o]
            source == CommittedState.objects[o]
        IN  Live(alias) =>
                /\ Live(source)
                /\ source.rev = alias.content.revision
                /\ source.content = alias.content.source
                /\ CommittedState.native[alias.content.target].rev # 0

(* Nothing is appended behind an incomplete line: O_APPEND would splice    *)
(* the next record onto the fragment (appendRecord sets poisoned).         *)
TornLineIsLast == [][torn => Len(file') <= Len(file)]_vars

(* The journal implements the abstract store, as long as the file system   *)
(* keeps what was written.                                                 *)
Abstract == INSTANCE ReceiptStore WITH state <- CommittedState
ImplementsReceiptStore == Abstract!ASpec

Durable(r) == \E n \in 1..synced : file[n] = r

(* An answer whose record an fsync has covered is the answer for ever: no  *)
(* crash, failed write or power loss takes the record away, and no retry   *)
(* or other request of that request_id is told anything else (Mutate,      *)
(* NativeBatch, Open).                                                     *)
DurableAnswersStand ==
    [][\A i \in Id : Durable(acked[i]) =>
          acked'[i] = acked[i] /\ Durable(acked[i])']_vars

Recorded(q) ==
    LET r == CommittedState.receipts[q.id]
    IN  r # NoRecord /\ SameRequest(r.req, q)

(* A caller whose request keeps its record in the journal learns the       *)
(* outcome by retrying, whatever failed in between, unless the file is     *)
(* torn, which Open refuses to repair (store.go:68-70).                    *)
RetryResolves ==
    \A q \in Requests :
        ([]Recorded(q)) ~> (acked[q.id] # NoRecord \/ torn)
=============================================================================
