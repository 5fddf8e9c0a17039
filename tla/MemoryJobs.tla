----------------------------- MODULE MemoryJobs -----------------------------
(***************************************************************************)
(* The memory jobs of the trusted state: native_jobs.go and the job        *)
(* commands of evaluateNative.  A stage-1 job per rollout produces a raw   *)
(* memory and a summary under a lease; each output wakes the one phase-2   *)
(* job, which consolidates a selection of outputs into MEMORY.md and       *)
(* memory_summary.md.  Usage, retention and clear maintain the same store. *)
(*                                                                         *)
(* NativeBatch is one step here (JournalStore models how it is made        *)
(* durable).  What is not one step is a call that takes the store's lock   *)
(* more than once: it reads, unlocks, and commits with what it has read.   *)
(***************************************************************************)
EXTENDS Integers, Sequences, FiniteSets

CONSTANTS
    Rollout,         \* stage-1 job ids
    Input,           \* input versions; the number is also the watermark
    Note,            \* note filenames
    Caller,          \* requests in progress at the same time
    Limit,           \* max_inputs of memory.phase2.begin, 0 for no limit
    LeaseSeconds,    \* lease durations callers ask for
    Retention,       \* [unused, limit] policies of memory.retention
    UsageId,         \* request_id values of memory.usage.record
    Used,            \* the rollouts each of them reports
    AllowRestart,    \* may the process be restarted?
    TransactionChanges, \* NativeTransactionChanges
    MaxTokens,       \* bound: leases granted
    MaxTime,         \* bound: the clock
    MaxClears,       \* bound: memory.clear requests
    NoJob,           \* no job under this id
    NoSelection,     \* a nil SelectedRevisions
    Idle             \* no request in progress

(* The id "global".  Rollouts have other ids, for the harness names them;  *)
(* memory.stage1.enqueue itself would accept this one.                     *)
Global == 0
JobId  == Rollout \cup {Global}

(* Resources of the memory domains: raw/<id>.md, summary/<id>.md,          *)
(* MEMORY.md, memory_summary.md and the notes.                             *)
Raw(j)        == <<"raw", j>>
Summary(j)    == <<"summary", j>>
Memory        == <<"artifact", 1>>
MemorySummary == <<"artifact", 2>>
NoteKey(n)    == <<"note", n>>

Outputs   == {Raw(j) : j \in Rollout} \cup {Summary(j) : j \in Rollout}
Artifacts == {Memory, MemorySummary}
Key       == Outputs \cup Artifacts \cup {NoteKey(n) : n \in Note}

(* The content of an output is the lease that wrote it, the content of an  *)
(* artifact the transaction.                                               *)
Resource == [rev: Nat, deleted: BOOLEAN, content: Nat]
Absent   == [rev |-> 0, deleted |-> FALSE, content |-> 0]
Live(r)  == r.rev # 0 /\ ~r.deleted

Selected == SUBSET [job: Rollout, raw: Nat, summary: Nat]

(* token 0 is the empty lease, tx 0 the empty transaction id.  gen,        *)
(* selected and limit are read for the phase-2 job only.                   *)
Job ==
    [status: {"queued", "leased", "succeeded", "failed"},
     input: Input \cup {0}, token: Nat, expires: Nat, tx: Nat, gen: Nat,
     selected: {NoSelection} \cup Selected, limit: Limit \cup {0}]

Lease == [job: JobId, input: Input \cup {0}, gen: Nat, begin: BOOLEAN]
Usage == [rev: Nat, count: Nat, last: Nat]

Changes == SUBSET [key: Key, exp: Nat, deleted: BOOLEAN]

Call ==
    [op: {"stage1.commit"}, job: Rollout, token: Nat, changes: Changes]
    \cup [op: {"phase2.read"}, token: Nat, tx: Nat, memory: Nat]
    \cup [op: {"phase2.commit"}, token: Nat, tx: Nat, changes: Changes]
    \cup [op: {"usage.record"}, id: UsageId, at: Nat,
          read: SUBSET [job: Rollout, rev: Nat, count: Nat]]
    \cup [op: {"retain"}, prune: SUBSET Rollout]
    \cup [op: {"delete"}, clear: BOOLEAN, changes: Changes]

ASSUME JobsAssumption ==
    /\ Rollout \subseteq Nat \ {0} /\ Input \subseteq Nat \ {0}
    /\ Note \subseteq Nat
    /\ Limit \subseteq Nat /\ LeaseSeconds \subseteq Nat \ {0}
    /\ Retention \subseteq [unused: Nat, limit: Nat \ {0}]
    /\ Used \in [UsageId -> SUBSET Rollout \ {{}}]
    /\ AllowRestart \in BOOLEAN
    /\ TransactionChanges \in Nat /\ MaxTokens \in Nat
    /\ MaxTime \in Nat \ {0} /\ MaxClears \in Nat
    /\ NoJob \notin Job /\ NoSelection # {} /\ Idle \notin Call

VARIABLES
    jobs,       \* nativeJobs
    native,     \* native: the memory domains
    usage,      \* native: maintenance/memory-usage/<id>.json
    generation, \* memoryGeneration
    receipts,   \* nativeRequests of the usage requests
    journaled,  \* the journal on disk can be replayed
    up,         \* the service runs
    now,        \* the clock, in seconds
    issued,     \* every lease granted so far
    call,       \* requests between two sections under the lock
    outputAt,   \* history: the generation the last stage-1 output produced
    clears      \* history: how many leases were granted before each clear

maintenance == <<usage, receipts>>
process     == <<journaled, up, now>>
history     == <<outputAt, clears>>
vars == <<jobs, native, usage, generation, receipts, journaled, up, now,
          issued, call, outputAt, clears>>

Init ==
    /\ jobs = [j \in JobId |-> NoJob]
    /\ native = [k \in Key |-> Absent]
    /\ usage = [j \in Rollout |-> [rev |-> 0, count |-> 0, last |-> 0]]
    /\ generation = 0
    /\ receipts = [u \in UsageId |-> "none"]
    /\ journaled = TRUE
    /\ up = TRUE
    /\ now = 1
    /\ issued = <<>>
    /\ call = [c \in Caller |-> Idle]
    /\ outputAt = 0
    /\ clears = <<>>

NewJob(v) ==
    [status |-> "queued", input |-> v, token |-> 0, expires |-> 0, tx |-> 0,
     gen |-> 0, selected |-> NoSelection, limit |-> 0]

Exists(j)    == jobs[j] # NoJob
Succeeded(j) == Exists(j) /\ jobs[j].status = "succeeded"

Tokens == 1..Len(issued)
NextToken == Len(issued) + 1

(* Faulty variant: any token fits a leased job. *)
ValidLeaseAnyToken(j, t) ==
    /\ Exists(j) /\ jobs[j].status = "leased" /\ now < jobs[j].expires

ValidLease(j, t) ==
    /\ Exists(j) /\ jobs[j].status = "leased"
    /\ t = jobs[j].token /\ now < jobs[j].expires

(* What memory.job.claim and memory.phase2.begin ask of the job. *)
Available(j) ==
    /\ Exists(j)
    /\ \/ jobs[j].status \in {"queued", "failed"}
       \/ jobs[j].status = "leased" /\ now >= jobs[j].expires

-----------------------------------------------------------------------------
(* NativeBatch over the memory domains. *)

(* Every change names the revision it replaces, and deletes what is live. *)
Fits(changes) ==
    \A c \in changes :
        /\ native[c.key].rev = c.exp
        /\ c.deleted => Live(native[c.key])

Written(changes, content) ==
    [k \in Key |->
        IF \A c \in changes : c.key # k THEN native[k]
        ELSE LET c == CHOOSE c \in changes : c.key = k
             IN  [rev |-> c.exp + 1, deleted |-> c.deleted,
                  content |-> IF c.deleted THEN 0 ELSE content]]

Replace(keys, deleted) ==
    {[key |-> k, exp |-> native[k].rev, deleted |-> deleted] : k \in keys}

GenerationAfter(changes) ==
    IF changes = {} THEN generation ELSE generation + 1

-----------------------------------------------------------------------------
(* stage1Selection. *)

LastRelevant(j) ==
    IF usage[j].last = 0 THEN jobs[j].input ELSE usage[j].last

Candidates ==
    {j \in Rollout : Succeeded(j) /\ Live(native[Raw(j)]) /\ Live(native[Summary(j)])}

Beats(a, b) ==
    \E k \in DOMAIN a : a[k] > b[k] /\ \A i \in 1..(k - 1) : a[i] = b[i]

(* The first of S in the order of their ranks, all of S if limit is 0. *)
Leading(S, limit, rank) ==
    {j \in S : limit = 0 \/ Cardinality({i \in S : Beats(rank[i], rank[j])}) < limit}

Selection(limit) ==
    LET rank == [j \in Candidates |->
                    <<usage[j].count, LastRelevant(j), jobs[j].input, j>>]
    IN  {[job |-> j, raw |-> native[Raw(j)].rev, summary |-> native[Summary(j)].rev] :
            j \in Leading(Candidates, limit, rank)}

(* cloneNativeJob and the journal store a job as JSON: omitempty drops an  *)
(* empty map, and a nil map comes back.                                    *)
Stored(selection) ==
    IF selection = {} THEN NoSelection ELSE selection

-----------------------------------------------------------------------------
(* Job commands that hold the lock once. *)

(* Faulty variant: a leased job accepts a new input. *)
EnqueueLeased(j, v) ==
    /\ up
    /\ Exists(j) => jobs[j].input # v
    /\ jobs' = [jobs EXCEPT ![j] =
                   IF Exists(j) THEN [@ EXCEPT !.input = v]
                   ELSE NewJob(v)]
    /\ UNCHANGED <<native, maintenance, generation, process, issued, call,
                   history>>

Enqueue(j, v) ==
    /\ up
    /\ Exists(j) => jobs[j].status # "leased" /\ jobs[j].input # v
    /\ jobs' = [jobs EXCEPT ![j] =
                   IF Exists(j) THEN [@ EXCEPT !.status = "queued", !.input = v]
                   ELSE NewJob(v)]
    /\ UNCHANGED <<native, maintenance, generation, process, issued, call,
                   history>>

(* Any job, the phase-2 job too: a claim of that one renews its generation *)
(* and keeps the transaction and the selection of the begin before it.     *)
Claim(j, seconds) ==
    /\ up /\ Len(issued) < MaxTokens
    /\ Available(j)
    /\ jobs' = [jobs EXCEPT ![j] =
                   [@ EXCEPT !.status = "leased", !.token = NextToken,
                             !.expires = now + seconds, !.gen = generation]]
    /\ issued' = Append(issued, [job |-> j, input |-> jobs[j].input,
                                 gen |-> generation, begin |-> FALSE])
    /\ UNCHANGED <<native, maintenance, generation, process, call, history>>

Heartbeat(j, t, seconds) ==
    /\ up
    /\ ValidLease(j, t)
    /\ jobs' = [jobs EXCEPT ![j].expires = now + seconds]
    /\ UNCHANGED <<native, maintenance, generation, process, issued, call,
                   history>>

(* Faulty variant: the lease of a failed job is not released. *)
FailKeepsLease(j, t) ==
    /\ up
    /\ ValidLease(j, t)
    /\ jobs' = [jobs EXCEPT ![j].status = "failed"]
    /\ UNCHANGED <<native, maintenance, generation, process, issued, call,
                   history>>

Fail(j, t) ==
    /\ up
    /\ ValidLease(j, t)
    /\ jobs' = [jobs EXCEPT ![j] =
                   [@ EXCEPT !.status = "failed", !.token = 0, !.expires = 0]]
    /\ UNCHANGED <<native, maintenance, generation, process, issued, call,
                   history>>

(* Lease and transaction id are two fresh random tokens; both carry the    *)
(* number of the lease.  Replay evaluates the request again and compares   *)
(* the result with the one it has decoded.                                 *)
Begin(seconds, limit) ==
    /\ up /\ Len(issued) < MaxTokens
    /\ Available(Global)
    /\ jobs' = [jobs EXCEPT ![Global] =
                   [@ EXCEPT !.status = "leased", !.token = NextToken,
                             !.expires = now + seconds, !.tx = NextToken,
                             !.gen = generation, !.limit = limit,
                             !.selected = Stored(Selection(limit))]]
    /\ issued' = Append(issued, [job |-> Global, input |-> 0,
                                 gen |-> generation, begin |-> TRUE])
    /\ journaled' = (journaled /\ Stored(Selection(limit)) = Selection(limit))
    /\ UNCHANGED <<native, maintenance, generation, up, now, call, history>>

(* MemoryNote: create-only, so a filename is never used twice. *)
CreateNote(n) ==
    /\ up
    /\ native[NoteKey(n)].rev = 0
    /\ native' = [native EXCEPT ![NoteKey(n)] =
                     [rev |-> 1, deleted |-> FALSE, content |-> 0]]
    /\ generation' = generation + 1
    /\ UNCHANGED <<jobs, maintenance, process, issued, call, history>>

-----------------------------------------------------------------------------
(* Requests that hold the lock more than once. *)

Starts(c, request) ==
    /\ up /\ call[c] = Idle
    /\ call' = [call EXCEPT ![c] = request]
    /\ UNCHANGED <<jobs, native, maintenance, generation, process, issued,
                   history>>

Pending(c, op) == up /\ call[c] # Idle /\ call[c].op = op

Returns(c) == call' = [call EXCEPT ![c] = Idle]

Rejected(c) ==
    /\ Returns(c)
    /\ UNCHANGED <<jobs, native, maintenance, generation, process, issued,
                   history>>

(* MemoryStage1Commit.  A worker without output deletes the old pair, if   *)
(* there is one.  A worker holds a token some claim of this job granted.   *)
ReadOutputs(c, j, t, noOutput) ==
    /\ issued[t].job = j
    /\ noOutput => (Live(native[Raw(j)]) <=> Live(native[Summary(j)]))
    /\ Starts(c, [op |-> "stage1.commit", job |-> j, token |-> t,
                  changes |-> Replace(IF noOutput /\ ~Live(native[Raw(j)]) THEN {}
                                      ELSE {Raw(j), Summary(j)}, noOutput)])

(* Faulty variant: a consolidation that has succeeded is not queued again. *)
WokenOnce ==
    IF ~Exists(Global) THEN NewJob(0) ELSE jobs[Global]

(* The phase-2 job after an output has changed. *)
Woken ==
    IF ~Exists(Global) THEN NewJob(0)
    ELSE IF jobs[Global].status \in {"succeeded", "failed"}
         THEN [jobs[Global] EXCEPT !.status = "queued"]
         ELSE jobs[Global]

CommitStage1(c) ==
    /\ Pending(c, "stage1.commit")
    /\ LET q == call[c]
       IN  \/ /\ ValidLease(q.job, q.token) /\ Fits(q.changes)
              /\ native' = Written(q.changes, q.token)
              /\ generation' = GenerationAfter(q.changes)
              /\ jobs' = [j \in JobId |->
                     IF j = q.job
                     THEN [jobs[j] EXCEPT !.status = "succeeded", !.token = 0,
                                          !.expires = 0]
                     ELSE IF j = Global /\ q.changes # {} THEN Woken
                     ELSE jobs[j]]
              /\ outputAt' = IF q.changes = {} THEN outputAt ELSE generation + 1
              /\ Returns(c)
              /\ UNCHANGED <<maintenance, process, issued, clears>>
           \/ /\ ~(ValidLease(q.job, q.token) /\ Fits(q.changes))
              /\ Rejected(c)

(* MemoryPhase2Commit reads the two revisions under two locks.  A worker   *)
(* holds a lease of the phase-2 job and a transaction id some begin gave.  *)
ReadMemoryRevision(c, t, tx) ==
    /\ issued[t].job = Global /\ issued[tx].begin
    /\ Starts(c, [op |-> "phase2.read", token |-> t, tx |-> tx,
                  memory |-> native[Memory].rev])

(* Faulty variant: the batch is made of MEMORY.md alone. *)
ReadSummaryRevisionOnly(c) ==
    /\ Pending(c, "phase2.read")
    /\ LET q == call[c]
       IN  call' = [call EXCEPT ![c] =
               [op |-> "phase2.commit", token |-> q.token, tx |-> q.tx,
                changes |->
                    {[key |-> Memory, exp |-> q.memory, deleted |-> FALSE]}]]
    /\ UNCHANGED <<jobs, native, maintenance, generation, process, issued,
                   history>>

ReadSummaryRevision(c) ==
    /\ Pending(c, "phase2.read")
    /\ LET q == call[c]
       IN  call' = [call EXCEPT ![c] =
               [op |-> "phase2.commit", token |-> q.token, tx |-> q.tx,
                changes |->
                    {[key |-> Memory, exp |-> q.memory, deleted |-> FALSE],
                     [key |-> MemorySummary, exp |-> native[MemorySummary].rev,
                      deleted |-> FALSE]}]]
    /\ UNCHANGED <<jobs, native, maintenance, generation, process, issued,
                   history>>

(* Faulty variant: the generation is not compared. *)
CurrentButGeneration(q) ==
    /\ ValidLease(Global, q.token)
    /\ q.tx = jobs[Global].tx
    /\ jobs[Global].selected = Selection(jobs[Global].limit)

(* The consolidation is not stale. *)
Current(q) ==
    /\ ValidLease(Global, q.token)
    /\ q.tx = jobs[Global].tx
    /\ jobs[Global].gen = generation
    /\ jobs[Global].selected = Selection(jobs[Global].limit)

CommitPhase2(c) ==
    /\ Pending(c, "phase2.commit")
    /\ LET q == call[c]
       IN  \/ /\ Fits(q.changes) /\ Current(q)
              /\ native' = Written(q.changes, q.tx)
              /\ generation' = generation + 1
              /\ jobs' = [jobs EXCEPT ![Global] =
                     [@ EXCEPT !.status = "succeeded", !.token = 0, !.expires = 0,
                               !.tx = 0, !.gen = generation + 1]]
              /\ Returns(c)
              /\ UNCHANGED <<maintenance, process, issued, history>>
           \/ /\ ~(Fits(q.changes) /\ Current(q))
              /\ Rejected(c)

(* MemoryRecordUsage looks the jobs up before it looks the request up, so  *)
(* a retry is refused once one of its rollouts has a new input.            *)
ReadUsage(c, u) ==
    /\ \A j \in Used[u] : Succeeded(j)
    /\ Starts(c, [op |-> "usage.record", id |-> u, at |-> now,
                  read |-> {[job |-> j, rev |-> usage[j].rev,
                             count |-> usage[j].count] : j \in Used[u]}])

(* Faulty variant: the usage is written over whatever is there. *)
UsageFitsAlways(read) == TRUE

UsageFits(read) == \A x \in read : usage[x.job].rev = x.rev

CommitUsage(c) ==
    /\ Pending(c, "usage.record")
    /\ LET q == call[c]
           accepted == receipts[q.id] = "none" /\ UsageFits(q.read)
       IN  /\ usage' = [j \in Rollout |->
                  IF ~accepted \/ \A x \in q.read : x.job # j THEN usage[j]
                  ELSE LET old == CHOOSE x \in q.read : x.job = j
                       IN  [rev |-> old.rev + 1, count |-> old.count + 1, last |-> q.at]]
           /\ receipts' = [receipts EXCEPT ![q.id] =
                  IF @ # "none" THEN @
                  ELSE IF accepted THEN "committed" ELSE "revision_conflict"]
    /\ Returns(c)
    /\ UNCHANGED <<jobs, native, generation, process, issued, history>>

(* MemoryRetainStage1 chooses the outputs that were last relevant before   *)
(* the cutoff; memoryDeleteTransaction then reads their revisions.         *)
ChooseStale(c, p) ==
    LET stale == {j \in Candidates : LastRelevant(j) < now - p.unused}
        age   == [j \in stale |-> <<-LastRelevant(j), -j>>]
    IN  Starts(c, [op |-> "retain", prune |-> Leading(stale, p.limit, age)])

OutputsOf(prune) == {Raw(j) : j \in prune} \cup {Summary(j) : j \in prune}

(* memoryDeleteTransaction up to its batch, which also writes a receipt. *)
Deletion(keys, clear) ==
    [op |-> "delete", clear |-> clear,
     changes |-> Replace({k \in keys : Live(native[k])}, TRUE)]

SmallEnough(request) ==
    Cardinality(request.changes) + 1 <= TransactionChanges

ReadStale(c) ==
    /\ Pending(c, "retain")
    /\ LET request == Deletion(OutputsOf(call[c].prune), FALSE)
       IN  call' = [call EXCEPT ![c] = IF SmallEnough(request) THEN request ELSE Idle]
    /\ UNCHANGED <<jobs, native, maintenance, generation, process, issued,
                   history>>

(* MemoryClear.  The bound counts the clears still to come, too. *)
ReadAll(c) ==
    /\ Len(clears) < MaxClears
    /\ SmallEnough(Deletion(Key, TRUE))
    /\ Starts(c, Deletion(Key, TRUE))

(* Faulty variant: the jobs survive the clear. *)
JobsAfterDeleteKept(clear) == jobs

JobsAfterDelete(clear) ==
    IF clear THEN [j \in JobId |-> NoJob] ELSE jobs

Delete(c) ==
    /\ Pending(c, "delete")
    /\ LET q == call[c]
       IN  \/ /\ Fits(q.changes)
              /\ q.clear => Len(clears) < MaxClears
              /\ native' = Written(q.changes, 0)
              /\ generation' = IF q.clear THEN generation + 1
                               ELSE GenerationAfter(q.changes)
              /\ jobs' = JobsAfterDelete(q.clear)
              /\ clears' = IF q.clear THEN Append(clears, Len(issued)) ELSE clears
              /\ outputAt' = IF q.clear THEN 0 ELSE outputAt
              /\ Returns(c)
              /\ UNCHANGED <<maintenance, process, issued>>
           \/ /\ ~Fits(q.changes)
              /\ Rejected(c)

-----------------------------------------------------------------------------
(* The environment. *)

Tick ==
    /\ now < MaxTime
    /\ now' = now + 1
    /\ UNCHANGED <<jobs, native, maintenance, generation, journaled, up,
                   issued, call, history>>

(* The process ends and is started again: Open replays the journal, or     *)
(* fails for good.                                                         *)
Restart ==
    /\ AllowRestart /\ up
    /\ up' = journaled
    /\ call' = [c \in Caller |-> Idle]
    /\ UNCHANGED <<jobs, native, maintenance, generation, journaled, now,
                   issued, history>>

JobStep ==
    \/ \E j \in Rollout, v \in Input : Enqueue(j, v)
    \/ \E j \in JobId, s \in LeaseSeconds : Claim(j, s)
    \/ \E j \in JobId, t \in Tokens, s \in LeaseSeconds : Heartbeat(j, t, s)
    \/ \E j \in JobId, t \in Tokens : Fail(j, t)
    \/ \E s \in LeaseSeconds, n \in Limit : Begin(s, n)
    \/ \E c \in Caller, j \in Rollout, t \in Tokens, b \in BOOLEAN : ReadOutputs(c, j, t, b)
    \/ \E c \in Caller, t \in Tokens, tx \in Tokens : ReadMemoryRevision(c, t, tx)
    \/ \E c \in Caller : CommitStage1(c) \/ ReadSummaryRevision(c) \/ CommitPhase2(c)

MaintenanceStep ==
    \/ \E n \in Note : CreateNote(n)
    \/ \E c \in Caller, u \in UsageId : ReadUsage(c, u)
    \/ \E c \in Caller, p \in Retention : ChooseStale(c, p)
    \/ \E c \in Caller : CommitUsage(c) \/ ReadStale(c) \/ ReadAll(c) \/ Delete(c)

Next == JobStep \/ MaintenanceStep \/ Tick \/ Restart

Spec == Init /\ [][Next]_vars

-----------------------------------------------------------------------------
(* Properties. *)

(* Every variable stays in its type, and a job has a lease token exactly   *)
(* while it is leased (evaluateNative sets and clears the two together).   *)
TypeOK ==
    /\ jobs \in [JobId -> Job \cup {NoJob}]
    /\ \A j \in JobId : Exists(j) =>
          (jobs[j].status = "leased" <=> jobs[j].token # 0)
    /\ native \in [Key -> Resource]
    /\ usage \in [Rollout -> Usage]
    /\ generation \in Nat /\ outputAt \in 0..generation
    /\ receipts \in [UsageId -> {"none", "committed", "revision_conflict"}]
    /\ journaled \in BOOLEAN /\ up \in BOOLEAN
    /\ now \in 1..MaxTime
    /\ issued \in Seq(Lease) /\ Len(issued) <= MaxTokens
    /\ call \in [Caller -> Call \cup {Idle}]
    /\ clears \in Seq(Nat) /\ Len(clears) <= MaxClears

(* A raw memory and its summary, and the two artifacts, are always of the  *)
(* same commit and live or deleted together, although MemoryPhase2Commit   *)
(* reads the two revisions under two locks and retention and clear choose  *)
(* what they delete long before they do.                                   *)
PairsMoveTogether ==
    /\ \A j \in Rollout : native[Raw(j)] = native[Summary(j)]
    /\ native[Memory] = native[MemorySummary]

(* Fencing: a worker whose lease has been taken over never overwrites the  *)
(* output of the one that took it over, in whatever order their commits    *)
(* arrive.                                                                 *)
OutputsNeverRegress ==
    [][\A j \in Rollout :
          native'[Raw(j)].content # 0 =>
              native'[Raw(j)].content >= native[Raw(j)].content]_vars

(* A job that has succeeded and has an output shows the output of its own  *)
(* input: an input that changes under a worker is never answered with the  *)
(* memory of the old one.                                                  *)
OutputMatchesInput ==
    \A j \in Rollout :
        Succeeded(j) /\ Live(native[Raw(j)]) =>
            issued[native[Raw(j)].content].input = jobs[j].input

(* codex-go-native-state-protocol.md:80-81: a consolidation is refused as  *)
(* a whole if a note, an input or its lease has changed since its begin.   *)
(* No note, output or deletion is missing from MEMORY.md although it was   *)
(* there when MEMORY.md was published.                                     *)
ConsolidationFresh ==
    [][/\ native'[Memory].rev # native[Memory].rev
       /\ Live(native'[Memory])
       => issued[native'[Memory].content].gen = generation]_vars

(* The phase-2 job was claimed by its id after the begin that gave tx.     *)
ClaimedSince(tx) ==
    \E t \in Tokens : t > tx /\ issued[t].job = Global /\ ~issued[t].begin

(* As far as the code keeps that: unless the phase-2 job was claimed by    *)
(* its id since the begin, whoever commits, in whatever order the leases   *)
(* end and notes, outputs and deletions arrive (phase2.commit).            *)
FreshUnlessClaimed ==
    [][/\ native'[Memory].rev # native[Memory].rev
       /\ Live(native'[Memory])
       /\ ~ClaimedSince(native'[Memory].content)
       => issued[native'[Memory].content].gen = generation]_vars

(* Once a stage-1 output has changed, the phase-2 job exists, and it is    *)
(* not done before a consolidation that began after the change is live,    *)
(* with the same exception.                                                *)
NoLostWakeup ==
    outputAt # 0 =>
        /\ Exists(Global)
        /\ Succeeded(Global) =>
              /\ Live(native[Memory])
              /\ \/ issued[native[Memory].content].gen >= outputAt
                 \/ ClaimedSince(native[Memory].content)

(* The usage count of a rollout is the number of accepted requests that    *)
(* report it: MemoryRecordUsage reads, unlocks and writes, and loses none. *)
NoLostUsage ==
    \A j \in Rollout :
        usage[j].count =
            Cardinality({u \in UsageId : j \in Used[u] /\ receipts[u] = "committed"})

(* An output written after a clear comes from a lease granted after it:    *)
(* workers that were running when memory was cleared bring nothing back.   *)
ClearFencesWorkers ==
    [][\A j \in Rollout, i \in DOMAIN clears :
          native'[Raw(j)].rev # native[Raw(j)].rev /\ Live(native'[Raw(j)]) =>
              native'[Raw(j)].content > clears[i]]_vars

(* A restart recovers the state: the service comes up again.               *)
RestartRecovers == up
=============================================================================
