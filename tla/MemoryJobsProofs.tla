-------------------------- MODULE MemoryJobsProofs --------------------------
(***************************************************************************)
(* MemoryJobs, for any rollouts, inputs, callers, leases and policies:     *)
(* leases fence the workers that lost them, the outputs of a rollout are   *)
(* of one commit and of its input, usage requests lose no count, and while *)
(* nobody claims the phase-2 job by its id a consolidation that is         *)
(* published has missed nothing.                                           *)
(***************************************************************************)
EXTENDS MemoryJobs, FiniteSetTheorems, TLAPS

Leased(j) == Exists(j) /\ jobs[j].status = "leased"

(* A lease is known: who got it, for which input, and that every clear and *)
(* every output of its rollout is of before it.                            *)
JobFits(j) ==
    /\ jobs[j].token <= Len(issued)
    /\ Leased(j) =>
          /\ issued[jobs[j].token].job = j
          /\ \A i \in DOMAIN clears : clears[i] < jobs[j].token
          /\ j \in Rollout => /\ issued[jobs[j].token].input = jobs[j].input
                              /\ native[Raw(j)].content < jobs[j].token

JobsInv == \A j \in JobId : Exists(j) => JobFits(j)

OutputsInv ==
    /\ \A j \in Rollout :
          /\ native[Raw(j)].content <= Len(issued)
          /\ Live(native[Raw(j)]) => native[Raw(j)].content # 0
    /\ OutputMatchesInput
    /\ \A i \in DOMAIN clears : clears[i] <= Len(issued)

(* A batch changes both of a pair or neither, and all in the same way. *)
KeysOf(changes) == {x.key : x \in changes}

Whole(changes, deleted) ==
    /\ \A x \in changes : x.deleted = deleted
    /\ \A j \in Rollout : Raw(j) \in KeysOf(changes) <=> Summary(j) \in KeysOf(changes)
    /\ Memory \in KeysOf(changes) <=> MemorySummary \in KeysOf(changes)

(* What a request that has unlocked the store has read of it. *)
OutputsRead(q) ==
    /\ q.token \in Tokens
    /\ \E deleted \in BOOLEAN : Whole(q.changes, deleted)
    /\ q.changes = {} \/ KeysOf(q.changes) = {Raw(q.job), Summary(q.job)}
    /\ q.changes = {} /\ Leased(q.job) /\ jobs[q.job].token = q.token =>
          ~Live(native[Raw(q.job)])

ArtifactsRead(q) ==
    q.tx \in Tokens /\ Whole(q.changes, FALSE) /\ KeysOf(q.changes) = Artifacts

UsageRead(q) ==
    /\ {x.job : x \in q.read} = Used[q.id]
    /\ \A x, y \in q.read : x.job = y.job => x = y
    /\ \A x \in q.read :
          /\ x.rev <= usage[x.job].rev
          /\ x.rev = usage[x.job].rev => x.count = usage[x.job].count

DeletionRead(q) ==
    Whole(q.changes, TRUE) /\ (~q.clear => KeysOf(q.changes) \subseteq Outputs)

CallFits(q) ==
    /\ q.op = "stage1.commit" => OutputsRead(q)
    /\ q.op = "phase2.read" => q.tx \in Tokens
    /\ q.op = "phase2.commit" => ArtifactsRead(q)
    /\ q.op = "usage.record" => UsageRead(q)
    /\ q.op = "delete" => DeletionRead(q)

CallsInv == \A c \in Caller : call[c] # Idle => CallFits(call[c])

(* The requests that usage counts are finite in number. *)
Accepted(j) == {u \in UsageId : j \in Used[u] /\ receipts[u] = "committed"}
UsageInv ==
    \A j \in Rollout : IsFiniteSet(Accepted(j)) /\ usage[j].count = Cardinality(Accepted(j))

MemoryInv ==
    TypeOK /\ PairsMoveTogether /\ JobsInv /\ OutputsInv /\ CallsInv /\ UsageInv

(* The phase-2 job's transaction began at the generation the job carries,  *)
(* unless a claim by the job's id has renewed the generation.              *)
ConsolidationInv ==
    /\ Exists(Global) /\ jobs[Global].tx # 0 =>
          /\ jobs[Global].tx \in Tokens
          /\ \/ issued[jobs[Global].tx].gen = jobs[Global].gen
             \/ ClaimedSince(jobs[Global].tx)
    /\ Live(native[Memory]) => native[Memory].content \in Tokens
    /\ NoLostWakeup

-----------------------------------------------------------------------------
(* The names of resources do not collide. *)
LEMMA KeysDiffer ==
  /\ Memory \in Key /\ MemorySummary \in Key /\ Memory # MemorySummary
  /\ \A j \in Rollout : /\ Raw(j) \in Key /\ Summary(j) \in Key
                         /\ Raw(j) \notin Artifacts /\ Summary(j) \notin Artifacts
                         /\ \A i \in Rollout : /\ Raw(i) # Summary(j)
                                               /\ Raw(i) = Raw(j) => i = j
                                               /\ Summary(i) = Summary(j) => i = j
  /\ \A n \in Note : /\ NoteKey(n) \in Key /\ NoteKey(n) \notin Artifacts
                      /\ \A j \in Rollout : NoteKey(n) # Raw(j) /\ NoteKey(n) # Summary(j)
  /\ Outputs \cap Artifacts = {}
BY DEF Key, Outputs, Artifacts, Raw, Summary, Memory, MemorySummary, NoteKey

(* A rollout is not the phase-2 job. *)
LEMMA JobIds == Global \notin Rollout /\ JobId = Rollout \cup {Global} /\ Rollout \subseteq Nat
BY JobsAssumption DEF Global, JobId

(* MemoryInv holds in the beginning. *)
LEMMA InitMemoryInv == Init => MemoryInv
<1> SUFFICES ASSUME Init PROVE MemoryInv
  OBVIOUS
<1>1. /\ \A j \in JobId : ~Exists(j)
      /\ \A k \in Key : native[k] = Absent
      /\ \A c \in Caller : call[c] = Idle
      /\ Len(issued) = 0 /\ Len(clears) = 0
  BY DEF Init, Exists
<1>2. TypeOK
  <2>1. native \in [Key -> Resource] /\ usage \in [Rollout -> Usage]
    BY DEF Init, Absent, Resource, Usage
  <2>2. issued \in Seq(Lease) /\ clears \in Seq(Nat)
    BY DEF Init
  <2>3. now \in 1..MaxTime /\ outputAt \in 0..generation
    BY JobsAssumption DEF Init
  <2> QED
    BY <1>1, <2>1, <2>2, <2>3, JobsAssumption DEF TypeOK, Init
<1>3. PairsMoveTogether
  BY <1>1, KeysDiffer DEF PairsMoveTogether
<1>4. JobsInv /\ CallsInv
  BY <1>1 DEF JobsInv, CallsInv
<1>5. OutputsInv
  <2>1. \A j \in Rollout : /\ native[Raw(j)].content = 0 /\ ~Live(native[Raw(j)])
    BY <1>1, KeysDiffer DEF Absent, Live
  <2>2. DOMAIN clears = {}
    BY DEF Init
  <2> QED
    BY <1>1, <2>1, <2>2 DEF OutputsInv, OutputMatchesInput
<1>6. UsageInv
  <2>1. \A j \in Rollout : Accepted(j) = {} /\ usage[j].count = 0
    BY DEF Init, Accepted
  <2> QED
    BY <2>1, FS_EmptySet DEF UsageInv
<1> QED
  BY <1>2, <1>3, <1>4, <1>5, <1>6 DEF MemoryInv

-----------------------------------------------------------------------------
(* What NativeBatch writes: a new revision of every key of the batch. *)
LEMMA WrittenIs ==
  ASSUME NEW changes \in Changes, NEW deleted \in BOOLEAN, NEW content \in Nat,
         TypeOK, Whole(changes, deleted), Fits(changes)
  PROVE  /\ KeysOf(changes) \subseteq Key
         /\ Written(changes, content) \in [Key -> Resource]
         /\ \A k \in KeysOf(changes) :
               /\ Written(changes, content)[k] =
                     [rev |-> native[k].rev + 1, deleted |-> deleted,
                      content |-> IF deleted THEN 0 ELSE content]
               /\ deleted => Live(native[k])
         /\ \A k \in Key \ KeysOf(changes) : Written(changes, content)[k] = native[k]
<1> DEFINE W == Written(changes, content)
<1>1. \A x \in changes : /\ x.key \in Key /\ x.exp = native[x.key].rev /\ x.deleted = deleted
                         /\ deleted => Live(native[x.key])
  BY DEF Changes, Whole, Fits
<1>2. KeysOf(changes) \subseteq Key
  BY <1>1 DEF KeysOf
<1>3. ASSUME NEW k \in KeysOf(changes)
      PROVE  /\ W[k] = [rev |-> native[k].rev + 1, deleted |-> deleted,
                        content |-> IF deleted THEN 0 ELSE content]
             /\ deleted => Live(native[k])
  <2>1. PICK x \in changes : x.key = k /\ x = CHOOSE y \in changes : y.key = k
    BY DEF KeysOf
  <2>2. W[k] = [rev |-> x.exp + 1, deleted |-> x.deleted,
                content |-> IF x.deleted THEN 0 ELSE content]
    BY <1>2, <2>1 DEF Written
  <2> QED
    BY <1>1, <2>1, <2>2
<1>4. \A k \in Key \ KeysOf(changes) : W[k] = native[k]
  BY DEF Written, KeysOf
<1>5. W = [k \in Key |-> W[k]]
  BY DEF Written
<1>6. \A k \in Key : native[k] \in Resource /\ native[k].rev \in Nat
  BY DEF TypeOK, Resource
<1>7. \A k \in Key : W[k] \in Resource
  <2>1. ASSUME NEW n \in Nat
        PROVE  [rev |-> n + 1, deleted |-> deleted,
                content |-> IF deleted THEN 0 ELSE content] \in Resource
    BY DEF Resource
  <2> QED
    BY <1>2, <1>3, <1>4, <1>6, <2>1
<1> HIDE DEF W
<1> QED
  BY <1>2, <1>3, <1>4, <1>5, <1>7 DEF W

(* A batch that changes pairs keeps them together. *)
LEMMA WrittenPairs ==
  ASSUME NEW changes \in Changes, NEW deleted \in BOOLEAN, NEW content \in Nat,
         TypeOK, PairsMoveTogether, Whole(changes, deleted), Fits(changes),
         native' = Written(changes, content)
  PROVE  PairsMoveTogether'
<1>1. /\ \A k \in KeysOf(changes) :
            native'[k] = [rev |-> native[k].rev + 1, deleted |-> deleted,
                          content |-> IF deleted THEN 0 ELSE content]
      /\ \A k \in Key \ KeysOf(changes) : native'[k] = native[k]
  BY WrittenIs
<1>2. /\ \A j \in Rollout : Raw(j) \in KeysOf(changes) <=> Summary(j) \in KeysOf(changes)
      /\ Memory \in KeysOf(changes) <=> MemorySummary \in KeysOf(changes)
  BY DEF Whole
<1>3. ASSUME NEW a \in Key, NEW b \in Key, native[a] = native[b],
             a \in KeysOf(changes) <=> b \in KeysOf(changes)
      PROVE  native'[a] = native'[b]
  BY <1>1, <1>3
<1> QED
  BY <1>2, <1>3, KeysDiffer DEF PairsMoveTogether

-----------------------------------------------------------------------------
(* Leases are only ever added. *)
LEMMA IssuedGrows ==
  ASSUME issued \in Seq(Lease), NEW l \in Lease, issued' = Append(issued, l)
  PROVE  /\ issued' \in Seq(Lease) /\ Len(issued') = Len(issued) + 1
         /\ issued'[NextToken] = l
         /\ \A t \in Tokens : issued'[t] = issued[t]
BY DEF NextToken, Tokens

(* What a request has read stays what it was of the store, when no job     *)
(* gets an older lease back and no output comes to live under a lease.     *)
LEMMA CallFitsKept ==
  ASSUME TypeOK, Len(issued') \in Nat, Len(issued) <= Len(issued'),
         \A t \in Tokens : issued'[t] = issued[t],
         \A j \in Rollout : Leased(j)' /\ jobs'[j].token \in Tokens =>
            /\ Leased(j) /\ jobs[j].token = jobs'[j].token
            /\ Live(native'[Raw(j)]) => Live(native[Raw(j)]),
         \A j \in Rollout : usage'[j] = usage[j] \/ usage'[j].rev = usage[j].rev + 1,
         NEW q \in Call, CallFits(q)
  PROVE  CallFits(q)'
<1>1. Len(issued) \in Nat /\ \A t \in Tokens : t \in Nat /\ t \in 1..Len(issued')
  BY DEF TypeOK, Tokens
<1>2. CASE q.op = "stage1.commit"
  <2>1. q.job \in Rollout /\ OutputsRead(q)
    BY <1>2 DEF Call, CallFits
  <2>2. OutputsRead(q)'
    BY <1>1, <2>1 DEF OutputsRead, Tokens, Whole, KeysOf
  <2> QED
    BY <1>2, <2>2 DEF CallFits
<1>3. CASE q.op = "phase2.read"
  BY <1>1, <1>3 DEF CallFits, Tokens
<1>4. CASE q.op = "phase2.commit"
  <2>1. ArtifactsRead(q)'
    BY <1>1, <1>4 DEF CallFits, ArtifactsRead, Tokens, Whole, KeysOf
  <2> QED
    BY <1>4, <2>1 DEF CallFits
<1>5. CASE q.op = "usage.record"
  <2>1. UsageRead(q) /\ q.id \in UsageId /\ Used[q.id] \subseteq Rollout
    BY <1>5, JobsAssumption DEF CallFits, Call
  <2>2. \A x \in q.read : x.job \in Rollout /\ x.rev \in Nat
    BY <1>5 DEF Call
  <2>3. \A j \in Rollout : usage[j].rev \in Nat
    BY DEF TypeOK, Usage
  <2>4. \A x \in q.read : /\ x.rev <= usage'[x.job].rev
                          /\ x.rev = usage'[x.job].rev => x.count = usage'[x.job].count
    <3> SUFFICES ASSUME NEW x \in q.read
                 PROVE  /\ x.rev <= usage'[x.job].rev
                        /\ x.rev = usage'[x.job].rev => x.count = usage'[x.job].count
      OBVIOUS
    <3>1. /\ x.job \in Rollout /\ x.rev \in Nat /\ usage[x.job].rev \in Nat
          /\ x.rev <= usage[x.job].rev
          /\ x.rev = usage[x.job].rev => x.count = usage[x.job].count
      BY <2>1, <2>2, <2>3 DEF UsageRead
    <3>2. CASE usage'[x.job] = usage[x.job]
      BY <3>1, <3>2
    <3>3. CASE usage'[x.job].rev = usage[x.job].rev + 1
      BY <3>1, <3>3
    <3> QED
      BY <3>1, <3>2, <3>3
  <2>5. UsageRead(q)'
    BY <2>1, <2>4 DEF UsageRead
  <2> QED
    BY <1>5, <2>5 DEF CallFits
<1>6. CASE q.op = "retain"
  BY <1>6 DEF CallFits
<1>7. CASE q.op = "delete"
  <2>1. DeletionRead(q)'
    BY <1>7 DEF CallFits, DeletionRead, Whole, KeysOf
  <2> QED
    BY <1>7, <2>1 DEF CallFits
<1> QED
  BY <1>2, <1>3, <1>4, <1>5, <1>6, <1>7 DEF Call

(* What is not changed by a step that changes no job, output or usage.     *)
LEMMA CallsKept ==
  ASSUME MemoryInv, Len(issued') \in Nat, Len(issued) <= Len(issued'),
         \A t \in Tokens : issued'[t] = issued[t],
         \A j \in Rollout : Leased(j)' /\ jobs'[j].token \in Tokens =>
            /\ Leased(j) /\ jobs[j].token = jobs'[j].token
            /\ Live(native'[Raw(j)]) => Live(native[Raw(j)]),
         \A j \in Rollout : usage'[j] = usage[j] \/ usage'[j].rev = usage[j].rev + 1,
         \A c \in Caller : call'[c] \in {call[c], Idle}
  PROVE  CallsInv'
<1>1. \A c \in Caller : call[c] # Idle => call[c] \in Call /\ CallFits(call[c])
  BY DEF MemoryInv, TypeOK, CallsInv
<1>2. TypeOK
  BY DEF MemoryInv
<1>3. ASSUME NEW q \in Call, CallFits(q) PROVE CallFits(q)'
  BY <1>2, <1>3, CallFitsKept
<1> SUFFICES ASSUME NEW c \in Caller, call'[c] # Idle PROVE CallFits(call[c])'
  BY DEF CallsInv
<1>4. call'[c] \in Call /\ CallFits(call'[c])
  BY <1>1
<1> QED
  BY <1>3, <1>4

-----------------------------------------------------------------------------
(* A job command changes one job, and grants at most one lease.            *)
LEMMA JobChange ==
  ASSUME MemoryInv, NEW j \in JobId, NEW r \in Job, jobs' = [jobs EXCEPT ![j] = r],
         r.status # "succeeded", r.status = "leased" <=> r.token # 0,
         \/ /\ UNCHANGED issued
            /\ \/ r.token = 0
               \/ Leased(j) /\ r.token = jobs[j].token /\ r.input = jobs[j].input
         \/ /\ Len(issued) < MaxTokens /\ r.token = NextToken
            /\ \E l \in Lease : /\ issued' = Append(issued, l)
                                /\ l.job = j /\ (j \in Rollout => l.input = r.input),
         UNCHANGED <<native, usage, receipts, generation, up, now, call, outputAt, clears>>,
         journaled' \in BOOLEAN
  PROVE  MemoryInv'
<1>1. /\ TypeOK /\ PairsMoveTogether /\ JobsInv /\ OutputsInv /\ CallsInv /\ UsageInv
  BY DEF MemoryInv
<1>2. /\ Len(issued) \in Nat /\ Len(issued) <= MaxTokens /\ MaxTokens \in Nat
      /\ issued \in Seq(Lease) /\ clears \in Seq(Nat)
      /\ \A i \in Rollout : native[Raw(i)].content \in Nat /\ i \in JobId
      /\ \A i \in JobId : Exists(i) => jobs[i] \in Job /\ jobs[i].token \in Nat
      /\ jobs'[j] = r /\ \A i \in JobId : i # j => jobs'[i] = jobs[i]
      /\ jobs' \in [JobId -> Job \cup {NoJob}]
      /\ r # NoJob /\ r.token \in Nat
  <2>1. /\ Len(issued) \in Nat /\ Len(issued) <= MaxTokens /\ MaxTokens \in Nat
        /\ issued \in Seq(Lease) /\ clears \in Seq(Nat)
    BY <1>1, JobsAssumption DEF TypeOK
  <2>2. \A i \in Rollout : native[Raw(i)].content \in Nat /\ i \in JobId
    BY <1>1, KeysDiffer, JobIds DEF TypeOK, Resource
  <2>3. \A x \in Job : x # NoJob /\ x.token \in Nat
    BY JobsAssumption DEF Job
  <2>4. jobs \in [JobId -> Job \cup {NoJob}]
    BY <1>1 DEF TypeOK
  <2>5. /\ jobs'[j] = r /\ \A i \in JobId : i # j => jobs'[i] = jobs[i]
        /\ jobs' \in [JobId -> Job \cup {NoJob}]
    BY <2>4
  <2>6. \A i \in JobId : Exists(i) => jobs[i] \in Job /\ jobs[i].token \in Nat
    BY <2>3, <2>4 DEF Exists
  <2> QED
    BY <2>1, <2>2, <2>3, <2>5, <2>6
<1>3. /\ issued' \in Seq(Lease) /\ Len(issued') \in Nat /\ Len(issued) <= Len(issued')
      /\ Len(issued') <= MaxTokens
      /\ \A t \in Tokens : issued'[t] = issued[t]
      /\ r.token <= Len(issued')
      /\ r.token # 0 =>
            \/ /\ r.token \in Tokens /\ Leased(j) /\ r.token = jobs[j].token
               /\ r.input = jobs[j].input /\ issued'[r.token] = issued[r.token]
            \/ /\ r.token = Len(issued) + 1 /\ issued'[r.token].job = j
               /\ j \in Rollout => issued'[r.token].input = r.input
  <2>1. CASE UNCHANGED issued
    <3>1. Leased(j) => jobs[j].token <= Len(issued) /\ jobs[j].token \in Nat
      BY <1>1, <1>2 DEF JobsInv, JobFits, Leased
    <3>2. CASE r.token = 0
      BY <1>2, <2>1, <3>2
    <3>3. CASE Leased(j) /\ r.token = jobs[j].token /\ r.input = jobs[j].input
      BY <1>2, <2>1, <3>1, <3>3 DEF Tokens
    <3>4. r.token = 0 \/ (Leased(j) /\ r.token = jobs[j].token /\ r.input = jobs[j].input)
      BY <1>2, <2>1, IssuedGrows DEF NextToken
    <3> QED
      BY <3>2, <3>3, <3>4
  <2>2. CASE /\ Len(issued) < MaxTokens /\ r.token = NextToken
             /\ \E l \in Lease : /\ issued' = Append(issued, l)
                                 /\ l.job = j /\ (j \in Rollout => l.input = r.input)
    <3>1. PICK l \in Lease : /\ issued' = Append(issued, l)
                            /\ l.job = j /\ (j \in Rollout => l.input = r.input)
      BY <2>2
    <3>2. /\ issued' \in Seq(Lease) /\ Len(issued') = Len(issued) + 1
          /\ issued'[NextToken] = l
          /\ \A t \in Tokens : issued'[t] = issued[t]
      BY <1>2, <3>1, IssuedGrows
    <3>3. r.token = Len(issued) + 1
      BY <2>2 DEF NextToken
    <3>4. issued'[r.token] = l
      BY <2>2, <3>2
    <3>5. /\ Len(issued') \in Nat /\ Len(issued) <= Len(issued') /\ Len(issued') <= MaxTokens
          /\ r.token <= Len(issued')
      BY <1>2, <2>2, <3>2, <3>3
    <3> QED
      BY <3>1, <3>2, <3>3, <3>4, <3>5
  <2> QED
    BY <2>1, <2>2
<1>4. TypeOK'
  <2>1. \A i \in JobId : Exists(i)' => (jobs'[i].status = "leased" <=> jobs'[i].token # 0)
    BY <1>1, <1>2 DEF TypeOK, Exists
  <2> QED
    BY <1>1, <1>2, <1>3, <2>1 DEF TypeOK
<1>5. PairsMoveTogether'
  BY <1>1 DEF PairsMoveTogether
<1>6. JobsInv'
  <2> SUFFICES ASSUME NEW i \in JobId, Exists(i)' PROVE JobFits(i)'
    BY DEF JobsInv
  <2>1. CASE i = j
    <3>1. r.token <= Len(issued')
      BY <1>3
    <3>2. ASSUME r.token # 0
          PROVE  /\ issued'[r.token].job = i
                 /\ \A k \in DOMAIN clears : clears[k] < r.token
                 /\ i \in Rollout => /\ issued'[r.token].input = r.input
                                     /\ native[Raw(i)].content < r.token
      <4>1. CASE /\ r.token \in Tokens /\ Leased(j) /\ r.token = jobs[j].token
                 /\ r.input = jobs[j].input /\ issued'[r.token] = issued[r.token]
        BY <1>1, <2>1, <4>1 DEF JobsInv, JobFits, Leased
      <4>2. CASE /\ r.token = Len(issued) + 1 /\ issued'[r.token].job = j
                 /\ j \in Rollout => issued'[r.token].input = r.input
        <5>1. \A k \in DOMAIN clears : clears[k] <= Len(issued) /\ clears[k] \in Nat
          BY <1>1, <1>2 DEF OutputsInv
        <5>2. i \in Rollout => native[Raw(i)].content <= Len(issued)
          BY <1>1 DEF OutputsInv
        <5> QED
          BY <1>2, <2>1, <4>2, <5>1, <5>2
      <4> QED
        BY <1>3, <3>2, <4>1, <4>2
    <3> QED
      BY <1>2, <2>1, <3>1, <3>2 DEF JobFits, Leased, Exists
  <2>2. CASE i # j
    <3>1. JobFits(i) /\ jobs'[i] = jobs[i] /\ Exists(i) /\ jobs[i].token \in Nat
      BY <1>1, <1>2, <2>2 DEF JobsInv, Exists
    <3>2. Leased(i) => jobs[i].token \in Tokens
      BY <1>1, <1>2, <3>1 DEF JobFits, Tokens, TypeOK, Leased
    <3> QED
      BY <1>2, <1>3, <3>1, <3>2 DEF JobFits, Leased, Exists
  <2> QED
    BY <2>1, <2>2
<1>7. OutputsInv'
  <2>1. \A i \in Rollout : /\ native[Raw(i)].content <= Len(issued')
                           /\ Live(native[Raw(i)]) =>
                                 /\ native[Raw(i)].content # 0
                                 /\ native[Raw(i)].content \in Tokens
    BY <1>1, <1>2, <1>3 DEF OutputsInv, Tokens
  <2>2. \A i \in Rollout : Succeeded(i)' => Succeeded(i) /\ jobs'[i] = jobs[i]
    BY <1>2 DEF Succeeded, Exists
  <2>3. OutputMatchesInput'
    BY <1>1, <1>3, <2>1, <2>2 DEF OutputsInv, OutputMatchesInput
  <2>4. \A i \in DOMAIN clears : clears[i] <= Len(issued')
    BY <1>1, <1>2, <1>3 DEF OutputsInv
  <2> QED
    BY <2>1, <2>3, <2>4 DEF OutputsInv
<1>8. CallsInv'
  <2>1. \A i \in Rollout : Leased(i)' /\ jobs'[i].token \in Tokens =>
            Leased(i) /\ jobs[i].token = jobs'[i].token
    <3> SUFFICES ASSUME NEW i \in Rollout, Leased(i)', jobs'[i].token \in Tokens
                 PROVE  Leased(i) /\ jobs[i].token = jobs'[i].token
      OBVIOUS
    <3>1. CASE i = j
      BY <1>2, <1>3, <3>1 DEF Tokens
    <3>2. CASE i # j
      BY <1>2, <3>2 DEF Leased, Exists
    <3> QED
      BY <3>1, <3>2
  <2> QED
    BY <1>3, <2>1, CallsKept
<1>9. UsageInv'
  BY <1>1 DEF UsageInv, Accepted
<1> QED
  BY <1>4, <1>5, <1>6, <1>7, <1>8, <1>9 DEF MemoryInv

(* What every job command finds. *)
LEMMA JobIs ==
  ASSUME TypeOK, NEW j \in JobId, Exists(j)
  PROVE  /\ jobs[j] \in Job
         /\ jobs[j].status = "leased" <=> jobs[j].token # 0
         /\ jobs[j].input \in Input \cup {0} /\ jobs[j].token \in Nat
         /\ jobs[j].gen \in Nat /\ jobs[j].tx \in Nat
         /\ generation \in Nat /\ now \in Nat /\ NextToken \in Nat \ {0}
BY JobsAssumption DEF TypeOK, Exists, Job, NextToken

(* A job with all its fields. *)
LEMMA JobFields ==
  ASSUME NEW x \in Job
  PROVE  x = [status |-> x.status, input |-> x.input, token |-> x.token, expires |-> x.expires,
              tx |-> x.tx, gen |-> x.gen, selected |-> x.selected, limit |-> x.limit]
BY DEF Job

LEMMA EnqueueInv ==
  ASSUME MemoryInv, NEW j \in Rollout, NEW v \in Input, Enqueue(j, v)
  PROVE  MemoryInv'
<1>1. j \in JobId /\ TypeOK
  BY JobIds DEF MemoryInv
<1>2. UNCHANGED <<native, usage, receipts, generation, journaled, up, now, call, outputAt, clears,
                  issued>>
  BY DEF Enqueue, maintenance, process, history
<1>3. journaled' \in BOOLEAN
  BY <1>1, <1>2 DEF TypeOK
<1>4. PICK r : /\ r = (IF Exists(j) THEN [jobs[j] EXCEPT !.status = "queued", !.input = v]
                       ELSE NewJob(v))
               /\ jobs' = [jobs EXCEPT ![j] = r]
  BY DEF Enqueue
<1>5. r \in Job /\ r.status = "queued" /\ r.token = 0
  <2>1. CASE Exists(j)
    BY <1>1, <1>4, <2>1, JobIs DEF Enqueue, Job
  <2>2. CASE ~Exists(j)
    BY <1>4, <2>2, JobsAssumption DEF NewJob, Job
  <2> QED
    BY <2>1, <2>2
<1> QED
  BY <1>1, <1>2, <1>3, <1>4, <1>5, JobChange

LEMMA ClaimInv ==
  ASSUME MemoryInv, NEW j \in JobId, NEW s \in LeaseSeconds, Claim(j, s)
  PROVE  MemoryInv'
<1>1. TypeOK /\ s \in Nat
  BY JobsAssumption DEF MemoryInv
<1>2. UNCHANGED <<native, usage, receipts, generation, journaled, up, now, call, outputAt, clears>>
      /\ Len(issued) < MaxTokens /\ Exists(j)
  BY DEF Claim, Available, maintenance, process, history
<1>3. journaled' \in BOOLEAN
  BY <1>1, <1>2 DEF TypeOK
<1>4. PICK r : /\ r = [jobs[j] EXCEPT !.status = "leased", !.token = NextToken,
                                      !.expires = now + s, !.gen = generation]
               /\ jobs' = [jobs EXCEPT ![j] = r]
  BY DEF Claim
<1>5. /\ r \in Job /\ r.status = "leased" /\ r.token = NextToken /\ NextToken # 0
      /\ r.input = jobs[j].input
  <2>1. jobs[j] \in Job /\ generation \in Nat /\ NextToken \in Nat \ {0} /\ now + s \in Nat
    BY <1>1, <1>2, JobIs
  <2>2. PICK x \in Job, t \in Nat \ {0}, e \in Nat, g \in Nat :
            x = jobs[j] /\ t = NextToken /\ e = now + s /\ g = generation
    BY <2>1
  <2>3. r = [x EXCEPT !.status = "leased", !.token = t, !.expires = e, !.gen = g]
    BY <1>4, <2>2
  <2>4. PICK y : y = [status |-> x.status, input |-> x.input, token |-> x.token,
                      expires |-> x.expires, tx |-> x.tx, gen |-> x.gen,
                      selected |-> x.selected, limit |-> x.limit]
    OBVIOUS
  <2>5. r = [y EXCEPT !.status = "leased", !.token = t, !.expires = e, !.gen = g]
    BY <2>3, <2>4, JobFields
  <2>6. r = [status |-> "leased", input |-> x.input, token |-> t, expires |-> e,
             tx |-> x.tx, gen |-> g, selected |-> x.selected, limit |-> x.limit]
    BY <2>4, <2>5
  <2> QED
    BY <2>2, <2>6 DEF Job
<1>6. PICK l : /\ l = [job |-> j, input |-> jobs[j].input, gen |-> generation, begin |-> FALSE]
               /\ issued' = Append(issued, l)
  BY DEF Claim
<1>7. l \in Lease /\ l.job = j /\ l.input = r.input
  BY <1>1, <1>2, <1>5, <1>6, JobIs DEF Lease
<1> QED
  BY <1>1, <1>2, <1>3, <1>4, <1>5, <1>6, <1>7, JobChange

LEMMA HeartbeatInv ==
  ASSUME MemoryInv, NEW j \in JobId, NEW t \in Tokens, NEW s \in LeaseSeconds, Heartbeat(j, t, s)
  PROVE  MemoryInv'
<1>1. TypeOK /\ s \in Nat
  BY JobsAssumption DEF MemoryInv
<1>2. UNCHANGED <<native, usage, receipts, generation, journaled, up, now, call, outputAt, clears,
                  issued>>
      /\ Exists(j) /\ jobs[j].status = "leased"
  BY DEF Heartbeat, ValidLease, maintenance, process, history
<1>3. journaled' \in BOOLEAN
  BY <1>1, <1>2 DEF TypeOK
<1>4. PICK r : /\ r = [jobs[j] EXCEPT !.expires = now + s]
               /\ jobs' = [jobs EXCEPT ![j] = r]
  BY DEF Heartbeat
<1>5. /\ r \in Job /\ r.status = "leased" /\ r.token = jobs[j].token /\ r.token # 0
      /\ r.input = jobs[j].input /\ Leased(j)
  BY <1>1, <1>2, <1>4, JobIs DEF Job, Leased
<1> QED
  BY <1>1, <1>2, <1>3, <1>4, <1>5, JobChange

LEMMA FailInv ==
  ASSUME MemoryInv, NEW j \in JobId, NEW t \in Tokens, Fail(j, t)
  PROVE  MemoryInv'
<1>1. TypeOK
  BY DEF MemoryInv
<1>2. UNCHANGED <<native, usage, receipts, generation, journaled, up, now, call, outputAt, clears,
                  issued>>
      /\ Exists(j)
  BY DEF Fail, ValidLease, maintenance, process, history
<1>3. journaled' \in BOOLEAN
  BY <1>1, <1>2 DEF TypeOK
<1>4. PICK r : /\ r = [jobs[j] EXCEPT !.status = "failed", !.token = 0, !.expires = 0]
               /\ jobs' = [jobs EXCEPT ![j] = r]
  BY DEF Fail
<1>5. r \in Job /\ r.status = "failed" /\ r.token = 0
  BY <1>1, <1>2, <1>4, JobIs DEF Job
<1> QED
  BY <1>1, <1>2, <1>3, <1>4, <1>5, JobChange

(* The outputs that a consolidation selects, as they are. *)
LEMMA SelectionIs ==
  ASSUME TypeOK, NEW limit
  PROVE  Selection(limit) \in Selected
<1>1. \A j \in Candidates : j \in Rollout
  BY DEF Candidates
<1>2. \A S, rank : Leading(S, limit, rank) \subseteq S
  BY DEF Leading
<1>3. \A j \in Rollout : native[Raw(j)].rev \in Nat /\ native[Summary(j)].rev \in Nat
  BY KeysDiffer DEF TypeOK, Resource
<1> DEFINE rank == [j \in Candidates |->
                        <<usage[j].count, LastRelevant(j), jobs[j].input, j>>]
           first == Leading(Candidates, limit, rank)
<1>4. Selection(limit) = {[job |-> j, raw |-> native[Raw(j)].rev,
                           summary |-> native[Summary(j)].rev] : j \in first}
  BY DEF Selection
<1>5. first \subseteq Rollout
  BY <1>1, <1>2
<1> HIDE DEF first
<1> QED
  BY <1>3, <1>4, <1>5 DEF Selected

(* The job that memory.phase2.begin leases. *)
LEMMA BegunJob ==
  ASSUME TypeOK, NEW s \in LeaseSeconds, NEW limit \in Limit, Begin(s, limit)
  PROVE  /\ \E r \in Job : /\ jobs' = [jobs EXCEPT ![Global] = r]
                          /\ r.status = "leased" /\ r.token = NextToken
                          /\ r.tx = NextToken /\ r.gen = generation
         /\ \E l \in Lease : /\ issued' = Append(issued, l)
                            /\ l.job = Global /\ l.gen = generation
         /\ Len(issued) < MaxTokens /\ NextToken # 0
<1>1. s \in Nat /\ Global \in JobId
  BY JobsAssumption, JobIds
<1>2. Exists(Global) /\ Len(issued) < MaxTokens
  BY DEF Begin, Available
<1>3. Stored(Selection(limit)) \in {NoSelection} \cup Selected
  BY SelectionIs DEF Stored
<1>4. PICK x \in Job, t \in Nat \ {0}, e \in Nat, g \in Nat,
           w \in {NoSelection} \cup Selected :
          /\ x = jobs[Global] /\ t = NextToken /\ e = now + s /\ g = generation
          /\ w = Stored(Selection(limit))
  <2>1. /\ jobs[Global] \in Job /\ generation \in Nat /\ NextToken \in Nat \ {0}
        /\ now + s \in Nat
    BY <1>1, <1>2, JobIs
  <2> QED
    BY <1>3, <2>1
<1>5. PICK r : /\ r = [x EXCEPT !.status = "leased", !.token = t, !.expires = e, !.tx = t,
                                !.gen = g, !.limit = limit, !.selected = w]
               /\ jobs' = [jobs EXCEPT ![Global] = r]
  BY <1>4 DEF Begin
<1>6. PICK y : y = [status |-> x.status, input |-> x.input, token |-> x.token,
                    expires |-> x.expires, tx |-> x.tx, gen |-> x.gen,
                    selected |-> x.selected, limit |-> x.limit]
  OBVIOUS
<1>7. r = [y EXCEPT !.status = "leased", !.token = t, !.expires = e, !.tx = t,
                    !.gen = g, !.limit = limit, !.selected = w]
  BY <1>5, <1>6, JobFields
<1>8. r = [status |-> "leased", input |-> x.input, token |-> t, expires |-> e,
           tx |-> t, gen |-> g, selected |-> w, limit |-> limit]
  BY <1>6, <1>7
<1>9. r \in Job /\ r.status = "leased" /\ r.token = t /\ r.tx = t /\ r.gen = g
  <2>1. limit \in Limit \cup {0}
    OBVIOUS
  <2> QED
    BY <1>8, <2>1 DEF Job
<1>10. PICK l : /\ l = [job |-> Global, input |-> 0, gen |-> generation, begin |-> TRUE]
                /\ issued' = Append(issued, l)
  BY DEF Begin
<1>11. l \in Lease /\ l.job = Global /\ l.gen = generation
  BY <1>1, <1>4, <1>10 DEF Lease
<1> QED
  BY <1>2, <1>4, <1>5, <1>9, <1>10, <1>11

LEMMA BeginInv ==
  ASSUME MemoryInv, NEW s \in LeaseSeconds, NEW limit \in Limit, Begin(s, limit)
  PROVE  MemoryInv'
<1>1. TypeOK /\ Global \in JobId /\ Global \notin Rollout
  BY JobIds DEF MemoryInv
<1>2. UNCHANGED <<native, usage, receipts, generation, up, now, call, outputAt, clears>>
  BY DEF Begin, maintenance, history
<1>3. journaled' \in BOOLEAN
  BY DEF Begin
<1>4. PICK r \in Job : /\ jobs' = [jobs EXCEPT ![Global] = r]
                       /\ r.status = "leased" /\ r.token = NextToken
  BY <1>1, BegunJob
<1>5. /\ \E l \in Lease : issued' = Append(issued, l) /\ l.job = Global
      /\ Len(issued) < MaxTokens /\ NextToken # 0
  BY <1>1, BegunJob
<1> QED
  BY <1>1, <1>2, <1>3, <1>4, <1>5, JobChange

-----------------------------------------------------------------------------
(* A request reads or returns, and the store is as it was. *)
LEMMA CallChange ==
  ASSUME MemoryInv, NEW c \in Caller, NEW q, call' = [call EXCEPT ![c] = q],
         q = Idle \/ (q \in Call /\ CallFits(q)),
         UNCHANGED <<jobs, native, usage, receipts, generation, journaled, up, now, issued,
                     outputAt, clears>>
  PROVE  MemoryInv'
<1>1. /\ TypeOK /\ PairsMoveTogether /\ JobsInv /\ OutputsInv /\ CallsInv /\ UsageInv
  BY DEF MemoryInv
<1>2. TypeOK'
  <2>1. call' \in [Caller -> Call \cup {Idle}]
    BY <1>1 DEF TypeOK
  <2> QED
    BY <1>1, <2>1 DEF TypeOK, Exists
<1>3. PairsMoveTogether' /\ UsageInv'
  BY <1>1 DEF PairsMoveTogether, UsageInv, Accepted
<1>4. JobsInv'
  BY <1>1 DEF JobsInv, JobFits, Leased, Exists
<1>5. OutputsInv'
  BY <1>1 DEF OutputsInv, OutputMatchesInput, Succeeded, Exists, Live
<1>6. ASSUME NEW s \in Call, CallFits(s) PROVE CallFits(s)'
  BY <1>1, <1>6, CallFitsKept DEF TypeOK, Leased, Exists, Live
<1>7. \A d \in Caller : call'[d] # Idle => call'[d] \in Call /\ CallFits(call'[d])
  BY <1>1 DEF TypeOK, CallsInv
<1>8. CallsInv'
  <2> SUFFICES ASSUME NEW d \in Caller, call'[d] # Idle PROVE CallFits(call[d])'
    BY DEF CallsInv
  <2> QED
    BY <1>6, <1>7
<1> QED
  BY <1>2, <1>3, <1>4, <1>5, <1>8 DEF MemoryInv

LEMMA RejectedInv ==
  ASSUME MemoryInv, NEW c \in Caller, Rejected(c)
  PROVE  MemoryInv'
BY CallChange DEF Rejected, Returns, maintenance, process, history

LEMMA StartsInv ==
  ASSUME MemoryInv, NEW c \in Caller, NEW q \in Call, Starts(c, q), CallFits(q)
  PROVE  MemoryInv'
BY CallChange DEF Starts, maintenance, process, history

(* The changes that replace the revisions that a request has read. *)
LEMMA ReplaceIs ==
  ASSUME TypeOK, NEW keys \in SUBSET Key, NEW deleted \in BOOLEAN
  PROVE  /\ Replace(keys, deleted) \in Changes
         /\ KeysOf(Replace(keys, deleted)) = keys
         /\ \A x \in Replace(keys, deleted) : x.deleted = deleted
<1>1. \A k \in keys : k \in Key /\ native[k].rev \in Nat
  BY DEF TypeOK, Resource
<1>2. Replace(keys, deleted) \in Changes
  BY <1>1 DEF Replace, Changes
<1>3. \A x \in Replace(keys, deleted) : x.key \in keys /\ x.deleted = deleted
  BY DEF Replace
<1>4. ASSUME NEW k \in keys
      PROVE  \E x \in Replace(keys, deleted) : x.key = k
  <2>1. PICK x : x = [key |-> k, exp |-> native[k].rev, deleted |-> deleted]
    OBVIOUS
  <2>2. x \in Replace(keys, deleted) /\ x.key = k
    BY <2>1 DEF Replace
  <2> QED
    BY <2>2
<1> QED
  BY <1>2, <1>3, <1>4 DEF KeysOf

LEMMA ReadOutputsInv ==
  ASSUME MemoryInv, NEW c \in Caller, NEW j \in Rollout, NEW t \in Tokens, NEW b \in BOOLEAN,
         ReadOutputs(c, j, t, b)
  PROVE  MemoryInv'
<1>1. PICK keys \in SUBSET Key :
         keys = IF b /\ ~Live(native[Raw(j)]) THEN {} ELSE {Raw(j), Summary(j)}
  <2> DEFINE pair == IF b /\ ~Live(native[Raw(j)]) THEN {} ELSE {Raw(j), Summary(j)}
  <2>1. Raw(j) \in Key /\ Summary(j) \in Key
    BY KeysDiffer
  <2>2. pair = {} \/ pair = {Raw(j), Summary(j)}
    OBVIOUS
  <2> HIDE DEF pair
  <2>3. pair \in SUBSET Key
    BY <2>1, <2>2
  <2>4. \E keys \in SUBSET Key : keys = pair
    BY <2>3
  <2> QED
    BY <2>4 DEF pair
<1>2. PICK changes : changes = Replace(keys, b)
  OBVIOUS
<1>3. /\ changes \in Changes /\ KeysOf(changes) = keys
      /\ \A x \in changes : x.deleted = b
  BY <1>2, ReplaceIs DEF MemoryInv
<1>4. Whole(changes, b)
  BY <1>1, <1>3, KeysDiffer DEF Whole, Artifacts
<1>5. changes = {} => ~Live(native[Raw(j)])
  BY <1>1, <1>3 DEF KeysOf
<1>6. changes = {} \/ keys = {Raw(j), Summary(j)}
  BY <1>1, <1>2 DEF Replace
<1> DEFINE q == [op |-> "stage1.commit", job |-> j, token |-> t, changes |-> changes]
<1>7. q \in Call /\ t \in Nat
  BY <1>3 DEF Call, Tokens
<1>8. Starts(c, q)
  BY <1>1, <1>2 DEF ReadOutputs
<1>9. OutputsRead(q)
  BY <1>3, <1>4, <1>5, <1>6 DEF OutputsRead
<1>10. CallFits(q)
  BY <1>9 DEF CallFits
<1> HIDE DEF q
<1> QED
  BY <1>7, <1>8, <1>10, StartsInv

LEMMA ReadMemoryRevisionInv ==
  ASSUME MemoryInv, NEW c \in Caller, NEW t \in Tokens, NEW tx \in Tokens,
         ReadMemoryRevision(c, t, tx)
  PROVE  MemoryInv'
<1> DEFINE q == [op |-> "phase2.read", token |-> t, tx |-> tx, memory |-> native[Memory].rev]
<1>1. native[Memory].rev \in Nat
  BY KeysDiffer DEF MemoryInv, TypeOK, Resource
<1>2. q \in Call
  BY <1>1 DEF Call, Tokens
<1>3. CallFits(q)
  BY DEF CallFits
<1>4. Starts(c, q)
  BY DEF ReadMemoryRevision
<1> HIDE DEF q
<1> QED
  BY <1>2, <1>3, <1>4, StartsInv

LEMMA ReadSummaryRevisionInv ==
  ASSUME MemoryInv, NEW c \in Caller, ReadSummaryRevision(c)
  PROVE  MemoryInv'
<1>1. PICK p \in Call : p = call[c] /\ p.op = "phase2.read" /\ CallFits(p)
  BY DEF ReadSummaryRevision, Pending, MemoryInv, TypeOK, CallsInv
<1>2. p.tx \in Tokens /\ p.token \in Nat /\ p.memory \in Nat /\ p.tx \in Nat
  BY <1>1 DEF CallFits, Call, Tokens
<1> DEFINE m == [key |-> Memory, exp |-> p.memory, deleted |-> FALSE]
           s == [key |-> MemorySummary, exp |-> native[MemorySummary].rev, deleted |-> FALSE]
           q == [op |-> "phase2.commit", token |-> p.token, tx |-> p.tx, changes |-> {m, s}]
<1>3. native[MemorySummary].rev \in Nat
  BY KeysDiffer DEF MemoryInv, TypeOK, Resource
<1>4. {m, s} \in Changes
  BY <1>2, <1>3, KeysDiffer DEF Changes
<1>5. KeysOf({m, s}) = Artifacts
  BY DEF KeysOf, Artifacts
<1>6. Whole({m, s}, FALSE)
  BY <1>5, KeysDiffer DEF Whole, Artifacts
<1>7. q \in Call
  BY <1>2, <1>4 DEF Call
<1>8. CallFits(q)
  BY <1>2, <1>5, <1>6 DEF CallFits, ArtifactsRead
<1>9. call' = [call EXCEPT ![c] = q]
  BY <1>1 DEF ReadSummaryRevision
<1> HIDE DEF q
<1> QED
  BY <1>7, <1>8, <1>9, CallChange DEF ReadSummaryRevision, maintenance, process, history

LEMMA ReadUsageInv ==
  ASSUME MemoryInv, NEW c \in Caller, NEW u \in UsageId, ReadUsage(c, u)
  PROVE  MemoryInv'
<1>1. Used[u] \subseteq Rollout /\ now \in Nat
  BY JobsAssumption DEF MemoryInv, TypeOK
<1>2. \A j \in Rollout : usage[j].rev \in Nat /\ usage[j].count \in Nat
  BY DEF MemoryInv, TypeOK, Usage
<1> DEFINE read == {[job |-> j, rev |-> usage[j].rev, count |-> usage[j].count] : j \in Used[u]}
           q == [op |-> "usage.record", id |-> u, at |-> now, read |-> read]
<1>3. read \in SUBSET [job: Rollout, rev: Nat, count: Nat]
  BY <1>1, <1>2
<1>4. /\ {x.job : x \in read} = Used[u]
      /\ \A x, y \in read : x.job = y.job => x = y
      /\ \A x \in read : x.rev = usage[x.job].rev /\ x.count = usage[x.job].count
                         /\ x.rev \in Nat
  <2>1. \A x \in read : /\ x.job \in Used[u] /\ x.rev \in Nat
                        /\ x = [job |-> x.job, rev |-> usage[x.job].rev, count |-> usage[x.job].count]
    BY <1>1, <1>2
  <2>2. ASSUME NEW j \in Used[u] PROVE \E x \in read : x.job = j
    <3>1. PICK x : x = [job |-> j, rev |-> usage[j].rev, count |-> usage[j].count]
      OBVIOUS
    <3>2. x \in read /\ x.job = j
      BY <3>1
    <3> QED
      BY <3>2
  <2> HIDE DEF read
  <2>3. {x.job : x \in read} = Used[u]
    BY <2>1, <2>2
  <2>4. \A x \in read : x.rev = usage[x.job].rev /\ x.count = usage[x.job].count
    BY <2>1
  <2> QED
    BY <2>1, <2>3, <2>4
<1> HIDE DEF read
<1>5. q \in Call
  BY <1>1, <1>3 DEF Call
<1>6. UsageRead(q)
  BY <1>4 DEF UsageRead
<1>7. CallFits(q)
  BY <1>6 DEF CallFits
<1>8. Starts(c, q)
  BY DEF ReadUsage, read
<1> HIDE DEF q
<1> QED
  BY <1>5, <1>7, <1>8, StartsInv

LEMMA ChooseStaleInv ==
  ASSUME MemoryInv, NEW c \in Caller, NEW p \in Retention, ChooseStale(c, p)
  PROVE  MemoryInv'
<1>1. \A S, rank : Leading(S, p.limit, rank) \subseteq S
  BY DEF Leading
<1>2. PICK prune \in SUBSET Rollout : Starts(c, [op |-> "retain", prune |-> prune])
  BY <1>1 DEF ChooseStale, Candidates
<1> DEFINE q == [op |-> "retain", prune |-> prune]
<1>3. q \in Call /\ CallFits(q)
  BY DEF Call, CallFits
<1> HIDE DEF q
<1> QED
  BY <1>2, <1>3, StartsInv DEF q

(* A deletion deletes what is live, so both of a pair or neither. *)
LEMMA DeletionIs ==
  ASSUME MemoryInv, NEW keys \in SUBSET Key, NEW clear \in BOOLEAN,
         \A j \in Rollout : Raw(j) \in keys <=> Summary(j) \in keys,
         Memory \in keys <=> MemorySummary \in keys,
         ~clear => keys \subseteq Outputs
  PROVE  Deletion(keys, clear) \in Call /\ CallFits(Deletion(keys, clear))
<1>1. PICK live \in SUBSET Key : live = {k \in keys : Live(native[k])}
  OBVIOUS
<1>2. /\ \A j \in Rollout : Raw(j) \in live <=> Summary(j) \in live
      /\ Memory \in live <=> MemorySummary \in live
      /\ ~clear => live \subseteq Outputs
  BY <1>1 DEF MemoryInv, PairsMoveTogether
<1>3. PICK changes : changes = Replace(live, TRUE)
  OBVIOUS
<1>4. /\ changes \in Changes /\ KeysOf(changes) = live
      /\ \A x \in changes : x.deleted = TRUE
  BY <1>3, ReplaceIs DEF MemoryInv
<1>5. Whole(changes, TRUE)
  BY <1>2, <1>4 DEF Whole
<1> DEFINE q == [op |-> "delete", clear |-> clear, changes |-> changes]
<1>6. q \in Call
  BY <1>4 DEF Call
<1>7. DeletionRead(q)
  BY <1>2, <1>4, <1>5 DEF DeletionRead
<1>8. CallFits(q)
  BY <1>7 DEF CallFits
<1>9. Deletion(keys, clear) = q
  BY <1>1, <1>3 DEF Deletion
<1> HIDE DEF q
<1> QED
  BY <1>6, <1>8, <1>9

LEMMA ReadStaleInv ==
  ASSUME MemoryInv, NEW c \in Caller, ReadStale(c)
  PROVE  MemoryInv'
<1>1. PICK prune \in SUBSET Rollout : prune = call[c].prune
  BY DEF ReadStale, Pending, MemoryInv, TypeOK, Call
<1>2. PICK keys \in SUBSET Key : keys = OutputsOf(prune) /\ keys \subseteq Outputs
  <2>1. OutputsOf(prune) \subseteq Outputs
    BY DEF OutputsOf, Outputs
  <2>2. Outputs \subseteq Key
    BY DEF Key
  <2> QED
    BY <2>1, <2>2
<1>3. \A j \in Rollout : Raw(j) \in keys <=> Summary(j) \in keys
  BY <1>2, KeysDiffer DEF OutputsOf
<1>4. Memory \notin keys /\ MemorySummary \notin keys
  BY <1>2, KeysDiffer DEF Artifacts
<1>5. PICK q : q = Deletion(keys, FALSE) /\ q \in Call /\ CallFits(q)
  BY <1>2, <1>3, <1>4, DeletionIs
<1>6. call' = [call EXCEPT ![c] = q] \/ call' = [call EXCEPT ![c] = Idle]
  BY <1>1, <1>2, <1>5 DEF ReadStale
<1>7. UNCHANGED <<jobs, native, usage, receipts, generation, journaled, up, now, issued,
                  outputAt, clears>>
  BY DEF ReadStale, maintenance, process, history
<1> QED
  BY <1>5, <1>6, <1>7, CallChange

LEMMA ReadAllInv ==
  ASSUME MemoryInv, NEW c \in Caller, ReadAll(c)
  PROVE  MemoryInv'
<1>1. Deletion(Key, TRUE) \in Call /\ CallFits(Deletion(Key, TRUE))
  BY KeysDiffer, DeletionIs
<1> QED
  BY <1>1, StartsInv DEF ReadAll

-----------------------------------------------------------------------------
(* A commit changes resources and releases leases, and grants none. *)
LEMMA StoreChange ==
  ASSUME MemoryInv, UNCHANGED <<usage, receipts, journaled, up, now, issued>>,
         native' \in [Key -> Resource], PairsMoveTogether', OutputsInv',
         generation' \in Nat, outputAt' \in 0..generation',
         clears' \in Seq(Nat), Len(clears') <= MaxClears,
         jobs' \in [JobId -> Job \cup {NoJob}],
         \A j \in JobId : Exists(j)' =>
            /\ jobs'[j].status = "leased" <=> jobs'[j].token # 0
            /\ jobs'[j].token <= Len(issued),
         \A j \in JobId : Leased(j)' =>
            /\ Leased(j) /\ jobs'[j].token = jobs[j].token /\ clears' = clears
            /\ j \in Rollout => /\ jobs'[j].input = jobs[j].input
                                /\ native'[Raw(j)].content < jobs[j].token
                                /\ Live(native'[Raw(j)]) => Live(native[Raw(j)]),
         \A c \in Caller : call'[c] \in {call[c], Idle}, call' \in [Caller -> Call \cup {Idle}]
  PROVE  MemoryInv'
<1>1. /\ TypeOK /\ PairsMoveTogether /\ JobsInv /\ OutputsInv /\ CallsInv /\ UsageInv
  BY DEF MemoryInv
<1>2. TypeOK'
  BY <1>1 DEF TypeOK
<1>3. JobsInv'
  <2> SUFFICES ASSUME NEW j \in JobId, Exists(j)' PROVE JobFits(j)'
    BY DEF JobsInv
  <2>1. Leased(j) => JobFits(j)
    BY <1>1 DEF JobsInv, Leased
  <2>2. Leased(j)' => /\ issued'[jobs'[j].token].job = j
                      /\ \A i \in DOMAIN clears' : clears'[i] < jobs'[j].token
                      /\ j \in Rollout => /\ issued'[jobs'[j].token].input = jobs'[j].input
                                          /\ native'[Raw(j)].content < jobs'[j].token
    BY <2>1 DEF JobFits
  <2> QED
    BY <2>2 DEF JobFits
<1>4. CallsInv'
  <2>1. Len(issued') \in Nat /\ Len(issued) <= Len(issued')
    BY <1>1 DEF TypeOK
  <2>2. \A j \in Rollout : j \in JobId
    BY JobIds
  <2> QED
    BY <2>1, <2>2, CallsKept
<1>5. UsageInv'
  BY <1>1 DEF UsageInv, Accepted
<1> QED
  BY <1>2, <1>3, <1>4, <1>5 DEF MemoryInv

LEMMA CreateNoteInv ==
  ASSUME MemoryInv, NEW n \in Note, CreateNote(n)
  PROVE  MemoryInv'
<1>1. /\ TypeOK /\ PairsMoveTogether /\ JobsInv /\ OutputsInv /\ CallsInv /\ UsageInv
  BY DEF MemoryInv
<1>2. UNCHANGED <<jobs, usage, receipts, journaled, up, now, issued, call, outputAt, clears>>
      /\ generation' = generation + 1
  BY DEF CreateNote, maintenance, process, history
<1>3. /\ native' \in [Key -> Resource]
      /\ \A k \in Key : k # NoteKey(n) => native'[k] = native[k]
  <2>1. [rev |-> 1, deleted |-> FALSE, content |-> 0] \in Resource
    BY DEF Resource
  <2> QED
    BY <1>1, <2>1 DEF CreateNote, TypeOK
<1>4. /\ \A j \in Rollout : native'[Raw(j)] = native[Raw(j)] /\ native'[Summary(j)] = native[Summary(j)]
      /\ native'[Memory] = native[Memory] /\ native'[MemorySummary] = native[MemorySummary]
  BY <1>3, KeysDiffer DEF Artifacts
<1>5. PairsMoveTogether'
  BY <1>1, <1>4 DEF PairsMoveTogether
<1>6. OutputsInv'
  BY <1>1, <1>2, <1>4 DEF OutputsInv, OutputMatchesInput, Succeeded, Exists, Live
<1>7. /\ generation' \in Nat /\ outputAt' \in 0..generation'
      /\ clears' \in Seq(Nat) /\ Len(clears') <= MaxClears
      /\ jobs' \in [JobId -> Job \cup {NoJob}] /\ call' \in [Caller -> Call \cup {Idle}]
  BY <1>1, <1>2 DEF TypeOK
<1>8. \A j \in JobId : Exists(j)' =>
            /\ jobs'[j].status = "leased" <=> jobs'[j].token # 0
            /\ jobs'[j].token <= Len(issued)
  BY <1>1, <1>2 DEF TypeOK, JobsInv, JobFits, Exists
<1>9. \A j \in JobId : Leased(j)' =>
            /\ Leased(j) /\ jobs'[j].token = jobs[j].token /\ clears' = clears
            /\ j \in Rollout => /\ jobs'[j].input = jobs[j].input
                                /\ native'[Raw(j)].content < jobs[j].token
                                /\ Live(native'[Raw(j)]) => Live(native[Raw(j)])
  BY <1>1, <1>2, <1>4 DEF JobsInv, JobFits, Leased, Exists
<1> QED
  BY <1>2, <1>3, <1>5, <1>6, <1>7, <1>8, <1>9, StoreChange

(* The commit of a stage-1 job, when it is accepted. *)
Stage1Commits(c) ==
    /\ Pending(c, "stage1.commit")
    /\ ValidLease(call[c].job, call[c].token) /\ Fits(call[c].changes)
    /\ native' = Written(call[c].changes, call[c].token)
    /\ generation' = GenerationAfter(call[c].changes)
    /\ jobs' = [j \in JobId |->
           IF j = call[c].job
           THEN [jobs[j] EXCEPT !.status = "succeeded", !.token = 0, !.expires = 0]
           ELSE IF j = Global /\ call[c].changes # {} THEN Woken
           ELSE jobs[j]]
    /\ outputAt' = IF call[c].changes = {} THEN outputAt ELSE generation + 1
    /\ Returns(c)
    /\ UNCHANGED <<maintenance, process, issued, clears>>

(* A stage-1 commit takes effect or is rejected. *)
LEMMA CommitStage1Cases ==
  ASSUME NEW c \in Caller, CommitStage1(c)
  PROVE  Stage1Commits(c) \/ Rejected(c)
BY DEF CommitStage1, Stage1Commits

(* What it changes: the output of its own rollout, under its own lease.    *)
LEMMA Stage1CommitIs ==
  ASSUME MemoryInv, NEW c \in Caller, Stage1Commits(c), NEW q, q = call[c]
  PROVE  /\ q.job \in Rollout /\ q.token \in Tokens /\ q.token \in Nat
         /\ Leased(q.job) /\ jobs[q.job].token = q.token
         /\ issued[q.token].input = jobs[q.job].input
         /\ \A i \in DOMAIN clears : clears[i] < q.token
         /\ native[Raw(q.job)].content < q.token
         /\ native' \in [Key -> Resource] /\ PairsMoveTogether'
         /\ \A k \in Key : k \notin {Raw(q.job), Summary(q.job)} => native'[k] = native[k]
         /\ q.changes = {} => UNCHANGED native /\ ~Live(native[Raw(q.job)])
         /\ native'[Raw(q.job)].content # 0 => native'[Raw(q.job)].content \in
                                                  {q.token, native[Raw(q.job)].content}
         /\ Live(native'[Raw(q.job)]) => native'[Raw(q.job)].content = q.token
<1>1. /\ TypeOK /\ PairsMoveTogether /\ JobsInv /\ CallsInv
  BY DEF MemoryInv
<1>2. /\ q \in Call /\ q.op = "stage1.commit" /\ CallFits(q)
      /\ ValidLease(q.job, q.token) /\ Fits(q.changes)
      /\ native' = Written(q.changes, q.token)
  BY <1>1 DEF Stage1Commits, Pending, TypeOK, CallsInv
<1>3. q.job \in Rollout /\ q.job \in JobId /\ q.changes \in Changes
  BY <1>2, JobIds DEF Call
<1>4. OutputsRead(q)
  BY <1>2 DEF CallFits
<1>5. q.token \in Tokens /\ q.token \in Nat /\ Leased(q.job) /\ jobs[q.job].token = q.token
  BY <1>2, <1>4 DEF OutputsRead, ValidLease, Leased, Tokens
<1>6. /\ issued[q.token].input = jobs[q.job].input
      /\ \A i \in DOMAIN clears : clears[i] < q.token
      /\ native[Raw(q.job)].content < q.token
  BY <1>1, <1>3, <1>5 DEF JobsInv, JobFits, Leased
<1>7. PICK d \in BOOLEAN : Whole(q.changes, d)
  BY <1>4 DEF OutputsRead
<1>8. /\ native' \in [Key -> Resource]
      /\ \A k \in KeysOf(q.changes) :
            native'[k] = [rev |-> native[k].rev + 1, deleted |-> d,
                          content |-> IF d THEN 0 ELSE q.token]
      /\ \A k \in Key \ KeysOf(q.changes) : native'[k] = native[k]
  BY <1>1, <1>2, <1>3, <1>5, <1>7, WrittenIs
<1>9. PairsMoveTogether'
  BY <1>1, <1>2, <1>3, <1>5, <1>7, WrittenPairs
<1>10. CASE q.changes = {}
  <2>1. KeysOf(q.changes) = {}
    BY <1>10 DEF KeysOf
  <2>2. UNCHANGED native
    BY <1>1, <1>8, <2>1 DEF TypeOK
  <2>3. ~Live(native[Raw(q.job)])
    BY <1>4, <1>5, <1>10 DEF OutputsRead
  <2> QED
    BY <1>3, <1>5, <1>6, <1>8, <1>9, <2>2, <2>3
<1>11. CASE q.changes # {}
  <2>1. KeysOf(q.changes) = {Raw(q.job), Summary(q.job)}
    BY <1>4, <1>11 DEF OutputsRead
  <2>2. native'[Raw(q.job)] = [rev |-> native[Raw(q.job)].rev + 1, deleted |-> d,
                               content |-> IF d THEN 0 ELSE q.token]
    BY <1>8, <2>1
  <2>3. /\ native'[Raw(q.job)].content # 0 => native'[Raw(q.job)].content = q.token
        /\ Live(native'[Raw(q.job)]) => native'[Raw(q.job)].content = q.token
    BY <2>2 DEF Live
  <2> QED
    BY <1>3, <1>5, <1>6, <1>8, <1>9, <1>11, <2>1, <2>3
<1> QED
  BY <1>10, <1>11

(* The phase-2 job, once woken, is not done, and keeps its lease. *)
LEMMA WokenIs ==
  ASSUME MemoryInv
  PROVE  /\ Woken \in Job /\ Woken.status # "succeeded"
         /\ Woken.status = "leased" <=> Woken.token # 0
         /\ Woken.token <= Len(issued)
         /\ Woken.status = "leased" => Leased(Global) /\ Woken = jobs[Global]
         /\ ~Exists(Global) => Woken.tx = 0
         /\ Exists(Global) => Woken.tx = jobs[Global].tx /\ Woken.gen = jobs[Global].gen
<1>1. TypeOK /\ JobsInv /\ Global \in JobId /\ Len(issued) \in Nat
  BY JobIds DEF MemoryInv, TypeOK
<1>2. CASE ~Exists(Global)
  <2>1. Woken = NewJob(0)
    BY <1>2 DEF Woken
  <2>2. NewJob(0) \in Job /\ NewJob(0).status = "queued" /\ NewJob(0).token = 0 /\ NewJob(0).tx = 0
    BY DEF NewJob, Job
  <2> QED
    BY <1>1, <1>2, <2>1, <2>2
<1>3. CASE Exists(Global)
  <2>1. PICK x \in Job : /\ x = jobs[Global] /\ (x.status = "leased" <=> x.token # 0)
                         /\ x.token <= Len(issued)
    BY <1>1, <1>3, JobIs DEF JobsInv, JobFits
  <2>2. CASE x.status \in {"succeeded", "failed"}
    <3>1. Woken = [x EXCEPT !.status = "queued"]
      BY <1>3, <2>1, <2>2 DEF Woken
    <3>2. /\ Woken \in Job /\ Woken.status = "queued" /\ Woken.token = x.token
          /\ Woken.tx = x.tx /\ Woken.gen = x.gen
      BY <3>1 DEF Job
    <3> QED
      BY <1>1, <1>3, <2>1, <2>2, <3>2
  <2>3. CASE x.status \notin {"succeeded", "failed"}
    <3>1. Woken = x
      BY <1>3, <2>1, <2>3 DEF Woken
    <3> QED
      BY <1>3, <2>1, <2>3, <3>1 DEF Leased
  <2> QED
    BY <2>2, <2>3
<1> QED
  BY <1>2, <1>3

LEMMA CommitStage1Inv ==
  ASSUME MemoryInv, NEW c \in Caller, CommitStage1(c)
  PROVE  MemoryInv'
<1>1. CASE Rejected(c)
  BY <1>1, RejectedInv
<1>2. CASE Stage1Commits(c)
  <2>0. PICK q, j : q = call[c] /\ j = q.job
    OBVIOUS
  <2>1. /\ TypeOK /\ JobsInv /\ OutputsInv
    BY DEF MemoryInv
  <2>2. /\ j \in Rollout /\ q.token \in Tokens /\ q.token \in Nat
        /\ Leased(j) /\ jobs[j].token = q.token
        /\ issued[q.token].input = jobs[j].input
        /\ \A i \in DOMAIN clears : clears[i] < q.token
        /\ native[Raw(j)].content < q.token
        /\ native' \in [Key -> Resource] /\ PairsMoveTogether'
        /\ \A k \in Key : k \notin {Raw(j), Summary(j)} => native'[k] = native[k]
        /\ q.changes = {} => UNCHANGED native /\ ~Live(native[Raw(j)])
        /\ native'[Raw(j)].content # 0 => native'[Raw(j)].content \in
                                             {q.token, native[Raw(j)].content}
        /\ Live(native'[Raw(j)]) => native'[Raw(j)].content = q.token
    BY <1>2, <2>0, Stage1CommitIs
  <2>3. UNCHANGED <<usage, receipts, journaled, up, now, issued, clears>>
    BY <1>2 DEF Stage1Commits, maintenance, process
  <2>4. /\ j \in JobId /\ j # Global /\ Global \in JobId /\ Exists(j) /\ jobs[j] \in Job
        /\ Len(issued) \in Nat
    <3>1. j \in JobId /\ j # Global /\ Global \in JobId /\ Exists(j)
      BY <2>2, JobIds DEF Leased
    <3> QED
      BY <2>1, <3>1, JobIs DEF TypeOK
  <2>5. /\ jobs' = [i \in JobId |-> jobs'[i]]
        /\ jobs'[j] = [jobs[j] EXCEPT !.status = "succeeded", !.token = 0, !.expires = 0]
        /\ jobs'[Global] \in {Woken, jobs[Global]}
        /\ \A i \in JobId : i # j /\ i # Global => jobs'[i] = jobs[i]
    <3>1. jobs' = [i \in JobId |->
                     IF i = j
                     THEN [jobs[i] EXCEPT !.status = "succeeded", !.token = 0, !.expires = 0]
                     ELSE IF i = Global /\ q.changes # {} THEN Woken
                     ELSE jobs[i]]
      BY <1>2, <2>0 DEF Stage1Commits
    <3> QED
      BY <2>4, <3>1
  <2>6. /\ jobs'[j] \in Job /\ jobs'[j].status = "succeeded" /\ jobs'[j].token = 0
        /\ jobs'[j].input = jobs[j].input
    <3>1. PICK x \in Job : x = jobs[j]
      BY <2>4
    <3>2. PICK r : r = [x EXCEPT !.status = "succeeded", !.token = 0, !.expires = 0]
      OBVIOUS
    <3>3. r \in Job /\ r.status = "succeeded" /\ r.token = 0 /\ r.input = x.input
      BY <3>2 DEF Job
    <3>4. jobs'[j] = r
      BY <2>5, <3>1, <3>2
    <3> QED
      BY <3>1, <3>3, <3>4
  <2>7. /\ \A i \in Rollout : i \in JobId /\ i # Global
        /\ \A i \in Rollout : i # j => native'[Raw(i)] = native[Raw(i)] /\ jobs'[i] = jobs[i]
    BY <2>2, <2>5, JobIds, KeysDiffer
  <2>8. jobs' \in [JobId -> Job \cup {NoJob}]
    BY <2>1, <2>5, <2>6, WokenIs DEF TypeOK
  <2>9. \A i \in JobId : Exists(i)' =>
            /\ jobs'[i].status = "leased" <=> jobs'[i].token # 0
            /\ jobs'[i].token <= Len(issued)
    <3>1. \A i \in JobId : Exists(i) =>
            /\ jobs[i].status = "leased" <=> jobs[i].token # 0
            /\ jobs[i].token <= Len(issued)
      BY <2>1 DEF TypeOK, JobsInv, JobFits
    <3>2. ASSUME NEW i \in JobId, Exists(i)'
          PROVE  /\ jobs'[i].status = "leased" <=> jobs'[i].token # 0
                 /\ jobs'[i].token <= Len(issued)
      <4>1. CASE i = j
        BY <2>4, <2>6, <4>1
      <4>2. CASE i = Global
        BY <2>4, <2>5, <3>1, <3>2, <4>2, WokenIs DEF Exists
      <4>3. CASE i # j /\ i # Global
        BY <2>5, <3>1, <3>2, <4>3 DEF Exists
      <4> QED
        BY <4>1, <4>2, <4>3
    <3> QED
      BY <3>2
  <2>10. \A i \in JobId : Leased(i)' =>
            /\ Leased(i) /\ jobs'[i].token = jobs[i].token /\ clears' = clears
            /\ i \in Rollout => /\ jobs'[i].input = jobs[i].input
                                /\ native'[Raw(i)].content < jobs[i].token
                                /\ Live(native'[Raw(i)]) => Live(native[Raw(i)])
    <3> SUFFICES ASSUME NEW i \in JobId, Leased(i)'
                 PROVE  /\ Leased(i) /\ jobs'[i].token = jobs[i].token
                        /\ i \in Rollout => /\ jobs'[i].input = jobs[i].input
                                            /\ native'[Raw(i)].content < jobs[i].token
                                            /\ Live(native'[Raw(i)]) => Live(native[Raw(i)])
      BY <2>3
    <3>1. i # j
      BY <2>6 DEF Leased
    <3>2. CASE i = Global
      <4>1. jobs'[Global] = jobs[Global] /\ Leased(Global)
        BY <2>5, <3>2, WokenIs DEF Leased, Exists
      <4> QED
        BY <3>2, <4>1, JobIds
    <3>3. CASE i # Global
      <4>1. jobs'[i] = jobs[i] /\ Leased(i) /\ i \in Rollout
        BY <2>5, <3>1, <3>3, JobIds DEF Leased, Exists
      <4>2. native[Raw(i)].content < jobs[i].token
        BY <2>1, <4>1 DEF JobsInv, JobFits, Leased
      <4> QED
        BY <2>7, <3>1, <4>1, <4>2
    <3> QED
      BY <3>2, <3>3
  <2>11. OutputsInv'
    <3>1. native'[Raw(j)].content <= Len(issued')
      <4>1. native'[Raw(j)].content = 0 \/ native'[Raw(j)].content \in {q.token, native[Raw(j)].content}
        BY <2>2
      <4> QED
        BY <2>1, <2>2, <2>3, <2>4, <4>1 DEF OutputsInv, Tokens
    <3>2. Live(native'[Raw(j)]) => /\ native'[Raw(j)].content # 0
                                   /\ issued'[native'[Raw(j)].content].input = jobs'[j].input
      BY <2>2, <2>3, <2>6 DEF Tokens
    <3>3. \A i \in Rollout : i # j =>
             /\ native'[Raw(i)].content <= Len(issued')
             /\ Live(native'[Raw(i)]) => native'[Raw(i)].content # 0
             /\ Succeeded(i)' /\ Live(native'[Raw(i)]) =>
                    issued'[native'[Raw(i)].content].input = jobs'[i].input
      BY <2>1, <2>3, <2>7 DEF OutputsInv, OutputMatchesInput, Succeeded, Exists
    <3>4. \A i \in DOMAIN clears' : clears'[i] <= Len(issued')
      BY <2>1, <2>3 DEF OutputsInv
    <3>5. OutputMatchesInput'
      BY <3>2, <3>3 DEF OutputMatchesInput, Live
    <3> QED
      BY <3>1, <3>2, <3>3, <3>4, <3>5 DEF OutputsInv, Live
  <2>12. /\ generation' \in Nat /\ outputAt' \in 0..generation'
         /\ clears' \in Seq(Nat) /\ Len(clears') <= MaxClears
    <3>1. generation \in Nat /\ outputAt \in 0..generation
      BY <2>1 DEF TypeOK
    <3>2. \/ generation' = generation /\ outputAt' = outputAt
          \/ generation' = generation + 1 /\ outputAt' = generation + 1
      BY <1>2 DEF Stage1Commits, GenerationAfter
    <3> QED
      BY <2>1, <2>3, <3>1, <3>2 DEF TypeOK
  <2>13. /\ \A d \in Caller : call'[d] \in {call[d], Idle}
         /\ call' \in [Caller -> Call \cup {Idle}]
    BY <1>2, <2>1 DEF Stage1Commits, Returns, TypeOK
  <2> QED
    BY <2>2, <2>3, <2>8, <2>9, <2>10, <2>11, <2>12, <2>13, StoreChange
<1> QED
  BY <1>1, <1>2, CommitStage1Cases

(* The commit of a consolidation, when it is accepted. *)
Phase2Commits(c) ==
    /\ Pending(c, "phase2.commit")
    /\ Fits(call[c].changes) /\ Current(call[c])
    /\ native' = Written(call[c].changes, call[c].tx)
    /\ generation' = generation + 1
    /\ jobs' = [jobs EXCEPT ![Global] =
           [@ EXCEPT !.status = "succeeded", !.token = 0, !.expires = 0,
                     !.tx = 0, !.gen = generation + 1]]
    /\ Returns(c)
    /\ UNCHANGED <<maintenance, process, issued, history>>

(* A phase-2 commit takes effect or is rejected. *)
LEMMA CommitPhase2Cases ==
  ASSUME NEW c \in Caller, CommitPhase2(c)
  PROVE  Phase2Commits(c) \/ Rejected(c)
BY DEF CommitPhase2, Phase2Commits

(* What it changes: the two artifacts and the phase-2 job.                 *)
LEMMA Phase2CommitIs ==
  ASSUME MemoryInv, NEW c \in Caller, Phase2Commits(c), NEW q, q = call[c]
  PROVE  /\ q.tx \in Tokens /\ q.tx \in Nat /\ q.tx # 0
         /\ Leased(Global) /\ jobs[Global].tx = q.tx /\ jobs[Global].gen = generation
         /\ native' \in [Key -> Resource] /\ PairsMoveTogether'
         /\ \A k \in Key \ Artifacts : native'[k] = native[k]
         /\ Live(native'[Memory]) /\ native'[Memory].content = q.tx
         /\ \A j \in JobId \ {Global} : jobs'[j] = jobs[j]
         /\ jobs'[Global] \in Job /\ jobs'[Global].status = "succeeded"
         /\ jobs'[Global].token = 0 /\ jobs'[Global].tx = 0
<1>1. /\ TypeOK /\ PairsMoveTogether /\ JobsInv /\ CallsInv /\ Global \in JobId
  BY JobIds DEF MemoryInv
<1>2. /\ q \in Call /\ q.op = "phase2.commit" /\ CallFits(q)
      /\ Fits(q.changes) /\ Current(q)
      /\ native' = Written(q.changes, q.tx)
  BY <1>1 DEF Phase2Commits, Pending, TypeOK, CallsInv
<1>3. /\ q.changes \in Changes /\ q.tx \in Nat /\ q.tx # 0 /\ q.tx \in Tokens
      /\ Whole(q.changes, FALSE) /\ KeysOf(q.changes) = Artifacts
  <2>1. q.changes \in Changes
    BY <1>2 DEF Call
  <2>2. ArtifactsRead(q)
    BY <1>2 DEF CallFits
  <2>3. Len(issued) \in Nat
    BY <1>1 DEF TypeOK
  <2>4. /\ q.tx \in Tokens /\ Whole(q.changes, FALSE) /\ KeysOf(q.changes) = Artifacts
    BY <2>2 DEF ArtifactsRead
  <2>5. q.tx \in Nat /\ q.tx # 0
    BY <2>3, <2>4 DEF Tokens
  <2> QED
    BY <2>1, <2>4, <2>5
<1>4. /\ native' \in [Key -> Resource]
      /\ \A k \in Artifacts : native'[k] = [rev |-> native[k].rev + 1, deleted |-> FALSE,
                                            content |-> q.tx]
      /\ \A k \in Key \ Artifacts : native'[k] = native[k]
  <2>1. PICK d \in BOOLEAN : d = FALSE
    OBVIOUS
  <2>2. Whole(q.changes, d)
    BY <1>3, <2>1
  <2>3. /\ native' \in [Key -> Resource]
        /\ \A k \in KeysOf(q.changes) :
              native'[k] = [rev |-> native[k].rev + 1, deleted |-> d,
                            content |-> IF d THEN 0 ELSE q.tx]
        /\ \A k \in Key \ KeysOf(q.changes) : native'[k] = native[k]
    BY <1>1, <1>2, <1>3, <2>2, WrittenIs
  <2> QED
    BY <1>3, <2>1, <2>3
<1>5. PairsMoveTogether'
  BY <1>1, <1>2, <1>3, WrittenPairs
<1>6. Live(native'[Memory]) /\ native'[Memory].content = q.tx
  <2>1. native[Memory].rev \in Nat
    BY <1>1, KeysDiffer DEF TypeOK, Resource
  <2>2. native'[Memory] = [rev |-> native[Memory].rev + 1, deleted |-> FALSE, content |-> q.tx]
    BY <1>4 DEF Artifacts
  <2> QED
    BY <2>1, <2>2 DEF Live
<1>7. Leased(Global) /\ jobs[Global].tx = q.tx /\ jobs[Global].gen = generation
  BY <1>2 DEF Current, ValidLease, Leased
<1>8. PICK x \in Job, g \in Nat : x = jobs[Global] /\ g = generation + 1
  BY <1>1, <1>7, JobIs DEF Leased
<1>9. PICK r : r = [x EXCEPT !.status = "succeeded", !.token = 0, !.expires = 0, !.tx = 0, !.gen = g]
  OBVIOUS
<1>10. r \in Job /\ r.status = "succeeded" /\ r.token = 0 /\ r.tx = 0
  <2>1. PICK y : y = [status |-> x.status, input |-> x.input, token |-> x.token,
                      expires |-> x.expires, tx |-> x.tx, gen |-> x.gen,
                      selected |-> x.selected, limit |-> x.limit]
    OBVIOUS
  <2>2. r = [y EXCEPT !.status = "succeeded", !.token = 0, !.expires = 0, !.tx = 0, !.gen = g]
    BY <1>9, <2>1, JobFields
  <2>3. r = [status |-> "succeeded", input |-> x.input, token |-> 0, expires |-> 0, tx |-> 0,
             gen |-> g, selected |-> x.selected, limit |-> x.limit]
    BY <2>1, <2>2
  <2> QED
    BY <2>3 DEF Job
<1>11. jobs' = [jobs EXCEPT ![Global] = r]
  BY <1>8, <1>9 DEF Phase2Commits
<1>12. jobs'[Global] = r /\ \A j \in JobId \ {Global} : jobs'[j] = jobs[j]
  BY <1>1, <1>11 DEF TypeOK
<1> QED
  BY <1>3, <1>4, <1>5, <1>6, <1>7, <1>10, <1>12

(* Jobs and outputs of the rollouts are as they were. *)
LEMMA OutputsKept ==
  ASSUME MemoryInv, UNCHANGED <<issued, clears>>,
         \A j \in Rollout : jobs'[j] = jobs[j] /\ native'[Raw(j)] = native[Raw(j)]
  PROVE  OutputsInv'
BY DEF MemoryInv, OutputsInv, OutputMatchesInput, Succeeded, Exists, Live

LEMMA CommitPhase2Inv ==
  ASSUME MemoryInv, NEW c \in Caller, CommitPhase2(c)
  PROVE  MemoryInv'
<1>1. CASE Rejected(c)
  BY <1>1, RejectedInv
<1>2. CASE Phase2Commits(c)
  <2>1. TypeOK /\ JobsInv /\ Global \in JobId /\ Len(issued) \in Nat
    BY JobIds DEF MemoryInv, TypeOK
  <2>2. UNCHANGED <<usage, receipts, journaled, up, now, issued, clears, outputAt>>
        /\ generation' = generation + 1
    BY <1>2 DEF Phase2Commits, maintenance, process, history
  <2>3. /\ native' \in [Key -> Resource] /\ PairsMoveTogether'
        /\ \A k \in Key \ Artifacts : native'[k] = native[k]
        /\ \A j \in JobId \ {Global} : jobs'[j] = jobs[j]
        /\ jobs'[Global] \in Job /\ jobs'[Global].status = "succeeded"
        /\ jobs'[Global].token = 0
    BY <1>2, Phase2CommitIs
  <2>4. \A j \in Rollout : /\ j \in JobId \ {Global} /\ Raw(j) \in Key \ Artifacts
                           /\ jobs'[j] = jobs[j] /\ native'[Raw(j)] = native[Raw(j)]
    BY <2>3, JobIds, KeysDiffer
  <2>5. OutputsInv'
    BY <2>2, <2>4, OutputsKept
  <2>6. jobs' \in [JobId -> Job \cup {NoJob}]
    <3>1. jobs' = [j \in JobId |-> jobs'[j]]
      BY <1>2, <2>1 DEF Phase2Commits, TypeOK
    <3> QED
      BY <2>1, <2>3, <3>1 DEF TypeOK
  <2>7. \A j \in JobId : Exists(j)' =>
            /\ jobs'[j].status = "leased" <=> jobs'[j].token # 0
            /\ jobs'[j].token <= Len(issued)
    <3>1. \A j \in JobId : Exists(j) => /\ jobs[j].status = "leased" <=> jobs[j].token # 0
                                       /\ jobs[j].token <= Len(issued)
      BY <2>1 DEF TypeOK, JobsInv, JobFits
    <3>2. \A j \in JobId \ {Global} : jobs'[j] = jobs[j]
      BY <2>3
    <3>3. jobs'[Global].status = "succeeded" /\ jobs'[Global].token = 0 /\ Len(issued) \in Nat
      BY <2>1, <2>3 DEF TypeOK
    <3> QED
      BY <3>1, <3>2, <3>3 DEF Exists
  <2>8. \A j \in JobId : Leased(j)' =>
            /\ Leased(j) /\ jobs'[j].token = jobs[j].token /\ clears' = clears
            /\ j \in Rollout => /\ jobs'[j].input = jobs[j].input
                                /\ native'[Raw(j)].content < jobs[j].token
                                /\ Live(native'[Raw(j)]) => Live(native[Raw(j)])
    BY <2>1, <2>2, <2>3, <2>4 DEF JobsInv, JobFits, Leased, Exists
  <2>9. /\ generation' \in Nat /\ outputAt' \in 0..generation'
        /\ clears' \in Seq(Nat) /\ Len(clears') <= MaxClears
    BY <2>1, <2>2 DEF TypeOK
  <2>10. /\ \A d \in Caller : call'[d] \in {call[d], Idle}
         /\ call' \in [Caller -> Call \cup {Idle}]
    BY <1>2, <2>1 DEF Phase2Commits, Returns, TypeOK
  <2> QED
    BY <2>2, <2>3, <2>5, <2>6, <2>7, <2>8, <2>9, <2>10, StoreChange
<1> QED
  BY <1>1, <1>2, CommitPhase2Cases

(* A deletion, of stale outputs or of all memory, when it is accepted. *)
Deletes(c) ==
    /\ Pending(c, "delete")
    /\ Fits(call[c].changes)
    /\ call[c].clear => Len(clears) < MaxClears
    /\ native' = Written(call[c].changes, 0)
    /\ generation' = IF call[c].clear THEN generation + 1 ELSE GenerationAfter(call[c].changes)
    /\ jobs' = JobsAfterDelete(call[c].clear)
    /\ clears' = IF call[c].clear THEN Append(clears, Len(issued)) ELSE clears
    /\ outputAt' = IF call[c].clear THEN 0 ELSE outputAt
    /\ Returns(c)
    /\ UNCHANGED <<maintenance, process, issued>>

(* A delete takes effect or is rejected. *)
LEMMA DeleteCases ==
  ASSUME NEW c \in Caller, Delete(c)
  PROVE  Deletes(c) \/ Rejected(c)
BY DEF Delete, Deletes

(* What it changes: each resource stays or is no longer there.             *)
LEMMA DeletesIs ==
  ASSUME MemoryInv, NEW c \in Caller, Deletes(c), NEW q, q = call[c]
  PROVE  /\ q.clear \in BOOLEAN
         /\ native' \in [Key -> Resource] /\ PairsMoveTogether'
         /\ \A k \in Key : native'[k] = native[k] \/
                              (~Live(native'[k]) /\ native'[k].content = 0)
         /\ ~q.clear => native'[Memory] = native[Memory]
<1>1. /\ TypeOK /\ PairsMoveTogether /\ CallsInv
  BY DEF MemoryInv
<1>2. /\ q \in Call /\ q.op = "delete" /\ CallFits(q) /\ Fits(q.changes)
      /\ native' = Written(q.changes, 0)
  BY <1>1 DEF Deletes, Pending, TypeOK, CallsInv
<1>3. /\ q.changes \in Changes /\ q.clear \in BOOLEAN /\ Whole(q.changes, TRUE)
      /\ ~q.clear => KeysOf(q.changes) \subseteq Outputs
  BY <1>2 DEF Call, CallFits, DeletionRead
<1>4. /\ native' \in [Key -> Resource]
      /\ \A k \in KeysOf(q.changes) : native'[k] = [rev |-> native[k].rev + 1, deleted |-> TRUE,
                                                   content |-> 0]
      /\ \A k \in Key \ KeysOf(q.changes) : native'[k] = native[k]
  <2>1. PICK d \in BOOLEAN, n \in Nat : d = TRUE /\ n = 0
    OBVIOUS
  <2>2. Whole(q.changes, d) /\ native' = Written(q.changes, n)
    BY <1>2, <1>3, <2>1
  <2>3. /\ native' \in [Key -> Resource]
        /\ \A k \in KeysOf(q.changes) :
              native'[k] = [rev |-> native[k].rev + 1, deleted |-> d,
                            content |-> IF d THEN 0 ELSE n]
        /\ \A k \in Key \ KeysOf(q.changes) : native'[k] = native[k]
    BY <1>1, <1>2, <1>3, <2>2, WrittenIs
  <2> QED
    BY <2>1, <2>3
<1>5. PairsMoveTogether'
  BY <1>1, <1>2, <1>3, WrittenPairs
<1>6. ~q.clear => native'[Memory] = native[Memory]
  BY <1>3, <1>4, KeysDiffer DEF Artifacts
<1>7. ASSUME NEW k \in Key
      PROVE  native'[k] = native[k] \/ (~Live(native'[k]) /\ native'[k].content = 0)
  <2>1. CASE k \in KeysOf(q.changes)
    <3>1. PICK v : v = [rev |-> native[k].rev + 1, deleted |-> TRUE, content |-> 0]
      OBVIOUS
    <3>2. ~Live(v) /\ v.content = 0
      BY <3>1 DEF Live
    <3>3. native'[k] = v
      BY <1>4, <2>1, <3>1
    <3> QED
      BY <3>2, <3>3
  <2> QED
    BY <1>4, <2>1
<1> QED
  BY <1>3, <1>4, <1>5, <1>6, <1>7

LEMMA DeleteInv ==
  ASSUME MemoryInv, NEW c \in Caller, Delete(c)
  PROVE  MemoryInv'
<1>1. CASE Rejected(c)
  BY <1>1, RejectedInv
<1>2. CASE Deletes(c)
  <2>1. TypeOK /\ JobsInv /\ OutputsInv /\ Len(issued) \in Nat
    BY DEF MemoryInv, TypeOK
  <2>2. UNCHANGED <<usage, receipts, journaled, up, now, issued>>
    BY <1>2 DEF Deletes, maintenance, process
  <2>3. PICK q : q = call[c]
    OBVIOUS
  <2>4. /\ q.clear \in BOOLEAN
        /\ native' \in [Key -> Resource] /\ PairsMoveTogether'
        /\ \A k \in Key : native'[k] = native[k] \/
                             (~Live(native'[k]) /\ native'[k].content = 0)
    BY <1>2, <2>3, DeletesIs
  <2>5. /\ q.clear => Len(clears) < MaxClears
        /\ jobs' = JobsAfterDelete(q.clear)
        /\ clears' = IF q.clear THEN Append(clears, Len(issued)) ELSE clears
        /\ outputAt' = IF q.clear THEN 0 ELSE outputAt
        /\ generation' \in {generation, generation + 1}
    BY <1>2, <2>3 DEF Deletes, GenerationAfter
  <2>6. /\ q.clear => \A j \in JobId : ~Exists(j)'
        /\ ~q.clear => UNCHANGED <<jobs, clears>>
    BY <2>5 DEF JobsAfterDelete, Exists
  <2>7. \A j \in Rollout : /\ j \in JobId /\ Raw(j) \in Key
                           /\ \/ native'[Raw(j)] = native[Raw(j)]
                              \/ ~Live(native'[Raw(j)]) /\ native'[Raw(j)].content = 0
    BY <2>4, JobIds, KeysDiffer
  <2>8. clears' \in Seq(Nat) /\ Len(clears') <= MaxClears
        /\ \A i \in DOMAIN clears' : clears'[i] <= Len(issued')
    <3>1. clears \in Seq(Nat) /\ Len(clears) <= MaxClears /\ MaxClears \in Nat
          /\ \A i \in DOMAIN clears : clears[i] <= Len(issued)
      BY <2>1, JobsAssumption DEF TypeOK, OutputsInv
    <3>2. CASE q.clear
      <4>1. clears' = Append(clears, Len(issued))
        BY <2>5, <3>2
      <4> QED
        BY <2>1, <2>2, <2>5, <3>1, <3>2, <4>1
    <3>3. CASE ~q.clear
      BY <2>2, <2>6, <3>1, <3>3
    <3> QED
      BY <3>2, <3>3
  <2>9. OutputsInv'
    <3>1. \A j \in Rollout : /\ native'[Raw(j)].content <= Len(issued')
                             /\ Live(native'[Raw(j)]) => native'[Raw(j)].content # 0
      BY <2>1, <2>2, <2>7 DEF OutputsInv
    <3>2. \A j \in Rollout : Succeeded(j)' /\ Live(native'[Raw(j)]) =>
                issued'[native'[Raw(j)].content].input = jobs'[j].input
      BY <2>1, <2>2, <2>6, <2>7 DEF OutputsInv, OutputMatchesInput, Succeeded, Exists
    <3> QED
      BY <2>8, <3>1, <3>2 DEF OutputsInv, OutputMatchesInput, Live
  <2>10. jobs' \in [JobId -> Job \cup {NoJob}]
    BY <2>1, <2>5 DEF JobsAfterDelete, TypeOK
  <2>11. \A j \in JobId : Exists(j)' =>
            /\ jobs'[j].status = "leased" <=> jobs'[j].token # 0
            /\ jobs'[j].token <= Len(issued)
    BY <2>1, <2>6 DEF TypeOK, JobsInv, JobFits, Exists
  <2>12. \A j \in JobId : Leased(j)' =>
            /\ Leased(j) /\ jobs'[j].token = jobs[j].token /\ clears' = clears
            /\ j \in Rollout => /\ jobs'[j].input = jobs[j].input
                                /\ native'[Raw(j)].content < jobs[j].token
                                /\ Live(native'[Raw(j)]) => Live(native[Raw(j)])
    <3> SUFFICES ASSUME NEW j \in JobId, Leased(j)'
                 PROVE  /\ Leased(j) /\ jobs'[j].token = jobs[j].token /\ clears' = clears
                        /\ j \in Rollout => /\ jobs'[j].input = jobs[j].input
                                            /\ native'[Raw(j)].content < jobs[j].token
                                            /\ Live(native'[Raw(j)]) => Live(native[Raw(j)])
      OBVIOUS
    <3>1. UNCHANGED <<jobs, clears>> /\ Leased(j)
      BY <2>4, <2>6 DEF Leased, Exists
    <3>2. /\ jobs[j].token \in Nat /\ jobs[j].token # 0
          /\ j \in Rollout => native[Raw(j)].content < jobs[j].token
      BY <2>1, <3>1, JobIs DEF Leased, JobsInv, JobFits
    <3> QED
      BY <2>7, <3>1, <3>2
  <2>13. generation' \in Nat /\ outputAt' \in 0..generation'
    <3>1. generation \in Nat /\ outputAt \in 0..generation
      BY <2>1 DEF TypeOK
    <3> QED
      BY <2>5, <3>1
  <2>14. /\ \A d \in Caller : call'[d] \in {call[d], Idle}
         /\ call' \in [Caller -> Call \cup {Idle}]
    BY <1>2, <2>1 DEF Deletes, Returns, TypeOK
  <2> QED
    BY <2>2, <2>4, <2>8, <2>9, <2>10, <2>11, <2>12, <2>13, <2>14, StoreChange
<1> QED
  BY <1>1, <1>2, DeleteCases

-----------------------------------------------------------------------------
(* What a usage request writes is one more than what is there. *)
LEMMA UsageIs ==
  ASSUME MemoryInv, NEW c \in Caller, CommitUsage(c), NEW q, q = call[c]
  PROVE  /\ q \in Call /\ q.id \in UsageId /\ Used[q.id] \subseteq Rollout
         /\ \/ /\ UNCHANGED usage
               /\ receipts' \in {receipts, [receipts EXCEPT ![q.id] = "revision_conflict"]}
               /\ receipts[q.id] # "none" => UNCHANGED receipts
            \/ /\ receipts[q.id] = "none" /\ receipts' = [receipts EXCEPT ![q.id] = "committed"]
               /\ usage' = [j \in Rollout |-> usage'[j]]
               /\ \A j \in Rollout \ Used[q.id] : usage'[j] = usage[j]
               /\ \A j \in Used[q.id] : usage'[j] = [rev |-> usage[j].rev + 1,
                                                    count |-> usage[j].count + 1, last |-> q.at]
<1>1. /\ q \in Call /\ q.op = "usage.record" /\ CallFits(q)
      /\ usage = [j \in Rollout |-> usage[j]]
      /\ receipts \in [UsageId -> {"none", "committed", "revision_conflict"}]
  BY DEF CommitUsage, Pending, MemoryInv, TypeOK, CallsInv
<1>2. q.id \in UsageId /\ Used[q.id] \subseteq Rollout /\ UsageRead(q)
  BY <1>1, JobsAssumption DEF Call, CallFits
<1>3. PICK accepted \in BOOLEAN : accepted = (receipts[q.id] = "none" /\ UsageFits(q.read))
  OBVIOUS
<1>4. /\ usage' = [j \in Rollout |->
              IF ~accepted \/ \A x \in q.read : x.job # j THEN usage[j]
              ELSE LET old == CHOOSE x \in q.read : x.job = j
                   IN  [rev |-> old.rev + 1, count |-> old.count + 1, last |-> q.at]]
      /\ receipts' = [receipts EXCEPT ![q.id] =
              IF @ # "none" THEN @
              ELSE IF accepted THEN "committed" ELSE "revision_conflict"]
  BY <1>3 DEF CommitUsage
<1>5. CASE ~accepted
  <2>1. usage' = [j \in Rollout |-> usage[j]]
    BY <1>4, <1>5
  <2>2. CASE receipts[q.id] # "none"
    <3>1. receipts' = [receipts EXCEPT ![q.id] = receipts[q.id]]
      BY <1>4, <2>2
    <3> QED
      BY <1>1, <1>2, <2>1, <3>1
  <2>3. CASE receipts[q.id] = "none"
    <3>1. receipts' = [receipts EXCEPT ![q.id] = "revision_conflict"]
      BY <1>4, <1>5, <2>3
    <3> QED
      BY <1>1, <1>2, <2>1, <2>3, <3>1
  <2> QED
    BY <2>2, <2>3
<1>6. CASE accepted
  <2>1. receipts[q.id] = "none" /\ UsageFits(q.read)
    BY <1>3, <1>6
  <2>2. receipts' = [receipts EXCEPT ![q.id] = "committed"]
    BY <1>4, <1>6, <2>1
  <2>3. \A j \in Rollout \ Used[q.id] : usage'[j] = usage[j]
    BY <1>2, <1>4 DEF UsageRead
  <2>4. ASSUME NEW j \in Used[q.id]
        PROVE  usage'[j] = [rev |-> usage[j].rev + 1, count |-> usage[j].count + 1, last |-> q.at]
    <3>1. PICK x \in q.read : x.job = j /\ x = CHOOSE y \in q.read : y.job = j
      BY <1>2 DEF UsageRead
    <3>2. usage'[j] = [rev |-> x.rev + 1, count |-> x.count + 1, last |-> q.at]
      BY <1>2, <1>4, <1>6, <3>1
    <3>3. x.rev = usage[j].rev /\ x.count = usage[j].count
      BY <1>2, <2>1, <3>1 DEF UsageFits, UsageRead
    <3> QED
      BY <3>2, <3>3
  <2>5. usage' = [j \in Rollout |-> usage'[j]]
    BY <1>4
  <2> QED
    BY <1>1, <1>2, <2>1, <2>2, <2>3, <2>4, <2>5
<1> QED
  BY <1>5, <1>6

LEMMA CommitUsageInv ==
  ASSUME MemoryInv, NEW c \in Caller, CommitUsage(c)
  PROVE  MemoryInv'
<1>1. /\ TypeOK /\ PairsMoveTogether /\ JobsInv /\ OutputsInv /\ CallsInv /\ UsageInv
  BY DEF MemoryInv
<1>2. UNCHANGED <<jobs, native, generation, journaled, up, now, issued, outputAt, clears>>
  BY DEF CommitUsage, process, history
<1>3. PICK q : q = call[c]
  OBVIOUS
<1>4. /\ q \in Call /\ q.op = "usage.record" /\ q.id \in UsageId /\ q.at \in Nat
      /\ Used[q.id] \subseteq Rollout
  BY <1>1, <1>3, JobsAssumption DEF CommitUsage, Pending, TypeOK, Call
<1>5. \A j \in Rollout : usage[j].rev \in Nat /\ usage[j].count \in Nat /\ usage[j] \in Usage
  BY <1>1 DEF TypeOK, Usage
<1>6. /\ usage' \in [Rollout -> Usage]
      /\ receipts' \in [UsageId -> {"none", "committed", "revision_conflict"}]
      /\ \A j \in Rollout : usage'[j] = usage[j] \/ usage'[j].rev = usage[j].rev + 1
  <2>1. receipts' \in [UsageId -> {"none", "committed", "revision_conflict"}]
    BY <1>1, <1>3, UsageIs DEF TypeOK
  <2>2. \/ UNCHANGED usage
        \/ /\ usage' = [j \in Rollout |-> usage'[j]]
           /\ \A j \in Rollout \ Used[q.id] : usage'[j] = usage[j]
           /\ \A j \in Used[q.id] : usage'[j] = [rev |-> usage[j].rev + 1,
                                                count |-> usage[j].count + 1, last |-> q.at]
    BY <1>3, UsageIs
  <2>3. CASE UNCHANGED usage
    BY <1>1, <2>1, <2>3 DEF TypeOK
  <2>4. CASE /\ usage' = [j \in Rollout |-> usage'[j]]
             /\ \A j \in Rollout \ Used[q.id] : usage'[j] = usage[j]
             /\ \A j \in Used[q.id] : usage'[j] = [rev |-> usage[j].rev + 1,
                                                  count |-> usage[j].count + 1, last |-> q.at]
    <3>1. ASSUME NEW j \in Used[q.id]
          PROVE  usage'[j] \in Usage /\ usage'[j].rev = usage[j].rev + 1
      <4>1. PICK v : v = [rev |-> usage[j].rev + 1, count |-> usage[j].count + 1, last |-> q.at]
        OBVIOUS
      <4>2. v \in Usage /\ v.rev = usage[j].rev + 1
        BY <1>4, <1>5, <4>1 DEF Usage
      <4> QED
        BY <2>4, <4>1, <4>2
    <3>2. \A j \in Rollout : usage'[j] \in Usage
      BY <1>5, <2>4, <3>1
    <3> QED
      BY <2>1, <2>4, <3>1, <3>2
  <2> QED
    BY <2>2, <2>3, <2>4
<1>7. call' \in [Caller -> Call \cup {Idle}] /\ \A d \in Caller : call'[d] \in {call[d], Idle}
  BY <1>1 DEF CommitUsage, Returns, TypeOK
<1>8. TypeOK'
  BY <1>1, <1>2, <1>6, <1>7 DEF TypeOK, Exists
<1>9. PairsMoveTogether' /\ JobsInv'
  BY <1>1, <1>2 DEF PairsMoveTogether, JobsInv, JobFits, Leased, Exists
<1>10. OutputsInv'
  BY <1>2, OutputsKept
<1>11. CallsInv'
  BY <1>1, <1>2, <1>6, <1>7, CallsKept DEF TypeOK, Leased, Exists
<1>12. UsageInv'
  <2> SUFFICES ASSUME NEW j \in Rollout
               PROVE  IsFiniteSet(Accepted(j)') /\ usage'[j].count = Cardinality(Accepted(j)')
    BY DEF UsageInv
  <2>1. IsFiniteSet(Accepted(j)) /\ usage[j].count = Cardinality(Accepted(j))
    BY <1>1 DEF UsageInv
  <2>2. receipts \in [UsageId -> {"none", "committed", "revision_conflict"}]
    BY <1>1 DEF TypeOK
  <2>3. CASE /\ UNCHANGED usage
             /\ receipts' \in {receipts, [receipts EXCEPT ![q.id] = "revision_conflict"]}
             /\ receipts[q.id] # "none" => UNCHANGED receipts
    <3>1. Accepted(j)' = Accepted(j)
      BY <1>4, <2>2, <2>3 DEF Accepted
    <3> QED
      BY <2>1, <2>3, <3>1
  <2>4. CASE /\ receipts[q.id] = "none" /\ receipts' = [receipts EXCEPT ![q.id] = "committed"]
             /\ \A i \in Rollout \ Used[q.id] : usage'[i] = usage[i]
             /\ \A i \in Used[q.id] : usage'[i] = [rev |-> usage[i].rev + 1,
                                                  count |-> usage[i].count + 1, last |-> q.at]
    <3>1. CASE j \in Used[q.id]
      <4>1. Accepted(j)' = Accepted(j) \cup {q.id} /\ q.id \notin Accepted(j)
        BY <1>4, <2>2, <2>4, <3>1 DEF Accepted
      <4>2. PICK A, B : A = Accepted(j) /\ B = Accepted(j)' /\ B = A \cup {q.id}
        BY <4>1
      <4>3. IsFiniteSet(B) /\ Cardinality(B) = Cardinality(A) + 1
        <5>1. PICK u : u = q.id
          OBVIOUS
        <5>2. IsFiniteSet(A) /\ u \notin A /\ B = A \cup {u}
          BY <2>1, <4>1, <4>2, <5>1
        <5> QED
          BY <5>2, FS_AddElement
      <4>4. PICK v : v = [rev |-> usage[j].rev + 1, count |-> usage[j].count + 1, last |-> q.at]
        OBVIOUS
      <4>5. v.count = usage[j].count + 1 /\ usage'[j] = v
        BY <2>4, <3>1, <4>4
      <4> QED
        BY <2>1, <4>2, <4>3, <4>5
    <3>2. CASE j \notin Used[q.id]
      <4>1. Accepted(j)' = Accepted(j)
        BY <1>4, <2>2, <2>4, <3>2 DEF Accepted
      <4> QED
        BY <2>1, <2>4, <3>2, <4>1
    <3> QED
      BY <3>1, <3>2
  <2> QED
    BY <1>3, <2>3, <2>4, UsageIs
<1> QED
  BY <1>8, <1>9, <1>10, <1>11, <1>12 DEF MemoryInv

-----------------------------------------------------------------------------
(* The clock and a restart leave what has been granted and recorded. *)
LEMMA EnvironmentInv ==
  ASSUME MemoryInv, Tick \/ Restart \/ UNCHANGED vars
  PROVE  MemoryInv'
<1>1. /\ TypeOK /\ PairsMoveTogether /\ JobsInv /\ OutputsInv /\ CallsInv /\ UsageInv
  BY DEF MemoryInv
<1>2. /\ UNCHANGED <<jobs, native, usage, receipts, generation, journaled, issued, outputAt, clears>>
      /\ \A c \in Caller : call'[c] \in {call[c], Idle}
      /\ call' \in [Caller -> Call \cup {Idle}] /\ up' \in BOOLEAN /\ now' \in 1..MaxTime
  BY <1>1, JobsAssumption DEF Tick, Restart, vars, maintenance, process, history, TypeOK
<1>3. TypeOK'
  BY <1>1, <1>2 DEF TypeOK, Exists
<1>4. PairsMoveTogether' /\ UsageInv'
  BY <1>1, <1>2 DEF PairsMoveTogether, UsageInv, Accepted
<1>5. JobsInv'
  BY <1>1, <1>2 DEF JobsInv, JobFits, Leased, Exists
<1>6. OutputsInv'
  BY <1>2, OutputsKept
<1>7. CallsInv'
  BY <1>1, <1>2, CallsKept DEF TypeOK, Leased, Exists
<1> QED
  BY <1>3, <1>4, <1>5, <1>6, <1>7 DEF MemoryInv

(* Each step keeps MemoryInv. *)
LEMMA NextMemoryInv == MemoryInv /\ [Next]_vars => MemoryInv'
<1> SUFFICES ASSUME MemoryInv, [Next]_vars PROVE MemoryInv'
  OBVIOUS
<1>1. CASE JobStep
  BY <1>1, EnqueueInv, ClaimInv, HeartbeatInv, FailInv, BeginInv, ReadOutputsInv,
     ReadMemoryRevisionInv, CommitStage1Inv, ReadSummaryRevisionInv, CommitPhase2Inv DEF JobStep
<1>2. CASE MaintenanceStep
  BY <1>2, CreateNoteInv, ReadUsageInv, ChooseStaleInv, CommitUsageInv, ReadStaleInv,
     ReadAllInv, DeleteInv DEF MaintenanceStep
<1> QED
  BY <1>1, <1>2, EnvironmentInv DEF Next

(* Every lease, output and unfinished request is always as MemoryInv says  *)
(* (native_jobs.go, evaluateNative).                                       *)
THEOREM MemoryInvariant == Spec => []MemoryInv
<1>1. Init => MemoryInv
  BY InitMemoryInv
<1>2. MemoryInv /\ [Next]_vars => MemoryInv'
  BY NextMemoryInv
<1> QED
  BY <1>1, <1>2, PTL DEF Spec

(* Every variable keeps its type, and exactly leased jobs have a token.    *)
THEOREM MemoryTypes == Spec => []TypeOK
<1>1. MemoryInv => TypeOK
  BY DEF MemoryInv
<1> QED
  BY <1>1, MemoryInvariant, PTL

(* The raw memory and summary of a rollout, and the two artifacts, come    *)
(* and go together (MemoryPhase2Commit, MemoryRetainStage1, MemoryClear).  *)
THEOREM PairsStayTogether == Spec => []PairsMoveTogether
<1>1. MemoryInv => PairsMoveTogether
  BY DEF MemoryInv
<1> QED
  BY <1>1, MemoryInvariant, PTL

(* A job that has succeeded shows the output of its own input, whatever    *)
(* is enqueued while a worker runs (memory.job.enqueue, stage1.commit).    *)
THEOREM OutputsMatchInputs == Spec => []OutputMatchesInput
<1>1. MemoryInv => OutputMatchesInput
  BY DEF MemoryInv, OutputsInv
<1> QED
  BY <1>1, MemoryInvariant, PTL

(* MemoryRecordUsage loses no count and counts no request twice.           *)
THEOREM UsageIsCounted == Spec => []NoLostUsage
<1>1. MemoryInv => NoLostUsage
  BY DEF MemoryInv, UsageInv, Accepted, NoLostUsage
<1> QED
  BY <1>1, MemoryInvariant, PTL

-----------------------------------------------------------------------------
(* Who writes: commits that are accepted, and notes. *)
LEMMA Writers ==
  ASSUME MemoryInv, [Next]_vars
  PROVE  \/ UNCHANGED native
         \/ \E n \in Note : CreateNote(n)
         \/ \E c \in Caller : Stage1Commits(c) \/ Phase2Commits(c) \/ Deletes(c)
<1>1. CASE JobStep
  <2>1. CASE \E c \in Caller : CommitStage1(c) \/ CommitPhase2(c)
    BY <2>1, CommitStage1Cases, CommitPhase2Cases DEF Rejected
  <2>2. CASE ~\E c \in Caller : CommitStage1(c) \/ CommitPhase2(c)
    BY <1>1, <2>2 DEF JobStep, Enqueue, Claim, Heartbeat, Fail, Begin, ReadOutputs,
                      ReadMemoryRevision, ReadSummaryRevision, Starts
  <2> QED
    BY <2>1, <2>2
<1>2. CASE MaintenanceStep
  BY <1>2, DeleteCases DEF MaintenanceStep, ReadUsage, ChooseStale, CommitUsage, ReadStale,
                           ReadAll, Starts, Rejected
<1>3. CASE Tick \/ Restart \/ UNCHANGED vars
  BY <1>3 DEF Tick, Restart, vars
<1> QED
  BY <1>1, <1>2, <1>3 DEF Next

(* An output is deleted, or written under a lease that is newer than what  *)
(* was there and than every clear.                                         *)
LEMMA OutputStep ==
  ASSUME MemoryInv, [Next]_vars, NEW j \in Rollout
  PROVE  /\ native'[Raw(j)].content # 0 => native'[Raw(j)].content >= native[Raw(j)].content
         /\ native'[Raw(j)].rev # native[Raw(j)].rev /\ Live(native'[Raw(j)]) =>
                \A i \in DOMAIN clears : native'[Raw(j)].content > clears[i]
<1>1. native[Raw(j)].content \in Nat /\ Raw(j) \in Key
  BY KeysDiffer DEF MemoryInv, TypeOK, Resource
<1>2. CASE native'[Raw(j)] = native[Raw(j)]
  BY <1>1, <1>2
<1>3. CASE \E n \in Note : CreateNote(n)
  <2>1. native'[Raw(j)] = native[Raw(j)]
    BY <1>1, <1>3, KeysDiffer DEF CreateNote, MemoryInv, TypeOK
  <2> QED
    BY <1>2, <2>1
<1>4. ASSUME NEW c \in Caller, Stage1Commits(c)
      PROVE  /\ native'[Raw(j)].content # 0 => native'[Raw(j)].content >= native[Raw(j)].content
             /\ native'[Raw(j)].rev # native[Raw(j)].rev /\ Live(native'[Raw(j)]) =>
                    \A i \in DOMAIN clears : native'[Raw(j)].content > clears[i]
  <2>1. PICK q : q = call[c]
    OBVIOUS
  <2>2. /\ q.job \in Rollout /\ q.token \in Nat
        /\ \A i \in DOMAIN clears : clears[i] < q.token
        /\ native[Raw(q.job)].content < q.token
        /\ \A k \in Key : k \notin {Raw(q.job), Summary(q.job)} => native'[k] = native[k]
        /\ native'[Raw(q.job)].content # 0 => native'[Raw(q.job)].content \in
                                                 {q.token, native[Raw(q.job)].content}
        /\ Live(native'[Raw(q.job)]) => native'[Raw(q.job)].content = q.token
    BY <1>4, <2>1, Stage1CommitIs
  <2>3. CASE j = q.job
    <3>1. \A i \in DOMAIN clears : clears[i] \in Nat
      BY DEF MemoryInv, TypeOK
    <3> QED
      BY <1>1, <2>2, <2>3, <3>1
  <2>4. CASE j # q.job
    BY <1>1, <1>2, <2>2, <2>4, KeysDiffer
  <2> QED
    BY <2>3, <2>4
<1>5. CASE \E c \in Caller : Phase2Commits(c)
  <2>1. native'[Raw(j)] = native[Raw(j)]
    BY <1>1, <1>5, Phase2CommitIs, KeysDiffer
  <2> QED
    BY <1>2, <2>1
<1>6. CASE \E c \in Caller : Deletes(c)
  <2>1. native'[Raw(j)] = native[Raw(j)] \/ (~Live(native'[Raw(j)]) /\ native'[Raw(j)].content = 0)
    BY <1>1, <1>6, DeletesIs
  <2> QED
    BY <1>2, <2>1
<1> QED
  BY <1>2, <1>3, <1>4, <1>5, <1>6, Writers

(* A worker whose lease has been taken over never overwrites the output of *)
(* the one that took it over (validLease, stage1.commit).                  *)
THEOREM LeasesFenceWorkers == Spec => OutputsNeverRegress
<1>1. MemoryInv /\ [Next]_vars =>
        [\A j \in Rollout :
          native'[Raw(j)].content # 0 =>
              native'[Raw(j)].content >= native[Raw(j)].content]_vars
  BY OutputStep
<1> QED
  BY <1>1, MemoryInvariant, PTL DEF Spec, OutputsNeverRegress

(* No worker brings back what MemoryClear has removed: an output written   *)
(* later is of a lease granted later (applyNative forgets the jobs).       *)
THEOREM ClearsFenceWorkers == Spec => ClearFencesWorkers
<1>1. MemoryInv /\ [Next]_vars =>
        [\A j \in Rollout, i \in DOMAIN clears :
          native'[Raw(j)].rev # native[Raw(j)].rev /\ Live(native'[Raw(j)]) =>
              native'[Raw(j)].content > clears[i]]_vars
  BY OutputStep
<1> QED
  BY <1>1, MemoryInvariant, PTL DEF Spec, ClearFencesWorkers

-----------------------------------------------------------------------------
(* The phase-2 job.  A begin gives it a transaction and the generation the *)
(* transaction began at.  memory.job.claim on its id renews the generation *)
(* and keeps the transaction: the two then differ, and that the claim came *)
(* after the begin is what is left to say.                                 *)

(* A claim after a begin stays one. *)
LEMMA ClaimsStay ==
  ASSUME issued \in Seq(Lease), UNCHANGED issued \/ \E l \in Lease : issued' = Append(issued, l)
  PROVE  /\ \A t \in Tokens : t \in Tokens' /\ issued'[t] = issued[t]
         /\ \A x \in Nat : ClaimedSince(x) => \E t \in Tokens' :
                              t > x /\ issued'[t].job = Global /\ ~issued'[t].begin
<1>1. \A t \in Tokens : t \in Tokens' /\ issued'[t] = issued[t]
  BY IssuedGrows DEF Tokens
<1> QED
  BY <1>1 DEF ClaimedSince

(* ConsolidationInv is kept by whatever leaves MEMORY.md, and either the   *)
(* phase-2 job or its transaction, as they are.                            *)
LEMMA GlobalKept ==
  ASSUME MemoryInv, ConsolidationInv, UNCHANGED outputAt, native'[Memory] = native[Memory],
         UNCHANGED issued \/ \E l \in Lease : issued' = Append(issued, l),
         \/ jobs'[Global] = jobs[Global]
         \/ /\ Exists(Global) /\ Exists(Global)' /\ jobs'[Global].status # "succeeded"
            /\ jobs'[Global].tx = jobs[Global].tx
            /\ jobs'[Global].gen = jobs[Global].gen \/ ClaimedSince(jobs[Global].tx)'
  PROVE  ConsolidationInv'
<1>1. issued \in Seq(Lease) /\ Len(issued) \in Nat /\ Tokens \subseteq Nat
  BY DEF MemoryInv, TypeOK, Tokens
<1>2. /\ \A t \in Tokens : t \in Tokens' /\ issued'[t] = issued[t]
      /\ \A x \in Nat : ClaimedSince(x) => \E t \in Tokens' :
                           t > x /\ issued'[t].job = Global /\ ~issued'[t].begin
  BY <1>1, ClaimsStay
<1>3. (Exists(Global) /\ jobs[Global].tx # 0 =>
          /\ jobs[Global].tx \in Tokens
          /\ \/ issued[jobs[Global].tx].gen = jobs[Global].gen
             \/ ClaimedSince(jobs[Global].tx))'
  <2>1. SUFFICES ASSUME Exists(Global)', jobs'[Global].tx # 0
                 PROVE  /\ jobs'[Global].tx \in Tokens'
                        /\ \/ issued'[jobs'[Global].tx].gen = jobs'[Global].gen
                           \/ ClaimedSince(jobs[Global].tx)'
    OBVIOUS
  <2>2. PICK x : x = jobs[Global].tx
    OBVIOUS
  <2>3. /\ jobs'[Global].tx = x /\ x \in Tokens
        /\ issued[x].gen = jobs[Global].gen \/ ClaimedSince(x)
        /\ jobs'[Global].gen = jobs[Global].gen \/ ClaimedSince(jobs[Global].tx)'
    BY <2>1, <2>2 DEF ConsolidationInv, Exists
  <2>4. CASE ClaimedSince(x)
    <3>1. \E t \in Tokens' : t > x /\ issued'[t].job = Global /\ ~issued'[t].begin
      BY <1>1, <1>2, <2>3, <2>4
    <3> QED
      BY <1>2, <2>3, <3>1 DEF ClaimedSince
  <2> QED
    BY <1>2, <2>3, <2>4
<1>4. (Live(native[Memory]) => native[Memory].content \in Tokens)'
  BY <1>2 DEF ConsolidationInv, Live
<1>5. NoLostWakeup'
  <2>1. SUFFICES ASSUME outputAt' # 0
                 PROVE  /\ Exists(Global)'
                        /\ Succeeded(Global)' =>
                              /\ Live(native'[Memory])
                              /\ \/ issued'[native'[Memory].content].gen >= outputAt'
                                 \/ ClaimedSince(native[Memory].content)'
    BY DEF NoLostWakeup
  <2>2. Exists(Global) /\ Exists(Global)'
    BY <2>1 DEF ConsolidationInv, NoLostWakeup, Exists
  <2>3. ASSUME Succeeded(Global)'
        PROVE  /\ Live(native'[Memory])
               /\ \/ issued'[native'[Memory].content].gen >= outputAt'
                  \/ ClaimedSince(native[Memory].content)'
    <3>1. PICK x : x = native[Memory].content
      OBVIOUS
    <3>2. Succeeded(Global)
      BY <2>2, <2>3 DEF Succeeded, Exists
    <3>3. /\ Live(native[Memory]) /\ x \in Tokens /\ native'[Memory].content = x
          /\ issued[x].gen >= outputAt \/ ClaimedSince(x)
      BY <2>1, <3>1, <3>2 DEF ConsolidationInv, NoLostWakeup
    <3>4. CASE ClaimedSince(x)
      <4>1. \E t \in Tokens' : t > x /\ issued'[t].job = Global /\ ~issued'[t].begin
        BY <1>1, <1>2, <3>3, <3>4
      <4>2. ClaimedSince(native[Memory].content)'
        BY <3>3, <4>1 DEF ClaimedSince
      <4> QED
        BY <3>3, <4>2 DEF Live
    <3> QED
      BY <1>2, <3>3, <3>4 DEF Live
  <2> QED
    BY <2>1, <2>2, <2>3
<1> QED
  BY <1>3, <1>4, <1>5 DEF ConsolidationInv

(* ConsolidationInv holds in the beginning. *)
LEMMA InitConsolidation == Init => ConsolidationInv
BY KeysDiffer, JobIds DEF Init, ConsolidationInv, NoLostWakeup, Exists, Live, Absent

(* Commands on jobs, but for phase2.begin. *)
LEMMA CommandsConsolidate ==
  ASSUME MemoryInv, ConsolidationInv,
         \/ \E j \in Rollout, v \in Input : Enqueue(j, v)
         \/ \E j \in JobId, s \in LeaseSeconds : Claim(j, s)
         \/ \E j \in JobId, t \in Tokens, s \in LeaseSeconds : Heartbeat(j, t, s)
         \/ \E j \in JobId, t \in Tokens : Fail(j, t)
  PROVE  ConsolidationInv'
<1>1. TypeOK /\ Global \in JobId
  BY JobIds DEF MemoryInv
<1>2. UNCHANGED <<outputAt, native>>
  BY DEF Enqueue, Claim, Heartbeat, Fail, history
<1>3. ASSUME NEW j \in Rollout, NEW v \in Input, Enqueue(j, v)
      PROVE  ConsolidationInv'
  <2>1. jobs'[Global] = jobs[Global] /\ UNCHANGED issued
    BY <1>1, <1>3, JobIds DEF Enqueue, TypeOK
  <2> QED
    BY <1>2, <2>1, GlobalKept
<1>4. ASSUME NEW j \in JobId, NEW s \in LeaseSeconds, Claim(j, s)
      PROVE  ConsolidationInv'
  <2>1. Exists(j) /\ jobs[j] \in Job
    BY <1>1, <1>4, JobIs DEF Claim, Available
  <2>2. PICK l : /\ l = [job |-> j, input |-> jobs[j].input, gen |-> generation, begin |-> FALSE]
                 /\ issued' = Append(issued, l)
    BY <1>4 DEF Claim
  <2>3. l \in Lease
    BY <1>1, <2>1, <2>2, JobIs DEF Lease
  <2>4. CASE j # Global
    <3>1. jobs'[Global] = jobs[Global]
      BY <1>1, <1>4, <2>4 DEF Claim, TypeOK
    <3> QED
      BY <1>2, <2>2, <2>3, <3>1, GlobalKept
  <2>5. CASE j = Global
    <3>1. PICK x \in Job : x = jobs[j]
      BY <2>1
    <3>2. PICK r : /\ r = [x EXCEPT !.status = "leased", !.token = NextToken,
                                    !.expires = now + s, !.gen = generation]
                   /\ jobs' = [jobs EXCEPT ![j] = r]
      BY <1>4, <3>1 DEF Claim
    <3>3. r.status = "leased" /\ r.tx = x.tx
      BY <3>2 DEF Job
    <3>4. r \in Job
      <4>1. now + s \in Nat /\ generation \in Nat /\ NextToken \in Nat
        BY <1>1, <2>1, JobIs, JobsAssumption
      <4> QED
        BY <3>2, <4>1 DEF Job
    <3>5. jobs'[Global] = r /\ r # NoJob
      BY <1>1, <2>5, <3>2, <3>4, JobsAssumption DEF TypeOK
    <3>6. ClaimedSince(jobs[Global].tx)'
      <4>1. issued \in Seq(Lease) /\ Len(issued) \in Nat
        BY <1>1 DEF TypeOK
      <4>2. /\ NextToken \in Tokens' /\ issued'[NextToken] = l
        BY <2>2, <2>3, <4>1, IssuedGrows DEF Tokens, NextToken
      <4>3. x.tx \in Nat /\ (x.tx # 0 => x.tx \in Tokens)
        BY <2>1, <2>5, <3>1 DEF ConsolidationInv, Job
      <4>4. NextToken > x.tx
        BY <4>1, <4>3 DEF Tokens, NextToken
      <4>5. jobs'[Global].tx = x.tx /\ l.job = Global /\ ~l.begin
        BY <2>2, <2>5, <3>3, <3>5
      <4> QED
        BY <4>2, <4>4, <4>5 DEF ClaimedSince
    <3> QED
      BY <1>2, <2>1, <2>2, <2>3, <2>5, <3>1, <3>3, <3>5, <3>6, GlobalKept DEF Exists
  <2> QED
    BY <2>4, <2>5
<1>5. ASSUME NEW j \in JobId, NEW t \in Tokens, NEW s \in LeaseSeconds, Heartbeat(j, t, s)
      PROVE  ConsolidationInv'
  <2>1. Exists(j) /\ jobs[j] \in Job /\ jobs[j].status = "leased" /\ UNCHANGED issued
    BY <1>1, <1>5, JobIs DEF Heartbeat, ValidLease
  <2>2. PICK r : r = [jobs[j] EXCEPT !.expires = now + s] /\ jobs' = [jobs EXCEPT ![j] = r]
    BY <1>5 DEF Heartbeat
  <2>3. r.status = "leased" /\ r.tx = jobs[j].tx /\ r.gen = jobs[j].gen /\ r.token = jobs[j].token
    BY <2>1, <2>2 DEF Job
  <2>4. r # NoJob
    <3>1. now + s \in Nat
      BY <1>1, JobsAssumption DEF TypeOK
    <3>2. r \in Job
      BY <2>1, <2>2, <3>1 DEF Job
    <3> QED
      BY <3>2, JobsAssumption
  <2>5. jobs'[Global] = IF j = Global THEN r ELSE jobs[Global]
    BY <1>1, <2>2 DEF TypeOK
  <2>6. \/ jobs'[Global] = jobs[Global]
        \/ /\ Exists(Global) /\ Exists(Global)' /\ jobs'[Global].status # "succeeded"
           /\ jobs'[Global].tx = jobs[Global].tx /\ jobs'[Global].gen = jobs[Global].gen
    BY <2>1, <2>3, <2>4, <2>5 DEF Exists
  <2> QED
    BY <1>2, <2>1, <2>6, GlobalKept
<1>6. ASSUME NEW j \in JobId, NEW t \in Tokens, Fail(j, t)
      PROVE  ConsolidationInv'
  <2>1. Exists(j) /\ jobs[j] \in Job /\ UNCHANGED issued
    BY <1>1, <1>6, JobIs DEF Fail, ValidLease
  <2>2. PICK r : /\ r = [jobs[j] EXCEPT !.status = "failed", !.token = 0, !.expires = 0]
                 /\ jobs' = [jobs EXCEPT ![j] = r]
    BY <1>6 DEF Fail
  <2>3. /\ r \in Job /\ r # NoJob /\ r.status = "failed"
        /\ r.tx = jobs[j].tx /\ r.gen = jobs[j].gen
    <3>1. PICK x \in Job : x = jobs[j]
      BY <2>1
    <3>2. r = [x EXCEPT !.status = "failed", !.token = 0, !.expires = 0]
      BY <2>2, <3>1
    <3>3. r \in Job /\ r.status = "failed" /\ r.tx = x.tx /\ r.gen = x.gen
      BY <3>2 DEF Job
    <3> QED
      BY <3>1, <3>3, JobsAssumption
  <2>4. jobs'[Global] = IF j = Global THEN r ELSE jobs[Global]
    BY <1>1, <2>2 DEF TypeOK
  <2>5. \/ jobs'[Global] = jobs[Global]
        \/ /\ Exists(Global) /\ Exists(Global)' /\ jobs'[Global].status # "succeeded"
           /\ jobs'[Global].tx = jobs[Global].tx /\ jobs'[Global].gen = jobs[Global].gen
    BY <2>1, <2>3, <2>4 DEF Exists
  <2> QED
    BY <1>2, <2>1, <2>5, GlobalKept
<1> QED
  BY <1>3, <1>4, <1>5, <1>6

(* A begin keeps ConsolidationInv: its lease carries the generation it reads. *)
LEMMA BeginConsolidates ==
  ASSUME MemoryInv, ConsolidationInv, NEW s \in LeaseSeconds, NEW limit \in Limit,
         Begin(s, limit)
  PROVE  ConsolidationInv'
<1>1. TypeOK /\ Global \in JobId /\ issued \in Seq(Lease) /\ Len(issued) \in Nat
  BY JobIds DEF MemoryInv, TypeOK
<1>2. UNCHANGED <<outputAt, native>> /\ Exists(Global)
  BY DEF Begin, Available, history
<1>3. PICK r \in Job : /\ jobs' = [jobs EXCEPT ![Global] = r]
                       /\ r.status = "leased" /\ r.tx = NextToken /\ r.gen = generation
  BY <1>1, BegunJob
<1>4. PICK l \in Lease : issued' = Append(issued, l) /\ l.gen = generation
  BY <1>1, BegunJob
<1>5. /\ NextToken \in Tokens' /\ issued'[NextToken] = l
      /\ \A t \in Tokens : t \in Tokens' /\ issued'[t] = issued[t]
  BY <1>1, <1>4, IssuedGrows DEF Tokens, NextToken
<1>6. jobs'[Global] = r /\ r # NoJob
  BY <1>1, <1>3, JobsAssumption DEF TypeOK
<1> QED
  BY <1>2, <1>3, <1>4, <1>5, <1>6 DEF ConsolidationInv, NoLostWakeup, Succeeded, Exists, Live

(* An output wakes the phase-2 job. *)
LEMMA Stage1Consolidates ==
  ASSUME MemoryInv, ConsolidationInv, NEW c \in Caller, Stage1Commits(c)
  PROVE  ConsolidationInv'
<1>1. PICK q : q = call[c]
  OBVIOUS
<1>2. /\ q.job \in Rollout /\ Global \in JobId /\ Global # q.job
      /\ native'[Memory] = native[Memory] /\ UNCHANGED issued
  <2>1. /\ q.job \in Rollout
        /\ \A k \in Key : k \notin {Raw(q.job), Summary(q.job)} => native'[k] = native[k]
    BY <1>1, Stage1CommitIs
  <2>2. Memory \in Key /\ Memory # Raw(q.job) /\ Memory # Summary(q.job)
    BY <2>1, KeysDiffer DEF Artifacts
  <2> QED
    BY <2>1, <2>2, JobIds DEF Stage1Commits
<1>3. /\ jobs'[Global] = IF q.changes # {} THEN Woken ELSE jobs[Global]
      /\ outputAt' = IF q.changes = {} THEN outputAt ELSE generation + 1
  <2>1. jobs' = [i \in JobId |->
                   IF i = q.job
                   THEN [jobs[i] EXCEPT !.status = "succeeded", !.token = 0, !.expires = 0]
                   ELSE IF i = Global /\ q.changes # {} THEN Woken
                   ELSE jobs[i]]
    BY <1>1 DEF Stage1Commits
  <2> QED
    BY <1>1, <1>2, <2>1 DEF Stage1Commits
<1>4. CASE q.changes = {}
  BY <1>2, <1>3, <1>4, GlobalKept
<1>5. CASE q.changes # {}
  <2>1. /\ Woken \in Job /\ Woken.status # "succeeded"
        /\ ~Exists(Global) => Woken.tx = 0
        /\ Exists(Global) => Woken.tx = jobs[Global].tx /\ Woken.gen = jobs[Global].gen
    BY WokenIs
  <2>2. jobs'[Global] = Woken /\ Woken # NoJob
    BY <1>3, <1>5, <2>1, JobsAssumption
  <2>3. (Exists(Global) /\ jobs[Global].tx # 0 =>
            /\ jobs[Global].tx \in Tokens
            /\ \/ issued[jobs[Global].tx].gen = jobs[Global].gen
               \/ ClaimedSince(jobs[Global].tx))'
    BY <1>2, <2>1, <2>2 DEF ConsolidationInv, Tokens, ClaimedSince
  <2>4. NoLostWakeup'
    BY <2>1, <2>2 DEF NoLostWakeup, Succeeded, Exists
  <2> QED
    BY <1>2, <2>3, <2>4 DEF ConsolidationInv, Tokens, Live
<1> QED
  BY <1>4, <1>5

(* The consolidation that is published began after the last output, unless *)
(* the phase-2 job was claimed by its id since.                            *)
LEMMA Phase2Consolidates ==
  ASSUME MemoryInv, ConsolidationInv, NEW c \in Caller, Phase2Commits(c)
  PROVE  /\ ConsolidationInv'
         /\ \/ issued[native'[Memory].content].gen = generation
            \/ ClaimedSince(native'[Memory].content)
<1>1. PICK q : q = call[c]
  OBVIOUS
<1>2. /\ q.tx \in Tokens /\ q.tx # 0
      /\ Leased(Global) /\ jobs[Global].tx = q.tx /\ jobs[Global].gen = generation
      /\ Live(native'[Memory]) /\ native'[Memory].content = q.tx
      /\ jobs'[Global] \in Job /\ jobs'[Global].tx = 0
  BY <1>1, Phase2CommitIs
<1>3. UNCHANGED <<issued, outputAt>>
  BY DEF Phase2Commits, history
<1>4. /\ issued[q.tx].gen = generation \/ ClaimedSince(q.tx)
      /\ ClaimedSince(q.tx) => ClaimedSince(native[Memory].content)'
  <2>1. issued[q.tx].gen = generation \/ ClaimedSince(q.tx)
    BY <1>2 DEF ConsolidationInv, Leased
  <2>2. ASSUME ClaimedSince(q.tx) PROVE ClaimedSince(native[Memory].content)'
    BY <1>2, <1>3, <2>2 DEF ClaimedSince, Tokens
  <2> QED
    BY <2>1, <2>2
<1>5. generation \in Nat /\ outputAt \in 0..generation
  BY DEF MemoryInv, TypeOK
<1>6. NoLostWakeup'
  BY <1>2, <1>3, <1>4, <1>5, JobsAssumption DEF NoLostWakeup, Exists, Live
<1> QED
  BY <1>2, <1>3, <1>4, <1>6 DEF ConsolidationInv, Tokens

(* So does the removal of outputs, by retention or by a clear. *)
LEMMA DeleteConsolidates ==
  ASSUME MemoryInv, ConsolidationInv, NEW c \in Caller, Deletes(c)
  PROVE  ConsolidationInv'
<1>1. PICK q : q = call[c]
  OBVIOUS
<1>2. /\ native'[Memory] = native[Memory] \/ ~Live(native'[Memory])
      /\ ~q.clear => native'[Memory] = native[Memory]
  BY <1>1, DeletesIs, KeysDiffer
<1>3. /\ jobs' = JobsAfterDelete(q.clear)
      /\ outputAt' = IF q.clear THEN 0 ELSE outputAt
      /\ UNCHANGED issued
  BY <1>1 DEF Deletes
<1>4. CASE q.clear
  <2>1. ~Exists(Global)' /\ outputAt' = 0
    BY <1>3, <1>4, JobIds DEF JobsAfterDelete, Exists
  <2> QED
    BY <1>2, <1>3, <2>1 DEF ConsolidationInv, NoLostWakeup, Tokens, Live
<1>5. CASE ~q.clear
  <2>1. jobs' = jobs /\ outputAt' = outputAt
    BY <1>3, <1>5 DEF JobsAfterDelete
  <2> QED
    BY <1>2, <1>3, <1>5, <2>1, GlobalKept
<1> QED
  BY <1>4, <1>5

(* Everything else leaves the phase-2 job and MEMORY.md alone. *)
LEMMA OthersConsolidate ==
  ASSUME MemoryInv, ConsolidationInv,
         \/ Tick \/ Restart \/ UNCHANGED vars
         \/ \E c \in Caller, j \in Rollout, t \in Tokens, b \in BOOLEAN : ReadOutputs(c, j, t, b)
         \/ \E c \in Caller, t \in Tokens, tx \in Tokens : ReadMemoryRevision(c, t, tx)
         \/ \E c \in Caller : ReadSummaryRevision(c) \/ Rejected(c)
         \/ \E n \in Note : CreateNote(n)
         \/ \E c \in Caller, u \in UsageId : ReadUsage(c, u)
         \/ \E c \in Caller, p \in Retention : ChooseStale(c, p)
         \/ \E c \in Caller : CommitUsage(c) \/ ReadStale(c) \/ ReadAll(c)
  PROVE  ConsolidationInv'
<1>1. UNCHANGED <<jobs, issued, outputAt>> /\ native'[Memory] = native[Memory]
  <2>1. CASE \E n \in Note : CreateNote(n)
    <3>1. PICK n \in Note : CreateNote(n)
      BY <2>1
    <3>2. Memory # NoteKey(n)
      BY KeysDiffer DEF Artifacts
    <3> QED
      BY <3>1, <3>2, KeysDiffer DEF CreateNote, process, history, MemoryInv, TypeOK
  <2>2. CASE ~\E n \in Note : CreateNote(n)
    BY <2>2 DEF Tick, Restart, vars, ReadOutputs, ReadMemoryRevision, ReadSummaryRevision,
                Rejected, ReadUsage, ChooseStale, CommitUsage, ReadStale, ReadAll, Starts, history
  <2> QED
    BY <2>1, <2>2
<1> QED
  BY <1>1, GlobalKept

(* So does each step. *)
LEMMA NextConsolidates ==
  ASSUME MemoryInv, ConsolidationInv, [Next]_vars
  PROVE  ConsolidationInv'
<1>1. CASE \E c \in Caller : CommitStage1(c) \/ CommitPhase2(c) \/ Delete(c)
  BY <1>1, CommitStage1Cases, CommitPhase2Cases, DeleteCases,
     Stage1Consolidates, Phase2Consolidates, DeleteConsolidates, OthersConsolidate
<1>2. CASE \E s \in LeaseSeconds, n \in Limit : Begin(s, n)
  BY <1>2, BeginConsolidates
<1>3. CASE JobStep
  BY <1>1, <1>2, <1>3, CommandsConsolidate, OthersConsolidate DEF JobStep
<1>4. CASE MaintenanceStep
  BY <1>1, <1>4, OthersConsolidate DEF MaintenanceStep
<1> QED
  BY <1>3, <1>4, OthersConsolidate DEF Next

(* ConsolidationInv is an invariant. *)
LEMMA ConsolidationInvariant == Spec => [](MemoryInv /\ ConsolidationInv)
<1>1. Init => MemoryInv /\ ConsolidationInv
  BY InitMemoryInv, InitConsolidation
<1>2. (MemoryInv /\ ConsolidationInv) /\ [Next]_vars => (MemoryInv /\ ConsolidationInv)'
  BY NextMemoryInv, NextConsolidates
<1> QED
  BY <1>1, <1>2, PTL DEF Spec

(* No wakeup is lost: an output that has changed is consolidated before    *)
(* the phase-2 job counts as done; only what a begin selected before       *)
(* somebody claimed that job by its id may be older (stage1.commit,        *)
(* phase2.commit).                                                         *)
THEOREM WakeupsAreKept == Spec => []NoLostWakeup
<1>1. MemoryInv /\ ConsolidationInv => NoLostWakeup
  BY DEF ConsolidationInv
<1> QED
  BY <1>1, ConsolidationInvariant, PTL

(* MEMORY.md is published only at the generation at which its begin read   *)
(* the memories, unless the phase-2 job was claimed by its id after that   *)
(* begin: such a claim is the only way a stale consolidation gets through. *)
THEOREM ConsolidationsAreFresh == Spec => FreshUnlessClaimed
<1>1. ASSUME MemoryInv, ConsolidationInv, [Next]_vars,
             native'[Memory].rev # native[Memory].rev, Live(native'[Memory])
      PROVE  \/ issued[native'[Memory].content].gen = generation
             \/ ClaimedSince(native'[Memory].content)
  <2>1. Memory \in Key
    BY KeysDiffer
  <2>2. ASSUME NEW n \in Note, CreateNote(n) PROVE native'[Memory] = native[Memory]
    <3>1. Memory # NoteKey(n)
      BY KeysDiffer DEF Artifacts
    <3> QED
      BY <1>1, <2>1, <2>2, <3>1 DEF CreateNote, MemoryInv, TypeOK
  <2>3. ASSUME NEW c \in Caller, Stage1Commits(c) PROVE native'[Memory] = native[Memory]
    <3>1. PICK q : q = call[c]
      OBVIOUS
    <3>2. /\ q.job \in Rollout
          /\ \A k \in Key : k \notin {Raw(q.job), Summary(q.job)} => native'[k] = native[k]
      BY <1>1, <2>3, <3>1, Stage1CommitIs
    <3>3. Memory # Raw(q.job) /\ Memory # Summary(q.job)
      BY <3>2, KeysDiffer DEF Artifacts
    <3> QED
      BY <2>1, <3>2, <3>3
  <2>4. ASSUME NEW c \in Caller, Deletes(c)
        PROVE  native'[Memory] = native[Memory] \/ ~Live(native'[Memory])
    BY <1>1, <2>1, <2>4, DeletesIs
  <2>5. PICK c \in Caller : Phase2Commits(c)
    BY <1>1, <2>2, <2>3, <2>4, Writers
  <2> QED
    BY <1>1, <2>5, Phase2Consolidates
<1>2. MemoryInv /\ ConsolidationInv /\ [Next]_vars =>
        [/\ native'[Memory].rev # native[Memory].rev
         /\ Live(native'[Memory])
         /\ ~ClaimedSince(native'[Memory].content)
         => issued[native'[Memory].content].gen = generation]_vars
  BY <1>1
<1> QED
  BY <1>2, ConsolidationInvariant, PTL DEF Spec, FreshUnlessClaimed
=============================================================================
