# A verification development for remote-computer-adapter

TLA+ modules, TLC configurations and TLAPS proofs for `rca`. Paths are relative
to the repository root; `store.go`, `native*.go` are in `internal/trustedstate`,
`client.go`, `server.go`, `proto.go` in `internal/executor`, `session.go` in
`internal/codexnative`, `run.go` and `credentials.go` in `internal/claudenative`
unless said otherwise;
`protocol.md` stands for `docs/codex-go-native-state-protocol.md`, `prototype.md`
for `docs/codex-tool-prototype.md`.

## 1. The system

`rca` runs a coding agent on a trusted host and executes its tools on another
computer. Memory and skills stay on the trusted host, in a journalled store.

| component | source | state it keeps | operations | hard behaviour |
|---|---|---|---|---|
| journal store | `store.go` | `journal.jsonl`, four maps rebuilt from it, `poisoned` | Open (flock, replay, directory sync), Mutate, Read, List, Close | crash between append, fsync and apply; failed fsync; torn line; retries |
| native transactions | `native.go` | the same journal, v2 records; resources, jobs, receipts, memory generation | NativeBatch (compare-and-swap over several keys), job commands, replay | two protocols in one journal; random tokens and clocks replayed from the record |
| memory jobs, maintenance | `native_jobs.go` | jobs, leases, usage, tombstones | enqueue, claim, heartbeat, fail, stage1.commit, phase2.begin, phase2.commit, usage, retention, clear | stale workers, expiring leases, calls that take the lock more than once |
| legacy migration | `native_migration.go` | alias resources that freeze v1 objects | ImportLegacyMemory, ImportLegacySkill, validateLegacyAlias | read in one section, commit in another |
| memory view | `native_memory.go` | none (a snapshot per page; the cursor is the reader's) | MemoryNote, list, read, search | commits between the pages of one answer; four domains in one tree of files; a search that finds shortest windows in one pass |
| skill packages | `native_skills.go` | packages and a bundled manifest, in the journal | replace, bundled ensure, enable, delete, import, list, read | an upgrade computed outside the lock; tombstones and managed ids that outlive their bundle; readers with old revisions |
| HTTP and MCP endpoints | `native_http.go`, `http.go`, `mcp.go` | the credentials | decoding, roles, receipts | requests served while the thread is bound |
| executor | `internal/executor/` | client: mutex, last id, first failure; server: the request at hand, a command's processes, a temporary file | read, write, list, search, exec, close, over a line protocol | a transport that breaks between effect and answer; a timeout against the end of a command; who still holds the output; Close against a call in progress |
| tool gateway | `internal/toolgateway/` | none | HTTP tool calls to executor calls | an HTTP deadline shorter than the calls behind it |
| native sessions | `internal/codexnative/`, `internal/claudenative/` | the agent's process, its credential and files, a signal channel | Run: prepare, seed, open, serve, start, wait, clean up | signals at every moment, deferred calls that a signal skips, agents that stay |
| codex protocol | `internal/codexnative/session.go`, `native.go` | the outstanding call, the turn, a reader goroutine, the bound thread | initialize, two environment checks, thread/start, bind, inventory, turn/start; refusal of the server's requests | a server that answers out of order, asks under any id, blocks or dies; a startup limit |
| runtime home | `internal/runtimehome/` | a directory with a lock file and an ownership marker | Prepare, Close | it is looked at before it is locked; the lock dies before the agent does |
| deploy and install | `internal/deploy/` | versioned builds, a `current` link, the program's own file, two staged names | codex install, update, push | interrupted copies, fixed staging names, commands run twice |
| command line | `cmd/rca` | none | flags | |

The components meet in few places. Every HTTP and MCP request to the store ends
in one call under the store's mutex. A session (`Run`) claims the runtime home,
opens the store, connects the executor client and starts the agent, whose tool
calls reach the client through the gateway. Installs replace the program and the
agent a session will use next. What they share is on disk: the journal behind
its lock, the home behind its lock, the builds behind `current`.

What makes each of them correct:

* the store: a request_id is evaluated at most once and atomically; its answer
  is the journalled receipt, for ever; what the process serves is what the
  journal says; whatever the store writes it can read again (which job commands
  break, finding 1);
* migration: an imported object never differs from its copy's source;
* memory jobs: a worker that lost its lease changes nothing; an output is that
  of its job's current input; no output is forgotten by the consolidation; a
  consolidation is published only if it has seen everything (which a claim of the
  phase-2 job breaks, finding 2); maintenance never tears a pair apart nor loses a count;
* memory view: the pages of one answer are of one snapshot, complete and without
  repetition; a search finds what it is defined to find; no two files collide;
* skill packages: versions of a bundle do not mix; an upgrade leaves alone what
  installers did; a reader gets the bytes it has listed or none;
* codex protocol: no turn before the server is verified and the thread bound; no
  note under another thread; startup and session end whatever the server does;
* executor: a tool call takes effect at most once and gets its own answer; of a
  broken transport at most one call is in doubt, and none after it takes effect;
  commands do not overlap; every call and Close come back, but for the waits that
  have no limit;
* sessions and homes: an agent runs only under the locks and the marker of its
  session; signals do not leave it behind; what the operator put in the home is
  still there afterwards;
* installs: builds appear whole and never change, `current` is one of them,
  `rca` is the whole of one release, and a killed command can be run again; where two
  commands meet or a copy stops that is not so (finding 3), and nothing else is touched.

`PROJECT.json` lists the hazards line by line, with the properties that guard
each of them.

## 2. Modules

| module | stands for |
|---|---|
| `StoreSemantics` | the pure part of the store: what one request computes and changes (`evaluate`, `evaluateNative` without jobs, `validateLegacyAlias`, `apply`, `applyNative`) |
| `ReceiptStore` | abstract: a map from request_id to the one receipt |
| `JournalStore` | the store's process, its journal, failures, callers and retries; implements `ReceiptStore` |
| `MemoryJobs` | leases, outputs, consolidation, usage, retention, clear |
| `MemoryView` | list, search and read over a memory that changes |
| `SkillPackages` | installers, bundle upgrades, imports and readers of packages |
| `RemoteCalls` | abstract: what a client of the remote executor may rely on |
| `ExecutorSession` | gateway, client, transport, executor, command; implements `RemoteCalls` |
| `VersionedRoot` | abstract: builds that appear whole, and a pointer to one |
| `Deployment` | `rca codex install` and `rca update`, a system call at a time; implements `VersionedRoot` |
| `CodexSession` | the driver and its app-server, the native endpoint's roles, the end of `Run` |
| `HarnessSession` | sessions on one home and one store |
| `JournalStoreProofs`, `MemoryJobsProofs`, `MemoryViewProofs`, `SkillPackagesProofs`, `ExecutorSessionProofs`, `CodexSessionProofs`, `HarnessSessionProofs`, `DeploymentProofs` | theorems about the module of that name |
| `MCJournalStore`, `MCMemoryJobs`, `MCMemoryView`, `MCSkillPackages`, `MCExecutorSession`, `MCCodexSession`, `MCDeployment`, `MCHarnessSession` | small instances |

### StoreSemantics and JournalStore

`mem` is the four maps of `Store` (`objects`, `native`, the two receipt maps
as one function `receipts`, `sequence`); `Evaluate(mem, q)` is the result of
`evaluate` or `evaluateNative`, `Apply` the effect of a record. The journal is
`file`, a sequence of records, and `torn`, an incomplete last line. A record is
the request with its result, as in the code, and replay does what the code does:
it evaluates the request again and compares. The requests here carry no job command:
what those leave in a record is part of `MemoryJobs` (`Stored`).

| action | code |
|---|---|
| `OpenStore`, `ReplayRecord`, `RefuseTorn`, `OpenSucceeds` | `Open`, one iteration of its loop at a time (`store.go:68-165`), `replayNative`, `journalLines` |
| `Write`, `Sync`, `Finish` | `Mutate` and `NativeBatch`: append, fsync, apply and answer (`store.go:216-241`, `native.go:567-604`, `:640-661`) |
| `FailWrite`, `FailSync` | the error returns of `appendRecord`: the store is poisoned |
| `AnswerKnown`, `FailCall` | the receipt lookup, and the calls that fail without a record |
| `BeginImport` | the first section of `ImportLegacyMemory`; its batch is a request like others |
| `Close`, `Crash`, `PowerLoss` | the process ends; the file keeps everything, or everything an fsync covered and any part of the rest |

The lock file gives one process at a time (flock), so one `proc` variable is
enough. `stage` says where in the critical section the process is; nothing else
can use the store meanwhile, but it may die there. A v1 and a v2 request carry
the protocol in `proto`; a reused request_id is refused across protocols.

Abstracted: contents are model values, hashes stand for what they hash, size
and syntax limits are folded into `WellFormed`. When several changes of one
batch fail, the code reports the first in key order; the model reports one of
them by `CHOOSE`, which is deterministic, as replay needs. Notes are files of one directory,
so that `validMemoryPaths` has nothing to refuse; where it has is part of `MemoryView`.

### MemoryJobs

A `NativeBatch` is one step; `JournalStore` has shown what that step is made of.
The calls of `native_jobs.go` that take the mutex more than once are split at
each unlock, with what they have read kept in `call[c]`:

| call | sections |
|---|---|
| `MemoryStage1Commit` | `ReadOutputs`, `CommitStage1` |
| `MemoryPhase2Commit` | `ReadMemoryRevision`, `ReadSummaryRevision`, `CommitPhase2` |
| `MemoryRecordUsage` | `ReadUsage`, `CommitUsage` |
| `MemoryRetainStage1` | `ChooseStale`, `ReadStale`, `Delete` |
| `MemoryClear` | `ReadAll`, `Delete` |
| enqueue, claim, heartbeat, fail, phase2.begin, note | one step each |

A lease token is the number of its grant, so an older token is smaller;
the content of an output is the token that wrote it and the content of an
artifact the transaction that wrote it, which is what the properties compare.
A worker may use any token it was ever given, and claim any job, the phase-2 job by its id too. The clock is a counter in
seconds; an input's version number is its watermark. `Selection` is
`stage1Selection` with its whole order (usage count, last relevant time,
watermark, id). `Stored` is the JSON round trip of a job, under which an empty
map becomes nil; `journaled` says whether all records so far would pass the
comparison in `replayNative`, and `Restart` succeeds if they do. A request
that is rejected leaves only its receipt and is a step that frees the caller.
Receipts are kept for usage requests only, the one call that looks at the state
before it looks at the receipts; `JournalStore` covers the others. No rollout has the id
`global`, which `memory.stage1.enqueue` would accept (see Findings).

### MemoryView

`native` gives each resource its document, a sequence of lines; a line is the
set of terms it contains (after case folding and normalisation) and its size.
A path is a sequence of names, given by `PathOf` as `memoryPath` gives it.
`walk` is a reader: its query, what it has collected, its cursor, and `base`,
the snapshot of its first page, which only the properties look at.

| operator or action | code |
|---|---|
| `Snapshot`, `Legible` | `memorySnapshot`, `validMemoryPaths` |
| `ListAll` | the entries of `MemoryList` |
| `Flags`, `WindowEnd`, `Window`, `IsWindow`, `Windows`, `HoldsNext`, `Matches`, `SearchAll` | the scan of `MemorySearch`: bits, next occurrences, windows, the nonminimal ones dropped |
| `FirstPage`, `NextPage` | the two calls without and with a cursor (`Accepts` is `cursorStart`, `TooLarge` the match no page holds) |
| `MemoryRead` | the same, with the sequence of a page |
| `Commit` | any transaction on memory, as far as a reader can tell |

`Pick` keeps the elements of a sequence that are to be kept: a recursive function, so
that proofs can speak of it. `MCMemoryView` tabulates `MatchesOf`, which is what TLC
would otherwise compute again in every state.

A cursor is its three fields: base64 and hashes are left out. `Query` holds requests
that passed the bounds checks.

### SkillPackages

Each call is one critical section for the receipt lookup (`Begin`), one to read
(`ReadForReplace`, `ReadForChange`, `ReadForEnsure`, `ReadForImport`) and one for
`NativeBatch` (`Submit`); `call[c]` is what the goroutine holds in between, the batch
in particular. `SkillPackageRead` is an operator, for it changes nothing; `List`
keeps what a reader has seen. The files of a package are one value, hashed and
compared as a whole. `batch` in a receipt is the journalled request.

### RemoteCalls and ExecutorSession

| action | code |
|---|---|
| `Arrive`, `Deliver` | the HTTP handler of the gateway: the body limit, and the response under the server's write deadline (`http.go:33`, `run.go:112`) |
| `FailFast`, `SendRequest`, `FailSend`, `Receive`, `FailReceive` | `Client.Call` under its mutex, with `die` (`client.go:76-121`) |
| `BeginClose`, `CloseClient`, `ReapTransport` | the session ends; `Client.Close`, which keeps the mutex while it waits for the transport program |
| `ServeRead`, `RefuseRequest`, `Reply`, `EndServe` | the loop of `Serve` and its ends (`proto.go`) |
| `BlockRead` | a read of a FIFO in the root, which does not come back (`server.go:208`) |
| `StartWrite`, `RenameWrite`, `FailWrite` | `writeFile`: a temporary file, renamed |
| `StartCommand`, `Expire`, `CommandOver` | `run`: the process group, the timeout, the wait |
| `Fork`, `ProcessExits`, `Tick`, `CutTransport`, `KillServer`, `PrintGarbage` | the environment |
| `Stall` | the transport carries nothing any more, or again; it is not cut |
| `IgnoreSigterm`, `TransportExits` | a transport program that SIGTERM does not end (`client.go:69`) |

`tree` says which processes of a command still hold its output: its leader, a
descendant in its group, or one that left it with setsid. `mu` is the set of
calls inside the mutex, so that a client without one can be written down.
A content is named by the call that wrote it, which lets `RemoteCalls` say that
a read returns the file as it was at one moment. Version, list and search behave
like `read` here; path resolution and the truncation of outputs are left out.
Time passes only while a command runs or something hangs.

### VersionedRoot and Deployment

| action | code |
|---|---|
| `Stage` | copy, extract or download to a temporary directory, and verify (`codexpkg.go`, `InstallCodex` up to the root) |
| `Stat`, `Move` | `os.Stat` of the target, `os.Rename` to it |
| `MakeDirectory`, `OpenFile`, `WriteFile` | `copyTree` when the rename fails: across devices, or onto a directory that has appeared meanwhile |
| `RemoveStaged`, `Symlink`, `RenameLink`, `RemoveFailed` | `replaceSymlink` |
| `Obtain`, `OpenIncoming`, `WriteIncoming`, `RenameProgram` | `selfUpdateAt` |
| `StopInstall`, `StopUpdate` | a call fails, or the command is killed, between any two of them |

A content is the set of packages (or releases) whose bytes were written since
the file was truncated: one of them is a whole file, none a part of one, two a
mixture. Updates write to inodes, for a rename leaves the running inode alone, and `ran`
remembers the inodes that programs may still be running.

Nothing in the code keeps two commands apart, and nothing in the model does: two installs
of one build may both find none and copy it over one another, and a copy may stop at any
file. `disturbed` remembers the builds to which that happened, `shared` the staged binaries
that were opened while another update was between its open and its rename. The
properties speak of all others, so that they say how far the damage goes.

### CodexSession

| action | code |
|---|---|
| `DriverSends`, `DriverTakes`, `DriverRefuses`, `DriverInitialized`, `DriverFails` | `call`, `next` and `handle` of `driveNativeSession`; `Expected` is what each call goes on with |
| `Reader` | the goroutine that scans, with one message in its hand; a line it cannot decode ends it |
| `StartupExpires` | the 30 s context |
| `DriverBinds`, `HttpBegins`, `HttpEnds` | `bind` and the handler of `nativeService`, with their lock; `Admits` is the role switch of `NativeHTTPHandler` |
| `SessionDone`, `Interrupted`, `Reap`, `Close` | the select of `Run` and its deferred calls |
| `Server...` | the app-server, not in this repository: it reads, answers in any order what it can truthfully say, asks, completes, dies |

Both pipes hold `PipeMax` messages and block. Driver and server name requests
independently, so that a server's id may be that of the driver's next call.
`HarnessSession` has the same `Run` seen from outside: its locks and signals.

### HarnessSession

| action | code |
|---|---|
| `ReadHome`, `LockHome`, `MarkHome` | `runtimehome.Prepare`: it looks, locks, and writes the marker |
| `StatCredential`, `SeedCredential` | `seedCredentials` (claude only) |
| `OpenStore`, `Serve`, `Notify`, `StartHarness` | the rest of `Run` up to `cmd.Start` |
| `HarnessDone`, `CatchSignal`, `ServerStops` | the three cases of the select |
| `AwaitHarness` | what follows it; codex kills its agent after three seconds, claude waits for it |
| `StopNotify`, `ClientCloses`, `CloseStore`, `RemoveCredential`, `Unlock` | the deferred calls, in their order; claude's `Client.Close` may hang |
| `FailStartup` | an error return; what was deferred so far is done |
| `Terminate`, `Kill` | SIGINT or SIGTERM, caught or not; SIGKILL or SIGHUP |
| `HarnessExits`, `OrphanExits`, `OperatorLogsIn` | the environment |

A signal that is not caught, and a kill, end the process with its deferred calls
undone; the kernel drops its locks, and the agent goes on (`orphan`). The operator, or the
agent, may write the credential at any time: while a session holds the home it is `late`,
and counts as the operator's once the home is free.

## 3. Runs

| run | instance | shows |
|---|---|---|
| `journal` | 3 request ids, 1 object, 1 note, both protocols, an import, 3 records | replay and apply agree under crashes and failed writes and fsyncs; no lost update; imports are exact; `JournalStore` implements `ReceiptStore`: one stable receipt per request |
| `journal_power_loss` | 2 records, power loss, fair | an answer that an fsync has covered stands for ever, whatever suffix is lost, and a retried request is resolved in the end |
| `memory_jobs` | 2 concurrent calls, 3 leases; 1 rollout with 2 inputs, a note, consolidations, the phase-2 job claimed by its id, restarts; or 2 rollouts with 2 overlapping usage requests, retention and a clear (`Followed`) | fencing, outputs match inputs, pairs stay pairs, no lost wakeup, no lost usage, old workers fenced by a clear, consolidations fresh unless claimed |
| `memory_view` | every document of up to 4 lines over 2 terms, 3 more files of which two collide; 2 lists and 4 searches; a page of 5 bytes; a commit; fair | pages of one snapshot, searches as defined, unambiguous files, walks that end |
| `skill_packages` | 2 packages; 3 bundle versions, 2 installers, an import, a malformed package; 2 calls at once, restarts, 3 records | readers, bundles and upgrades |
| `executor_session` | a read, a write and a command at once; all eight faults: the transport cut, stalled or deaf to SIGTERM, garbage, kills, a FIFO, a detached process, Close; fair | one effect, one answer, one call in doubt; calls and Close return unless they are held |
| `codex_session` | pipes of one message, a server request under the id of turn/start, a native request at a time; deaths, signals, timeouts; fair | verified turns, authors of writes, refusals, startup and session end |
| `harness_session` | 2 claude sessions and a codex session on one home; signals, kills, a Close that hangs; fair | an agent runs under its session's locks and marker; signals leave none behind; a credential that was there at the start survives; a caught signal ends the session |
| `deployment` | 2 installs, one across devices, 3 packages (two of one build) and a bad one; or 2 updates between 2 releases (`Beside`) | builds appear whole and stay, `current` is one of them (`VersionedRoot`); `rca` is whole; both but for the files at which commands meet |
| `memory_restart` | **violated** | finding 1 |
| `memory_global_claim` | **violated** | finding 2 |
| `deployment_copy` | **violated** | finding 3 |

Every passing run terminates within about three minutes; together they take every
action and every disjunct of the next-state relations.

Why the bounds are enough. The journal's hazards are between two requests that
share a key or an id and one failure: three records and revisions to 2 hold
every such combination, with the third to show what later requests make of it.
The jobs' hazards need a lease taken over (two tokens of one job), a begin, and
a commit in between: two or three grants and a clock of two or three ticks.
Two concurrent calls are the most that can conflict over one pair.
`Followed` keeps the two halves of that run apart: what usage, retention and clear can
meet is a worker's commit, for which an input and two grants suffice, and consolidations are
about inputs, notes and leases. `MaxClears = 1`: a clear forgets every job, so a second meets the state the
first one met. The executor handles one request at a time, so a call can
be disturbed by the one before it and the one behind it: three calls, one of
each kind; timeouts and lines are scaled down in proportion. Two installs compete for one
link, and a third would meet it in a state one of the two can leave; two packages of one
build are a rebuild. Installs and updates share no file and no variable, so `Beside` follows
the ones beside an `rca` that was never updated and the others beside an empty root.
One home is held by one session, contended by a second of its engine and one of
the other. A window that is wrongly kept or dropped depends on two neighbouring
windows, and a window of two terms begins and ends with a line of one of them:
four lines give each position of two windows, and 5 bytes a page that is full,
exactly full and too small. One commit expires a cursor as well as many.
Three records of packages are an upgrade, a change and another upgrade, in any
order, with two calls open at any moment. A full pipe is a pipe of one message: what
matters is who waits for whom. One native request at a time suffices for
a bind that waits for it; a second would be admitted by the same condition.

What the passing runs assume, each by a named constant or guard:

* `RetryResolves`: the journal has no torn line, which `Open` refuses;
* `NoLostWakeup` and `FreshUnlessClaimed`: unless the phase-2 job was claimed by its id
  since the begin in question (`ClaimedSince`, finding 2); and no rollout is named `global`;
* `ProgramIsWhole` and `ImplementsVersionedRoot`: for files at which no two commands met
  and, of builds, no copy stopped (`shared`, `disturbed`; finding 3);
* `OperatorKeepsCredential`: for a credential that was there when no session held the
  home; one written later may be overwritten or removed (`credentials.go:41`, `:53`);
* `EveryCallReturns`, `CloseReturns`: for behaviours that are not held for ever, or again
  and again, by one of the waits without a limit (`Held`): a transport that stalls, a read
  of a FIFO, a detached process, a transport program that ignores SIGTERM;
* `SignalEndsSession`: except a claude session whose agent does not care for the signal,
  or whose `Client.Close` hangs for one of these reasons;
* `WalkEnds` with a bounded number of commits: a reader behind an endless stream
  of commits starts again each time;
* `codex_session`: the app-server reads its input (see Fairness).

Deadlock checking is off where the system may stop: in the `MemoryJobs` runs,
when the bound on grants is reached and the clock has stopped, in
`executor_session`, when every call has been answered or the transport is
gone and nothing is left to do, and in `codex_session`, when the session is over.

### Fairness

* `journal_power_loss`: weak fairness of the steps of `Open`, of the fsync and
  of the answer (a running process goes on), of each caller's retry
  (`store.go:68-70` tells callers to retry with the same request_id), and of the
  restart of a store that reports itself unavailable. `RetryResolves` is about
  behaviours in which failures cease and the journal has no torn line, which
  only an operator can repair.
* `executor_session`: weak fairness of each handler, of Close, of the executor
  and of the clock: two running programs. No fairness makes a command end; the
  timeout has to. None makes a stalled transport carry again, a blocked read come back or a
  deaf transport program exit: the code puts no limit to these (`Held`).
* `harness_session`: weak fairness of the steps a session takes without waiting for
  anybody, once it catches signals: looking at a signal, killing a codex agent, the deferred
  calls. None makes an agent exit, the HTTP server stop, the driver return or a hung
  `Client.Close` come back, so nothing but the signal ends a session in `SignalEndsSession`.
* `memory_view`: weak fairness of the next page: a reader that has a cursor uses it.
* `codex_session`: weak fairness of the driver, the reader goroutine, the startup
  timer, requests being served and the steps of `Run`. Of the server only that it reads
  its input: it may answer nothing, and it need not die when it is told to, for
  `Run` kills it. Were its input full, `Encode` would block, which no context
  interrupts (`session.go:149`).

The other runs assume no fairness.

### Findings

1. **An empty selection closes the store** (`memory_restart`). `phase2.begin`
   without a selectable output writes a record that replay refuses, because an
   empty map comes back from JSON as nil (`native.go:88`, `:692`).
2. **A claim makes a stale consolidation current** (`memory_global_claim`).
   `memory.job.claim` accepts the phase-2 job, renews its generation and keeps its
   transaction: the consolidation of an expired begin can then be committed over newer
   notes (`native.go:402`, against `protocol.md:81`).
3. **A partial build becomes the current one** (`deployment_copy`,
   `codexpkg.go:118-124`): a copy that is interrupted leaves a target that the next install
   takes for an installed build. The same lines let two installs of one build copy over each
   other, on one device too, because `os.Rename` replaces no directory: the second truncates
   the files of a build that may be current already.

`PROJECT.json` quotes the line each of them contradicts. Seen while modelling,
and not given a run:

* after a failed fsync the record is in the file; `Open` replays it, syncs only
  the directory (`store.go:155`), and a retry is answered from it, though a power
  loss can still take it away (against `prototype.md:75`); `DurableAnswersStand` is
  what remains true: once an fsync has covered the record, the answer stands;
* a note created between the two sections of `MemoryClear` survives it
  (`native_jobs.go:146`);
* a usage request that was committed and is retried after its memory has changed
  is refused, not answered (`native_jobs.go:122`, against `prototype.md:73`);
* a descendant that called setsid outlives the timeout and holds the session
  (`server.go:384`, against `proto.go:51`);
* the schema allows 8 MiB of content, the HTTP body 2 (`gateway.go:81`,
  `http.go:33`);
* two updates at once share `rca.incoming`: one may rename it while the other has just
  truncated it, so that `rca` is a part of a binary, and goes on writing to a file that
  runs (`selfupdate.go:64`, against `:14-17` and `:61-63`); in the model these are the inodes
  of `shared`;
* an install may report a build, or fail, while `current` names that of another
  (`codexpkg.go:326`, against `:83-84`);
* a session that dies between the lock file and the marker leaves a home that
  every later session refuses (`runtimehome.go:44`); as Prepare looks before it
  locks, two engines may mark one home one after the other;
* after one signal a claude session that waits for its agent looks at no further
  signal;
* `memory.stage1.enqueue` accepts a job called `global`: it is then a stage-1 job, and no
  consolidation can begin (`native.go:356`, `:449`);
* `Client.Call` has no deadline: a transport that stalls without being cut holds the call,
  its mutex, every later call and Close, and so does a read of a FIFO in the root, for
  `Server.read` turns only directories away (`client.go:93`, `server.go:202-208`); Close also
  waits for a transport program that ignores SIGTERM (`client.go:69`);
* a credential that is written between `os.Stat` and `os.WriteFile` is overwritten, and one
  that replaces the seeded one is removed with it (`credentials.go:41-53`);
* the HTTP server of a claude session drops responses after 30 s, a quarter of the
  default timeout of a command (`run.go:112`, `gateway.go:101`);
* Ctrl-C during the handshake leaves the seeded credential behind, which the next
  session takes for the operator's (`run.go:139`, against `credentials.go:31-32`);
* retention chooses stale rollouts in one section and deletes them in another: an
  output used in between goes too (`native_jobs.go:195`); and a store of more than
  1023 live memory resources cannot be cleared (`native_jobs.go:154`);
* skills: a bundled package that its installer deleted comes back with the next
  bundle that has it, and if that bundle drops it instead, every ensure fails with
  `authority_mismatch` from then on (`native_skills.go:227`); a deleted package cannot
  be replaced again by its id; a tombstone of a bundle may be taken over by another
  installer's ensure; an ensure that lost a race is answered `revision_conflict`
  under its request_id for good, so a launcher whose request_id is that of its version
  never installs it; a downgrade to a version whose request_id has a receipt changes
  nothing; a retry that overlaps its own first attempt may be told `snapshot_expired`
  though that attempt commits;
* memory view: an oversized match ends every walk that reaches it, so that the
  matches behind it cannot be had with this query (`native_memory.go:462`); what lies
  beyond the first 32 KiB of a line cannot be read;
* codex: any `turn/completed` counts as the end of the turn (`session.go:119-133`),
  whichever turn it names.

## 4. Proofs

### The store

`JournalStoreProofs` proves for all values of the constants (any sets of ids,
objects, notes, contents and requests, any bound) that `Spec` implies `TypeOK`,
`MemoryMatchesJournal`, `NeverInconsistent`, `TornLineIsLast`, `NoLostUpdate`,
`ImportIsExact` and `DurableAnswersStand`, and without
power loss that it implements `ReceiptStore`. The requests are those without job commands;
of `NeverInconsistent` this matters, for a job command can write a record that replay
refuses (finding 1). The assumptions are
`SemanticsAssumption` and `JournalAssumption`, which every run evaluates.

The argument. `MemoryMatchesJournal` speaks of `hist`, the states the journal's
prefixes make, but is not inductive: that replay can accept the next record must
come from how that record was written. The inductive invariant `JournalInv` adds
`HistoryInv`: each record is `NewRecord` of the state before it, its id was fresh
there, and applying it gives the next state; and `ProcessInv`: where the process
is (`stage`, `poisoned`, `pos`) determines how much of the journal `mem`
has seen. With it, `ReplayRecord` never refuses, an append extends the
history consistently, and cutting the file to any prefix (power loss) keeps it.
For the refinement, `Write` is the abstract commit, `Finish` and `AnswerKnown`
the abstract answer, everything else stutters; that a power loss would undo a
commit is why the theorem assumes there is none.

`NoLostUpdate` needs no more than counting: `RevisionsCount` says that in every
state of `hist` the revision of a key is the number of commits the journal had
made on it by then. An append adds one commit to the keys it touches, and
evaluation made it only if the expected revision was that number; a power loss
leaves a prefix of both, about which the claim was already made. `ImportIsExact`
holds in every state of `hist`: an alias is written only by an import whose
source has the revision it names, and from then on neither a v1 request changes
the object (it is frozen) nor a batch the alias.

`DurableAnswersStand`, power losses included, needs `ReceiptsInv`: in every state
of `hist` the receipt of a request_id is a record of the journal before that state,
and every such record is the receipt of its own id. An append keeps it because the
id was fresh, a power loss because it leaves a prefix. A record behind `synced` is
never cut off, so an answer made of it is what every later lookup finds.

### Memory jobs

`MemoryJobsProofs` proves, for any rollouts, inputs, notes, callers, leases and
policies, every invariant and action property of the run `memory_jobs`: `TypeOK`,
`PairsMoveTogether`, `OutputMatchesInput`, `NoLostUsage`, `OutputsNeverRegress`,
`ClearFencesWorkers`, `NoLostWakeup` and `FreshUnlessClaimed`, with claims of the phase-2 job
allowed. What the last two except is only a consolidation whose job was claimed by its id
after its begin; that it must be excepted is finding 2.

None of them is inductive, because a request works in two sections: what it read in
the first is written in the second. `MemoryInv` therefore says

* of each lease (`JobFits`): to whom and for which input it was granted, and that
  every output of its rollout and every clear is older. This is what fences:
  a worker's commit is accepted only with the token of the job, so what it writes
  is newer than what is there, and no clear has come in between;
* of each request between its sections (`CallFits`): the pair it will write is whole,
  is the pair of its own job, and if it read that nothing was there, then nothing is
  there as long as it holds the lease; the counts it has read are those of the
  revisions it expects;
* of each count of uses (`UsageInv`): it is the number of accepted requests that name the
  rollout. A request is accepted only if all revisions are as it read them, and then
  the counts are too.

`ConsolidationInv` adds that the transaction of the phase-2 job began at the
generation the job carries, unless the job has been claimed since. A begin sets both, an
output that comes later leaves the job's generation behind the store's and its commit is
refused. A claim renews the generation alone, and is remembered by its token, which is newer
than the transaction and stays so (`ClaimsStay`): from then on `ClaimedSince` holds of that
transaction, and of what it publishes, for good.

### Memory view

`MemoryViewProofs` proves, for any resources, documents, queries and page size, the
three invariants `TypeOK`, `SearchFindsMinimalWindows` and `WalkIsOneSnapshot`, from
`ViewAssumption`. These are about what recursions over sequences compute, so two things
come first. Induction: `LeastElement`, that a set of numbers has a least
element, from the well-foundedness of the finite sets of numbers; a claim about
all prefixes holds because there is no shortest counterexample. And `PickIs`: what `Pick`
returns is the kept elements, all of them, in their order. It is the only recursion of
windows, matches and sorted paths.

*The scan.* `WindowIs`: the scan backwards ends the window of line i with the first line
by which every term has occurred. Ends are therefore in the order of the first lines
(`EndsAreOrdered`), so a window holds another one just if it holds the next one that is
kept, which is all the code compares (`HoldsNextIs`). A minimal window is kept
(`HitBegins`): a later one inside it would cover the terms without its first line. One
that holds no later one is minimal (`BeginsHit`): if lines a+1 to b had all the
terms too, the last line from which they have them would begin a window that ends by b,
and that one would be kept.

*The walk.* `WalkInv`: what a reader has is a prefix of the answer its first page was cut
from, its cursor says how long the prefix is, and as long as the journal has no record
more than when the cursor was made, that answer is of the memory as it is. A commit leaves the
last claim empty; a page extends the prefix by what `Taken` lets it (`PrefixGrows`).

### Skill packages

`SkillPackagesProofs` proves, for any packages, bundles, installers, callers and
readers, `TypeOK`, `ReadsMatchListing`, `BundlesDoNotMix` and
`UpgradeSparesInstallers`. `ListingInv`: a listed revision is in the past, and if it is
the current one its value is too, so that a read under it can only be of it.
The upgrades need a statement about reads that are not serialised with their
commits: `BatchFits` says what the batch of an open ensure still knows, for each
package whose revision has not moved since it was read, and for all of them if the
manifest has not moved. A commit requires all of these revisions, so a batch that is
accepted is one that would be computed now. `UpgradesInv` ties
receipts to the store: the upgrade behind the manifest, and what upgrades wrote, are
of one bundle, and nothing that is managed was first written by anyone else.

### The executor

`ExecutorSessionProofs` proves for any calls, sizes, timeouts and faults that
`ExecutorSession` implements `RemoteCalls`, and that the client gives its
transport up only after a fault (`DeadOnlyByFault`), provided that
`BodyLimit * Growth <= LineLimit`: a body that the gateway accepts makes a line the
executor's scanner accepts, which the code's limits satisfy.
`SessionInv` says where a request can be. `ClientInv`: one call at most is
inside the mutex, none once the transport was found broken. `FlightInv`: there is one
request at most, that of the call inside or of the one that found the break; it is in
the pipe, at the executor or, as a reply, on its way back, and what it has
done so far follows from where it is. So the reply that is read is the caller's own, an
effect happens before its answer and once, and after a failure nothing is
left that could take effect but the request in doubt. The refinement maps the
executor's rename, its start of a command and its error replies to the abstract
effect, the client's return to the answer, and all else to a stutter.

### Sessions

`HarnessSessionProofs` proves for any number of sessions, engines and faults
that `Spec` implies `TypeOK`, `HarnessOwnsItsHome`, `SignalsLeaveNoOrphan` and
`OperatorKeepsCredential`, from `SessionAssumption`. None of the three is
inductive: each speaks of an agent or a file and depends on where the sessions
are. (`TypeOK`, being proved, is not checked by a run as well.) `SessionInv` adds
that: `LockInv`, `StoreInv` and `MarkInv` (between which
two steps a session holds each lock and the marker is its own), `HarnessInv` (an
agent lives only between start and wait) and `CredentialInv` (while a session is about to
seed, or will remove what it has seeded, it holds the home and the credential is not one that
was there before: absent, seeded, or written late).
Every action keeps it, in particular a death at any point.

### The codex protocol

`CodexSessionProofs` proves `TurnIsVerified` and `WritesHaveTheirAuthor` for any
pipe, any ids of the server and any number of native requests, from
`CodexAssumption`. `TurnIsVerified` speaks of the server, but what makes it true is
what the driver knows: `SessionInv` follows each answer from the server through the
pipe and the reader into the driver. A response in flight tells what is so
(a server without a local environment never says otherwise), a driver that
is past a call has seen an answer it accepts (`PassedInv`), turn/start is in at most
one place (`OnceInv`), so a turn runs only when the driver is at its last call, and
`ResultInv` follows the end of the turn back to `Run`. `AuthorInv` adds that
a request being served was admitted: a note only when the thread is bound, and
binding waits for the requests being served.

### Deployment

`DeploymentProofs` proves for any installers, packages, builds and updates, with nothing
assumed of how they meet or stop, that installs implement `VersionedRoot`, that `current`
names no incomplete build but a disturbed one (`UndisturbedIsComplete`), and `ProgramIsWhole`.
`RootInv` follows a command through its system calls: a build that is not disturbed is
absent, whole, or the one a single command is copying, and then it holds exactly what that
command has written (`Partial`); whoever is to move the link has a whole build or a disturbed
one. A build is disturbed by the step that would break this: the `os.Stat` by which a second
command joins one that is placing the build, and the end of a copy before its time. The
refinement shows a disturbed build as `Spoiled`, of which `VersionedRoot` asks nothing more.
For updates, `incoming` is never an inode that has run, and what is known of its content
(empty, or the one release its writer has written) is known of the inodes outside `shared`
only: between its open and its rename nobody else writes to it.

### Only model-checked

* liveness: `RetryResolves`, `WalkEnds`, the ends of calls, sessions and startup:
  beyond the prover, as is fairness;
* what the three runs that expect a violation show.

## 5. Not modelled, and the plan

Planned: `push` of `deploy.go`, that is, staging, `chmod` and `mv` on the other side,
and the handshake afterwards.

Of modelled code, `MemoryJobs.Enqueue` leaves out a rollout that is called `global`, and
`JournalStore` the path conflicts of a batch of notes (`memory_path_conflict`), as said above.

Left out for good:

* the MCP endpoint (`mcp.go`, `http.go`): over HTTP each request is a session of its
  own that is initialised already, and ends in at most one call of the store or the
  gateway, which `JournalStore` and `ExecutorSession` have;
* HTTP decoding, status codes, the text of configuration files, the audit of a
  claude configuration, flag parsing, build scripts: no state of the program's own;
* path resolution, search limits and truncation in the executor.

Hazards no property covers, each possible in the models: those listed under "seen
while modelling" above.
