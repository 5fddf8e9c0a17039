------------------------- MODULE JournalStoreProofs -------------------------
(***************************************************************************)
(* JournalStore, for every set of requests, every bound and every number   *)
(* of failures: its types, the agreement of replay and apply, that Open    *)
(* never refuses a journal the store has written, and that the store       *)
(* implements ReceiptStore when written lines do not disappear.            *)
(***************************************************************************)
EXTENDS JournalStore, FiniteSetTheorems, TLAPS

-----------------------------------------------------------------------------
(* What Evaluate and Apply return, the pure part of the store. *)

(* Requests that callers or ImportLegacyMemory make are requests of one of *)
(* the two protocols.                                                      *)
LEMMA RequestType == Request \subseteq V1Request \cup V2Request
<1>1. Requests \subseteq V1Request \cup V2Request
  BY SemanticsAssumption DEF WellFormed
<1>2. ASSUME NEW i \in Id, NEW o \in Object, NEW n \in Note, NEW x \in LiveObject
      PROVE  ImportRequest(i, o, n, x) \in V2Request
  <2> DEFINE D == {n, o}
             r == x.rev
             c == x.content
             f == ImportRequest(i, o, n, x).changes
  <2>0. r \in Revision /\ c \in Payload
    BY DEF LiveObject
  <2> HIDE DEF r, c
  <2>1. D \in SUBSET NativeKey
    BY DEF NativeKey
  <2>2. f \in [D -> Change]
    <3>1. f = [k \in D |-> [exp |-> 0, deleted |-> FALSE,
                            content |-> IF k = n THEN c
                                        ELSE [revision |-> r, source |-> c,
                                              target |-> n]]]
      BY DEF ImportRequest, r, c
    <3>2. 0 \in Revision
      BY SemanticsAssumption DEF Revision
    <3>3. \A k \in D : (IF k = n THEN c ELSE [revision |-> r, source |-> c,
                                               target |-> n]) \in NativePayload
      BY <2>0 DEF NativePayload, Alias
    <3>4. \A k \in D : [exp |-> 0, deleted |-> FALSE,
                        content |-> IF k = n THEN c
                                    ELSE [revision |-> r, source |-> c,
                                          target |-> n]] \in Change
      BY <3>2, <3>3 DEF Change
    <3> HIDE DEF D
    <3> QED
      BY <3>1, <3>4
  <2>3. f \in UNION {[E -> Change] : E \in SUBSET NativeKey}
    BY <2>1, <2>2
  <2>4. ImportRequest(i, o, n, x) =
          [proto |-> "v2", id |-> i, op |-> ImportOp, intent |-> NoIntent, changes |-> f]
    BY DEF ImportRequest
  <2> DEFINE U == UNION {[E -> Change] : E \in SUBSET NativeKey}
  <2>5. V2Request = [proto: {"v2"}, id: Id, op: Operation,
                     intent: Intent \cup {NoIntent}, changes: U]
    BY DEF V2Request
  <2>6. f \in U
    BY <2>3
  <2>7. ImportOp \in Operation
    BY SemanticsAssumption
  <2>8. i \in Id /\ NoIntent \in Intent \cup {NoIntent}
    OBVIOUS
  <2> HIDE DEF f, U
  <2>9. [proto |-> "v2", id |-> i, op |-> ImportOp, intent |-> NoIntent, changes |-> f]
           \in V2Request
    BY <2>5, <2>6, <2>7, <2>8
  <2> QED
    BY <2>4, <2>9
<1>3. ImportRequests \subseteq V2Request
  <2> SUFFICES ASSUME NEW q \in ImportRequests
               PROVE  q \in V2Request
    OBVIOUS
  <2>1. PICK i \in Id, o \in Object, n \in Note, x \in LiveObject :
           q = ImportRequest(i, o, n, x)
    BY DEF ImportRequests
  <2> QED
    BY <1>2, <2>1
<1> QED
  BY <1>1, <1>3 DEF Request

(* Evaluate computes a result of the declared type; a v1 commit advances   *)
(* the revision without leaving the range of a uint64.                     *)
LEMMA EvaluateType ==
  ASSUME NEW m \in State, NEW q \in Request
  PROVE  Evaluate(m, q) \in Result
<1>1. CASE q.proto = "v1"
  <2>1. q \in V1Request
    BY <1>1, RequestType DEF V1Request, V2Request
  <2>2. q.obj \in Object /\ q.content \in Payload
    BY <2>1 DEF V1Request
  <2>3. m.objects[q.obj] \in ResourceOf(Payload)
    BY <2>2 DEF State
  <2> DEFINE old == m.objects[q.obj]
             error ==
               IF Live(m.native[q.obj])                THEN "migrated_read_only"
               ELSE IF old.rev # q.exp                 THEN "revision_conflict"
               ELSE IF q.op = "delete" /\ ~Live(old)   THEN "not_found"
               ELSE IF old.rev = MaxRevision           THEN "revision_exhausted"
               ELSE ""
             object == IF error # "" THEN old
                       ELSE [rev     |-> old.rev + 1,
                             deleted |-> q.op = "delete",
                             content |-> q.content]
  <2>4. Evaluate(m, q) = [error |-> error, object |-> object]
    BY <1>1 DEF Evaluate, EvaluateV1
  <2>5. error \in Error
    BY DEF Error
  <2>6. object \in ResourceOf(Payload)
    <3>1. CASE error # ""
      BY <3>1, <2>3
    <3>2. CASE error = ""
      <4>1. old.rev # MaxRevision
        BY <3>2
      <4>2. old.rev + 1 \in Revision
        BY <2>3, <4>1, SemanticsAssumption DEF ResourceOf, Revision
      <4>3. object = [rev |-> old.rev + 1, deleted |-> q.op = "delete",
                      content |-> q.content]
        BY <3>2
      <4> HIDE DEF object
      <4> QED
        BY <4>2, <4>3, <2>2 DEF ResourceOf
    <3> QED
      BY <3>1, <3>2
  <2> HIDE DEF error, object
  <2> QED
    BY <2>4, <2>5, <2>6 DEF Result
<1>2. CASE q.proto # "v1"
  <2> DEFINE aliasFaults == {AliasFault(m, q, o) :
                               o \in Object \cap DOMAIN q.changes} \ {""}
             changeFaults == {ChangeFault(m.native[k], q.changes[k]) :
                               k \in DOMAIN q.changes} \ {""}
             e == IF aliasFaults # {}       THEN CHOOSE e \in aliasFaults : TRUE
                  ELSE IF changeFaults # {} THEN CHOOSE e \in changeFaults : TRUE
                  ELSE ""
  <2>1. aliasFaults \subseteq Error
    BY DEF AliasFault, Error
  <2>2. changeFaults \subseteq Error
    BY DEF ChangeFault, Error
  <2>3. "" \in Error
    BY DEF Error
  <2>4. e \in Error
    BY <2>1, <2>2, <2>3
  <2>5. Absent \in ResourceOf(Payload)
    BY SemanticsAssumption DEF Absent, ResourceOf, Revision, Payload
  <2>6. Evaluate(m, q) = [error |-> e, object |-> Absent]
    BY <1>2 DEF Evaluate, EvaluateV2
  <2> HIDE DEF e
  <2> QED
    BY <2>4, <2>5, <2>6 DEF Result
<1> QED
  BY <1>1, <1>2

(* The record made of a request is a record. *)
LEMMA NewRecordType ==
  ASSUME NEW m \in State, NEW q \in Request
  PROVE  NewRecord(m, q) \in Record
BY EvaluateType DEF NewRecord, Record, State

(* A batch that Evaluate accepts writes only revisions that exist: each    *)
(* change names the current one, and that one is not the last.             *)
LEMMA AcceptedChanges ==
  ASSUME NEW m \in State, NEW q \in Request, q.proto # "v1",
         Evaluate(m, q).error = "",
         NEW k \in DOMAIN q.changes
  PROVE  /\ q.changes[k].exp = m.native[k].rev
         /\ q.changes[k].exp # MaxRevision
<1> DEFINE aliasFaults == {AliasFault(m, q, o) :
                             o \in Object \cap DOMAIN q.changes} \ {""}
           changeFaults == {ChangeFault(m.native[j], q.changes[j]) :
                             j \in DOMAIN q.changes} \ {""}
           e == IF aliasFaults # {}       THEN CHOOSE e \in aliasFaults : TRUE
                ELSE IF changeFaults # {} THEN CHOOSE e \in changeFaults : TRUE
                ELSE ""
<1>1. e = ""
  BY DEF Evaluate, EvaluateV2
<1>2. changeFaults = {}
  <2>1. aliasFaults = {}
    <3>1. aliasFaults # {} => (CHOOSE x \in aliasFaults : TRUE) \in aliasFaults
      OBVIOUS
    <3> QED
      BY <3>1, <1>1
  <2>2. changeFaults # {} => (CHOOSE x \in changeFaults : TRUE) \in changeFaults
    OBVIOUS
  <2> QED
    BY <2>1, <2>2, <1>1
<1>3. ChangeFault(m.native[k], q.changes[k]) = ""
  BY <1>2
<1> QED
  BY <1>3 DEF ChangeFault

(* A batch that Evaluate accepts writes no alias that validateLegacyAlias  *)
(* finds fault with.                                                       *)
LEMMA AcceptedAlias ==
  ASSUME NEW m, NEW q, q.proto # "v1", Evaluate(m, q).error = "",
         NEW o \in Object \cap DOMAIN q.changes
  PROVE  AliasFault(m, q, o) = ""
<1> DEFINE aliasFaults == {AliasFault(m, q, p) :
                             p \in Object \cap DOMAIN q.changes} \ {""}
           changeFaults == {ChangeFault(m.native[j], q.changes[j]) :
                             j \in DOMAIN q.changes} \ {""}
           e == IF aliasFaults # {}       THEN CHOOSE e \in aliasFaults : TRUE
                ELSE IF changeFaults # {} THEN CHOOSE e \in changeFaults : TRUE
                ELSE ""
<1>1. e = ""
  BY DEF Evaluate, EvaluateV2
<1>2. aliasFaults # {} => (CHOOSE x \in aliasFaults : TRUE) \in aliasFaults
  OBVIOUS
<1>3. aliasFaults = {}
  BY <1>1, <1>2
<1> QED
  BY <1>3

(* Applying a record whose result is what Evaluate computes again gives a  *)
(* state: the step of both Finish and replay.                              *)
LEMMA ApplyType ==
  ASSUME NEW m \in State, NEW r \in Record, r.result = Evaluate(m, r.req)
  PROVE  Apply(m, r) \in State
<1> DEFINE q == r.req
<1>1. q \in Request /\ r.result \in Result /\ r.sequence \in Nat
  BY DEF Record
<1>2. q \in V1Request \cup V2Request
  BY <1>1, RequestType
<1>3. q.id \in Id
  BY <1>2 DEF V1Request, V2Request
<1>4. Apply(m, r).objects \in [Object -> ResourceOf(Payload)]
  <2>1. r.result.object \in ResourceOf(Payload)
    BY <1>1 DEF Result
  <2>2. m.objects \in [Object -> ResourceOf(Payload)]
    BY DEF State
  <2> QED
    BY <2>1, <2>2 DEF Apply
<1>5. Apply(m, r).native \in [NativeKey -> ResourceOf(NativePayload)]
  <2>1. m.native \in [NativeKey -> ResourceOf(NativePayload)]
    BY DEF State
  <2>2. CASE q.proto = "v2" /\ Committed(r)
    <3>1. PICK D \in SUBSET NativeKey : q.changes \in [D -> Change]
      BY <2>2, <1>2 DEF V1Request, V2Request
    <3>2. ASSUME NEW k \in DOMAIN q.changes
          PROVE  [rev |-> q.changes[k].exp + 1, deleted |-> q.changes[k].deleted,
                  content |-> q.changes[k].content] \in ResourceOf(NativePayload)
      <4>1. q.changes[k] \in Change
        BY <3>1, <3>2
      <4>2. q.changes[k].exp # MaxRevision
        BY <1>1, <2>2, <3>2, AcceptedChanges DEF Committed
      <4>3. q.changes[k].exp + 1 \in Revision
        BY <4>1, <4>2, SemanticsAssumption DEF Change, Revision
      <4> QED
        BY <4>1, <4>3 DEF Change, ResourceOf
    <3>3. Written(m.native, q.changes) \in [NativeKey -> ResourceOf(NativePayload)]
      BY <2>1, <3>2 DEF Written
    <3> QED
      BY <2>2, <3>3 DEF Apply
  <2> QED
    BY <2>1, <2>2 DEF Apply
<1>6. Apply(m, r).receipts \in [Id -> Record \cup {NoRecord}]
  BY <1>3 DEF Apply, State
<1>7. Apply(m, r) = [objects  |-> Apply(m, r).objects,
                     native   |-> Apply(m, r).native,
                     receipts |-> Apply(m, r).receipts,
                     sequence |-> r.sequence]
  BY DEF Apply
<1> QED
  BY <1>1, <1>4, <1>5, <1>6, <1>7 DEF State

(* The empty state is a state. *)
LEMMA EmptyStateType == EmptyState \in State
<1>1. Absent \in ResourceOf(Payload) /\ Absent \in ResourceOf(NativePayload)
  BY SemanticsAssumption DEF Absent, ResourceOf, Revision, Payload, NativePayload
<1> QED
  BY <1>1 DEF EmptyState, State

-----------------------------------------------------------------------------
(* The invariant *)

(* hist is the run of Apply over the file, and every record in the file    *)
(* passes the checks of replay at its place.                               *)
HistoryInv ==
    /\ hist[1] = EmptyState
    /\ \A k \in 1..Len(file) :
          /\ Consistent(hist[k], file[k])
          /\ hist[k + 1] = Apply(hist[k], file[k])

(* The running process holds the state of a prefix; it serves only from    *)
(* the whole file, with no incomplete line behind it.                      *)
ProcessInv ==
    /\ mem = hist[pos + 1]
    /\ Serving => pos = Len(file)
    /\ stage # "idle" => proc = "open" /\ ~poisoned /\ pos + 1 = Len(file)
    /\ torn /\ proc = "open" => poisoned
    /\ poisoned => proc = "open"

JournalInv == TypeOK /\ HistoryInv /\ ProcessInv /\ NeverInconsistent

-----------------------------------------------------------------------------
(* What can be called is a request. *)
LEMMA CallableIsRequest == TypeOK => Callable \subseteq Request
BY DEF TypeOK, Callable, Request

(* A request has an id. *)
LEMMA RequestId == \A q \in Request : q.id \in Id
BY RequestType DEF V1Request, V2Request

(* JournalInv holds in the beginning. *)
LEMMA InitJournalInv == Init => JournalInv
<1> SUFFICES ASSUME Init PROVE JournalInv
  OBVIOUS
<1>1. TypeOK
  <2>1. hist \in Seq(State) /\ Len(hist) = 1
    BY EmptyStateType DEF Init
  <2>2. file \in Seq(Record) /\ Len(file) = 0
    BY DEF Init
  <2>3. acked \in [Id -> Record \cup {NoRecord}]
    BY DEF Init
  <2>4. imports \in SUBSET ImportRequests /\ mem \in State
    BY EmptyStateType DEF Init
  <2>5. synced \in 0..Len(file) /\ pos \in 0..Len(file)
    BY <2>2 DEF Init
  <2>6. Len(hist) = Len(file) + 1
    BY <2>1, <2>2
  <2> QED
    BY <2>1, <2>2, <2>3, <2>4, <2>5, <2>6 DEF Init, TypeOK
<1>2. HistoryInv /\ ProcessInv /\ NeverInconsistent
  BY DEF Init, HistoryInv, ProcessInv, NeverInconsistent
<1> QED
  BY <1>1, <1>2 DEF JournalInv

(* The end of a process leaves nothing but the file. *)
LEMMA ProcessEndsInv ==
  ASSUME JournalInv, ProcessEnds, UNCHANGED <<fileVars, acked>>,
         refusal' \in {refusal, "torn"}
  PROVE  JournalInv'
<1> USE DEF JournalInv, ProcessEnds, fileVars
<1>1. TypeOK'
  <2>1. Len(file) \in Nat
    BY DEF TypeOK
  <2>2. pos' \in 0..Len(file') /\ mem' \in State
    BY <2>1, EmptyStateType
  <2>3. imports' \in SUBSET ImportRequests
    OBVIOUS
  <2>4. refusal' \in {"none", "torn", "inconsistent"}
    BY DEF TypeOK
  <2> QED
    BY <2>2, <2>3, <2>4 DEF TypeOK
<1>2. HistoryInv'
  BY DEF HistoryInv, Consistent
<1>3. ProcessInv'
  BY DEF ProcessInv, HistoryInv, Serving, Unlocked
<1>4. NeverInconsistent'
  BY DEF NeverInconsistent
<1> QED
  BY <1>1, <1>2, <1>3, <1>4

LEMMA OpenStoreInv == JournalInv /\ OpenStore => JournalInv'
<1> SUFFICES ASSUME JournalInv, OpenStore PROVE JournalInv'
  OBVIOUS
<1> USE DEF JournalInv, OpenStore, fileVars
<1>1. TypeOK'
  BY EmptyStateType DEF TypeOK
<1>2. HistoryInv'
  BY DEF HistoryInv, Consistent
<1>3. ProcessInv'
  BY DEF ProcessInv, HistoryInv, Serving, Unlocked
<1>4. NeverInconsistent'
  BY DEF NeverInconsistent
<1> QED
  BY <1>1, <1>2, <1>3, <1>4

(* The central fact: the replay loop never meets a record it rejects. *)
LEMMA ReplayConsistent ==
  ASSUME JournalInv, ReplayRecord
  PROVE  Consistent(mem, file[pos + 1])
<1>1. pos + 1 \in 1..Len(file)
  BY DEF ReplayRecord, JournalInv, TypeOK
<1>2. Consistent(hist[pos + 1], file[pos + 1])
  BY <1>1 DEF JournalInv, HistoryInv
<1> QED
  BY <1>2 DEF JournalInv, ProcessInv

(* Replay of one record gives the next state of the history. *)
LEMMA ReplayRecordEffect ==
  ASSUME JournalInv, ReplayRecord
  PROVE  /\ proc = "replaying" /\ pos < Len(file)
         /\ mem' = Apply(mem, file[pos + 1]) /\ pos' = pos + 1
         /\ UNCHANGED <<fileVars, proc, poisoned, stage, imports, acked, refusal>>
BY ReplayConsistent DEF ReplayRecord

LEMMA ReplayRecordInv == JournalInv /\ ReplayRecord => JournalInv'
<1> SUFFICES ASSUME JournalInv, ReplayRecord PROVE JournalInv'
  OBVIOUS
<1> USE ReplayRecordEffect DEF JournalInv, fileVars
<1>1. pos + 1 \in 1..Len(file)
  BY DEF TypeOK
<1>2. mem' = hist[pos + 2]
  <2>1. hist[(pos + 1) + 1] = Apply(hist[pos + 1], file[pos + 1])
    BY <1>1 DEF HistoryInv
  <2>2. (pos + 1) + 1 = pos + 2
    BY DEF TypeOK
  <2> QED
    BY <2>1, <2>2 DEF ProcessInv
<1>3. TypeOK'
  <2>1. hist[pos + 2] \in State
    BY <1>1 DEF TypeOK
  <2> QED
    BY <1>1, <1>2, <2>1 DEF TypeOK
<1>4. HistoryInv'
  BY DEF HistoryInv, Consistent
<1>5. ProcessInv'
  <2>1. mem' = hist'[pos' + 1]
    BY <1>2 DEF TypeOK
  <2> QED
    BY <2>1 DEF ProcessInv, Serving, Unlocked
<1>6. NeverInconsistent'
  BY DEF NeverInconsistent
<1> QED
  BY <1>3, <1>4, <1>5, <1>6

LEMMA OpenSucceedsInv == JournalInv /\ OpenSucceeds => JournalInv'
<1> SUFFICES ASSUME JournalInv, OpenSucceeds PROVE JournalInv'
  OBVIOUS
<1> USE DEF JournalInv, OpenSucceeds, fileVars
<1>1. TypeOK'
  BY DEF TypeOK
<1>2. HistoryInv'
  BY DEF HistoryInv, Consistent
<1>3. ProcessInv'
  BY DEF ProcessInv, Serving, Unlocked
<1>4. NeverInconsistent'
  BY DEF NeverInconsistent
<1> QED
  BY <1>1, <1>2, <1>3, <1>4

(* Steps that leave the file and the maps alone and can only poison. *)
LEMMA QuietStepInv ==
  ASSUME JournalInv, Unlocked,
         UNCHANGED <<file, hist, synced, proc, pos, mem, stage, refusal>>,
         torn' \in BOOLEAN, poisoned' \in BOOLEAN,
         poisoned => poisoned',
         torn' => torn \/ poisoned',
         imports' \in SUBSET ImportRequests,
         acked' \in [Id -> Record \cup {NoRecord}]
  PROVE  JournalInv'
<1> USE DEF JournalInv
<1>1. TypeOK'
  BY DEF TypeOK
<1>2. HistoryInv'
  BY DEF HistoryInv, Consistent
<1>3. ProcessInv'
  BY DEF ProcessInv, Serving, Unlocked
<1>4. NeverInconsistent'
  BY DEF NeverInconsistent
<1> QED
  BY <1>1, <1>2, <1>3, <1>4

LEMMA AnswerKnownInv ==
  ASSUME JournalInv, NEW q \in Callable, AnswerKnown(q)
  PROVE  JournalInv'
<1>1. q.id \in Id
  BY CallableIsRequest, RequestId DEF JournalInv
<1>2. acked' \in [Id -> Record \cup {NoRecord}]
  BY <1>1 DEF AnswerKnown, JournalInv, TypeOK, State
<1>3. imports' \in SUBSET ImportRequests
  BY DEF AnswerKnown, JournalInv, TypeOK
<1> QED
  BY <1>2, <1>3, QuietStepInv
     DEF AnswerKnown, Serving, fileVars, JournalInv, TypeOK

LEMMA FailCallInv ==
  ASSUME JournalInv, NEW q \in Callable, FailCall(q)
  PROVE  JournalInv'
<1>1. imports' \in SUBSET ImportRequests
  BY DEF FailCall, JournalInv, TypeOK
<1> QED
  BY <1>1, QuietStepInv DEF FailCall, fileVars, JournalInv, TypeOK

LEMMA FailWriteInv ==
  ASSUME JournalInv, NEW q \in Callable, FailWrite(q)
  PROVE  JournalInv'
<1>1. imports' \in SUBSET ImportRequests
  BY DEF FailWrite, JournalInv, TypeOK
<1> QED
  BY <1>1, QuietStepInv DEF FailWrite, Serving, JournalInv, TypeOK

LEMMA BeginImportInv ==
  ASSUME JournalInv, NEW i \in Id, NEW o \in Object, NEW n \in Note,
         BeginImport(i, o, n)
  PROVE  JournalInv'
<1>1. mem.objects[o] \in ResourceOf(Payload)
  BY DEF JournalInv, TypeOK, State
<1>2. mem.objects[o] \in LiveObject
  BY <1>1 DEF BeginImport, Live, ResourceOf, LiveObject
<1>3. ImportRequest(i, o, n, mem.objects[o]) \in ImportRequests
  BY <1>2 DEF ImportRequests
<1>4. imports' \in SUBSET ImportRequests
  BY <1>3 DEF BeginImport, JournalInv, TypeOK
<1> QED
  BY <1>4, QuietStepInv DEF BeginImport, Serving, fileVars, JournalInv, TypeOK

LEMMA WriteInv ==
  ASSUME JournalInv, NEW q \in Callable, Write(q)
  PROVE  JournalInv'
<1> DEFINE r == NewRecord(mem, q)
           n == Len(file)
<1>1. q \in Request
  BY CallableIsRequest DEF JournalInv
<1>2. mem \in State /\ n \in Nat /\ Len(hist) = n + 1
  BY DEF JournalInv, TypeOK
<1>3. r \in Record
  BY <1>1, <1>2, NewRecordType
<1>4. mem = hist[n + 1] /\ mem = CommittedState
  BY <1>2 DEF JournalInv, ProcessInv, Write, CommittedState
<1>5. Consistent(mem, r)
  BY <1>2 DEF Write, Fresh, Consistent, NewRecord
<1>6. Apply(mem, r) \in State
  BY <1>2, <1>3, ApplyType DEF NewRecord
<1>7. file' = Append(file, r) /\ hist' = Append(hist, Apply(mem, r))
  BY <1>4 DEF Write
<1> HIDE DEF r
<1>8. /\ Len(file') = n + 1 /\ file'[n + 1] = r
      /\ \A k \in 1..n : file'[k] = file[k]
      /\ file' \in Seq(Record)
  BY <1>3, <1>7 DEF JournalInv, TypeOK
<1>9. /\ Len(hist') = n + 2 /\ hist'[n + 2] = Apply(mem, r)
      /\ \A k \in 1..(n + 1) : hist'[k] = hist[k]
      /\ hist' \in Seq(State)
  <2>1. hist \in Seq(State) /\ Len(hist) = n + 1
    BY DEF JournalInv, TypeOK
  <2> QED
    BY <1>2, <1>6, <1>7, <2>1
<1>10. TypeOK'
  BY <1>8, <1>9 DEF JournalInv, TypeOK, Write
<1>11. HistoryInv'
  <2>1. hist'[1] = EmptyState
    BY <1>2, <1>9 DEF JournalInv, HistoryInv
  <2>2. ASSUME NEW k \in 1..Len(file')
        PROVE  Consistent(hist'[k], file'[k]) /\ hist'[k + 1] = Apply(hist'[k], file'[k])
    <3>1. CASE k \in 1..n
      <4>1. file'[k] = file[k] /\ hist'[k] = hist[k] /\ hist'[k + 1] = hist[k + 1]
        BY <1>2, <1>8, <1>9, <3>1
      <4>2. Consistent(hist[k], file[k]) /\ hist[k + 1] = Apply(hist[k], file[k])
        BY <3>1 DEF JournalInv, HistoryInv
      <4> QED
        BY <4>1, <4>2
    <3>2. CASE k = n + 1
      <4>1. n + 1 \in 1..(n + 1) /\ (n + 1) + 1 = n + 2
        BY <1>2
      <4>2. file'[k] = r
        BY <1>8, <3>2
      <4>3. hist'[k] = mem
        BY <1>4, <1>9, <3>2, <4>1
      <4>4. hist'[k + 1] = Apply(mem, r)
        BY <1>9, <3>2, <4>1
      <4> QED
        BY <4>2, <4>3, <4>4, <1>5
    <3> QED
      BY <1>2, <1>8, <3>1, <3>2
  <2> QED
    BY <2>1, <2>2 DEF HistoryInv, Consistent
<1>12. ProcessInv'
  <2>1. pos = n
    BY DEF JournalInv, ProcessInv, Write
  <2>2. mem' = hist'[pos' + 1]
    <3>1. mem' = mem /\ pos' = n
      BY <2>1 DEF Write
    <3>2. n + 1 \in 1..(n + 1)
      BY <1>2
    <3>3. hist'[n + 1] = mem
      BY <1>4, <1>9, <3>2
    <3> QED
      BY <3>1, <3>3
  <2> QED
    BY <1>2, <1>8, <2>1, <2>2 DEF JournalInv, ProcessInv, Write, Serving, Unlocked
<1>13. NeverInconsistent'
  BY DEF JournalInv, NeverInconsistent, Write
<1> QED
  BY <1>10, <1>11, <1>12, <1>13 DEF JournalInv

LEMMA SyncInv == JournalInv /\ Sync => JournalInv'
<1> SUFFICES ASSUME JournalInv, Sync PROVE JournalInv'
  OBVIOUS
<1> USE DEF JournalInv, Sync
<1>1. TypeOK'
  BY DEF TypeOK
<1>2. HistoryInv'
  BY DEF HistoryInv, Consistent
<1>3. ProcessInv'
  BY DEF ProcessInv, Serving, Unlocked
<1>4. NeverInconsistent'
  BY DEF NeverInconsistent
<1> QED
  BY <1>1, <1>2, <1>3, <1>4

LEMMA FailSyncInv == JournalInv /\ FailSync => JournalInv'
<1> SUFFICES ASSUME JournalInv, FailSync PROVE JournalInv'
  OBVIOUS
<1> USE DEF JournalInv, FailSync, fileVars
<1>1. TypeOK'
  BY DEF TypeOK
<1>2. HistoryInv'
  BY DEF HistoryInv, Consistent
<1>3. ProcessInv'
  BY DEF ProcessInv, Serving, Unlocked
<1>4. NeverInconsistent'
  BY DEF NeverInconsistent
<1> QED
  BY <1>1, <1>2, <1>3, <1>4

(* What Finish applies and answers is the last record, on the state of the *)
(* records before it.                                                      *)
LEMMA FinishRecord ==
  ASSUME JournalInv, Finish
  PROVE  /\ Len(file) \in 1..Len(file)
         /\ pos + 1 = Len(file)
         /\ file[Len(file)] \in Record
         /\ mem' = hist[Len(file) + 1]
<1>1. pos + 1 = Len(file) /\ pos \in Nat
  BY DEF JournalInv, ProcessInv, TypeOK, Finish
<1>2. Len(file) \in 1..Len(file)
  BY <1>1 DEF JournalInv, TypeOK
<1>3. mem = hist[Len(file)]
  BY <1>1 DEF JournalInv, ProcessInv
<1>4. hist[Len(file) + 1] = Apply(hist[Len(file)], file[Len(file)])
  BY <1>2 DEF JournalInv, HistoryInv
<1>5. file[Len(file)] \in Record
  BY <1>2 DEF JournalInv, TypeOK
<1> QED
  BY <1>1, <1>2, <1>3, <1>4, <1>5 DEF Finish

LEMMA FinishInv == JournalInv /\ Finish => JournalInv'
<1> SUFFICES ASSUME JournalInv, Finish PROVE JournalInv'
  OBVIOUS
<1> DEFINE r == file[Len(file)]
<1>1. /\ Len(file) \in 1..Len(file) /\ pos + 1 = Len(file)
      /\ r \in Record /\ mem' = hist[Len(file) + 1]
  BY FinishRecord
<1>2. r.req.id \in Id
  BY <1>1, RequestId DEF Record
<1>3. acked' \in [Id -> Record \cup {NoRecord}]
  BY <1>1, <1>2 DEF JournalInv, TypeOK, Finish
<1>4. mem' \in State
  BY <1>1 DEF JournalInv, TypeOK
<1>5. TypeOK'
  BY <1>1, <1>3, <1>4 DEF JournalInv, TypeOK, Finish, fileVars
<1>6. HistoryInv'
  BY DEF JournalInv, HistoryInv, Consistent, Finish, fileVars
<1>7. ProcessInv'
  BY <1>1 DEF JournalInv, ProcessInv, Finish, fileVars, Serving, Unlocked
<1>8. NeverInconsistent'
  BY DEF JournalInv, NeverInconsistent, Finish
<1> QED
  BY <1>5, <1>6, <1>7, <1>8 DEF JournalInv

(* Losing an unsynced suffix leaves a shorter journal of the same kind. *)
LEMMA PowerLossInv == JournalInv /\ PowerLoss => JournalInv'
<1> SUFFICES ASSUME JournalInv, PowerLoss PROVE JournalInv'
  OBVIOUS
<1>1. PICK n \in synced..Len(file) :
        /\ file' = SubSeq(file, 1, n)
        /\ hist' = SubSeq(hist, 1, n + 1)
        /\ torn' \in (IF torn \/ n < Len(file) THEN BOOLEAN ELSE {FALSE})
  BY DEF PowerLoss
<1>2. n \in Nat /\ n <= Len(file) /\ synced <= n /\ synced \in Nat
      /\ Len(hist) = Len(file) + 1 /\ file \in Seq(Record) /\ hist \in Seq(State)
  BY DEF JournalInv, TypeOK
<1>3. /\ file' \in Seq(Record) /\ Len(file') = n
      /\ \A k \in 1..n : file'[k] = file[k]
  BY <1>1, <1>2
<1>4. /\ hist' \in Seq(State) /\ Len(hist') = n + 1
      /\ \A k \in 1..(n + 1) : hist'[k] = hist[k]
  BY <1>1, <1>2
<1>5. torn' \in BOOLEAN
  BY <1>1
<1>6. TypeOK'
  <2>1. pos' \in 0..Len(file') /\ synced' \in 0..Len(file')
    BY <1>2, <1>3 DEF PowerLoss, ProcessEnds
  <2>2. /\ proc' \in {"closed", "replaying", "open"} /\ mem' \in State
        /\ poisoned' \in BOOLEAN /\ stage' \in {"idle", "written", "synced"}
        /\ imports' \in SUBSET ImportRequests
    BY EmptyStateType DEF PowerLoss, ProcessEnds
  <2>3. /\ acked' \in [Id -> Record \cup {NoRecord}]
        /\ refusal' \in {"none", "torn", "inconsistent"}
    BY DEF JournalInv, TypeOK, PowerLoss
  <2> QED
    BY <1>3, <1>4, <1>5, <2>1, <2>2, <2>3 DEF TypeOK
<1>7. HistoryInv'
  <2>1. hist'[1] = EmptyState
    BY <1>2, <1>4 DEF JournalInv, HistoryInv
  <2>2. ASSUME NEW k \in 1..n
        PROVE  Consistent(hist'[k], file'[k]) /\ hist'[k + 1] = Apply(hist'[k], file'[k])
    <3>1. file'[k] = file[k] /\ hist'[k] = hist[k] /\ hist'[k + 1] = hist[k + 1]
      BY <1>2, <1>3, <1>4
    <3>2. k \in 1..Len(file)
      BY <1>2
    <3> QED
      BY <3>1, <3>2 DEF JournalInv, HistoryInv
  <2> QED
    BY <1>3, <2>1, <2>2 DEF HistoryInv, Consistent
<1>8. ProcessInv'
  <2>1. mem' = EmptyState /\ pos' = 0 /\ hist'[1] = EmptyState
    BY <1>7 DEF HistoryInv, PowerLoss, ProcessEnds
  <2>2. mem' = hist'[pos' + 1]
    BY <2>1
  <2> QED
    BY <2>2 DEF ProcessInv, PowerLoss, ProcessEnds, Serving, Unlocked
<1>9. NeverInconsistent'
  BY DEF JournalInv, NeverInconsistent, PowerLoss
<1> QED
  BY <1>6, <1>7, <1>8, <1>9 DEF JournalInv

(* Each step keeps JournalInv. *)
LEMMA NextJournalInv == JournalInv /\ [Next]_vars => JournalInv'
<1> SUFFICES ASSUME JournalInv, [Next]_vars PROVE JournalInv'
  OBVIOUS
<1>1. CASE OpenStore
  BY <1>1, OpenStoreInv
<1>2. CASE ReplayRecord
  BY <1>2, ReplayRecordInv
<1>3. CASE RefuseTorn
  BY <1>3, ProcessEndsInv DEF RefuseTorn
<1>4. CASE OpenSucceeds
  BY <1>4, OpenSucceedsInv
<1>5. CASE \E q \in Callable : AnswerKnown(q) \/ FailCall(q) \/ Write(q) \/ FailWrite(q)
  BY <1>5, AnswerKnownInv, FailCallInv, WriteInv, FailWriteInv
<1>6. CASE Sync \/ FailSync \/ Finish
  BY <1>6, SyncInv, FailSyncInv, FinishInv
<1>7. CASE \E i \in Id, o \in Object, n \in Note : BeginImport(i, o, n)
  BY <1>7, BeginImportInv
<1>8. CASE Close \/ Crash
  BY <1>8, ProcessEndsInv DEF Close, Crash
<1>9. CASE PowerLoss
  BY <1>9, PowerLossInv
<1>10. CASE UNCHANGED vars
  BY <1>10 DEF vars, JournalInv, TypeOK, HistoryInv, ProcessInv, NeverInconsistent,
              Consistent, Serving, Unlocked
<1> QED
  BY <1>1, <1>2, <1>3, <1>4, <1>5, <1>6, <1>7, <1>8, <1>9, <1>10
     DEF Next, Opening

(* JournalInv is an invariant. *)
LEMMA JournalInvariant == Spec => []JournalInv
BY InitJournalInv, NextJournalInv, PTL DEF Spec

(* Every variable keeps its type; in particular no revision leaves the     *)
(* range of a uint64 and every record in the file is well formed.          *)
THEOREM TypeCorrect == Spec => []TypeOK
<1>1. JournalInv => TypeOK
  BY DEF JournalInv
<1> QED
  BY <1>1, JournalInvariant, PTL

(* The maps of a running store are those of a prefix of the journal, and   *)
(* of all of it when the store serves (Open, apply, applyNative, poisoned).*)
THEOREM ReplayAgrees == Spec => []MemoryMatchesJournal
<1>1. JournalInv => MemoryMatchesJournal
  BY DEF JournalInv, ProcessInv, MemoryMatchesJournal
<1> QED
  BY <1>1, JournalInvariant, PTL

(* For requests without job commands, Open never refuses a complete line   *)
(* the store has written, whichever ids and protocols were mixed, after    *)
(* any sequence of crashes, failed writes, failed fsyncs and power losses. *)
THEOREM ReplayAccepts == Spec => []NeverInconsistent
<1>1. JournalInv => NeverInconsistent
  BY DEF JournalInv
<1> QED
  BY <1>1, JournalInvariant, PTL

(* No record is appended behind an incomplete line (appendRecord, poisoned).*)
THEOREM TornLineStaysLast == Spec => TornLineIsLast
<1>1. JournalInv /\ [Next]_vars => [torn => Len(file') <= Len(file)]_vars
  <2> SUFFICES ASSUME JournalInv, Next, torn
               PROVE  Len(file') <= Len(file)
    BY DEF vars
  <2>1. Len(file) \in Nat
    BY DEF JournalInv, TypeOK
  <2>2. CASE file' = file
    BY <2>1, <2>2
  <2>3. CASE \E q \in Callable : Write(q)
    BY <2>3 DEF Write, Serving, Unlocked, JournalInv, ProcessInv
  <2>4. CASE PowerLoss
    <3>1. PICK n \in synced..Len(file) : file' = SubSeq(file, 1, n)
      BY <2>4 DEF PowerLoss
    <3>2. n \in Nat /\ n <= Len(file) /\ file \in Seq(Record)
      BY DEF JournalInv, TypeOK
    <3> QED
      BY <3>1, <3>2
  <2> QED
    BY <2>2, <2>3, <2>4
       DEF Next, Opening, OpenStore, ReplayRecord, RefuseTorn,
           OpenSucceeds, AnswerKnown, FailCall, FailWrite, Sync, FailSync, Finish,
           BeginImport, Close, Crash, fileVars
<1> QED
  BY <1>1, JournalInvariant, PTL DEF Spec, TornLineIsLast

-----------------------------------------------------------------------------
(* Without power loss the file only grows, and the store implements the    *)
(* abstract one.                                                           *)

(* The operators of the abstract specification are those of this one.      *)
LEMMA AbstractOperators ==
  /\ Abstract!EmptyState = EmptyState
  /\ Abstract!Request = Request
  /\ \A m, r : Abstract!Apply(m, r) = Apply(m, r)
  /\ \A m, q : Abstract!NewRecord(m, q) = NewRecord(m, q)
<1>1. Abstract!EmptyState = EmptyState
  BY DEF Abstract!EmptyState, EmptyState, Abstract!NativeKey, NativeKey,
         Abstract!Absent, Absent
<1>2. Abstract!Request = Request
  BY DEF Abstract!Request, Request, Abstract!ImportRequests, ImportRequests,
         Abstract!ImportRequest, ImportRequest, Abstract!LiveObject, LiveObject,
         Abstract!Payload, Payload, Abstract!Revision, Revision,
         Abstract!ImportOp, ImportOp
<1>3. \A m, r : Abstract!Apply(m, r) = Apply(m, r)
  BY DEF Abstract!Apply, Apply, Abstract!Committed, Committed,
         Abstract!Written, Written, Abstract!NativeKey, NativeKey
<1>4. \A m, q : Abstract!NewRecord(m, q) = NewRecord(m, q)
  BY DEF Abstract!NewRecord, NewRecord, Abstract!Evaluate, Evaluate,
         Abstract!EvaluateV1, EvaluateV1, Abstract!EvaluateV2, EvaluateV2,
         Abstract!AliasFault, AliasFault, Abstract!ChangeFault, ChangeFault,
         Abstract!Live, Live, Abstract!Absent, Absent, Abstract!ImportOp, ImportOp
<1> QED
  BY <1>1, <1>2, <1>3, <1>4

(* An empty journal is an abstract store without receipts. *)
LEMMA InitImplementsAbstract == Init => Abstract!AInit
BY AbstractOperators DEF Init, CommittedState, Abstract!AInit

(* A step that leaves the file and the answers alone is a stutter. *)
LEMMA StutterStep ==
  ASSUME UNCHANGED <<hist, acked>>
  PROVE  UNCHANGED Abstract!absVars
BY DEF Abstract!absVars, CommittedState

(* A serving process evaluates requests on the committed state. *)
LEMMA ServesCommittedState == JournalInv /\ Serving => mem = CommittedState
BY DEF JournalInv, TypeOK, ProcessInv, CommittedState

(* A write is the abstract commit. *)
LEMMA WriteCommits ==
  ASSUME JournalInv, NEW q \in Callable, Write(q)
  PROVE  Abstract!Commit(q)
<1>1. mem = CommittedState
  BY ServesCommittedState DEF Write
<1>2. q \in Request
  BY CallableIsRequest DEF JournalInv
<1>3. Apply(mem, NewRecord(mem, q)) \in State
  BY <1>2, NewRecordType, ApplyType DEF NewRecord, JournalInv, TypeOK
<1>4. hist' = Append(hist, Apply(mem, NewRecord(mem, q)))
  BY <1>1 DEF Write
<1>5. CommittedState' = Apply(mem, NewRecord(mem, q))
  <2>1. hist \in Seq(State)
    BY DEF JournalInv, TypeOK
  <2> DEFINE committed == Apply(mem, NewRecord(mem, q))
  <2> HIDE DEF committed
  <2>2. committed \in State /\ hist' = Append(hist, committed)
    BY <1>3, <1>4 DEF committed
  <2>3. hist'[Len(hist')] = committed
    BY <2>1, <2>2
  <2> QED
    BY <2>3 DEF CommittedState, committed
<1> QED
  BY <1>1, <1>5, AbstractOperators DEF Write, Fresh, Abstract!Commit

(* An answer from a receipt is the abstract answer. *)
LEMMA AnswerKnownAnswers ==
  ASSUME JournalInv, NEW q \in Callable, AnswerKnown(q)
  PROVE  Abstract!Answer(q.id)
<1>1. mem = CommittedState
  BY ServesCommittedState DEF AnswerKnown
<1> QED
  BY <1>1 DEF AnswerKnown, Abstract!Answer, fileVars, CommittedState

(* The answer after a commit is the abstract answer. *)
LEMMA FinishAnswers ==
  ASSUME JournalInv, Finish
  PROVE  \E i \in Id : Abstract!Answer(i)
<1> DEFINE r == file[Len(file)]
<1>1. Len(file) \in 1..Len(file) /\ r \in Record
  BY FinishRecord
<1>2. r.req.id \in Id
  BY <1>1, RequestId DEF Record
<1>3. CommittedState = Apply(hist[Len(file)], r)
  BY <1>1 DEF CommittedState, JournalInv, TypeOK, HistoryInv
<1>4. hist[Len(file)] \in State
  BY <1>1 DEF JournalInv, TypeOK
<1>5. CommittedState.receipts[r.req.id] = r
  BY <1>2, <1>3, <1>4 DEF Apply, State
<1>6. r # NoRecord
  BY <1>1, SemanticsAssumption
<1> QED
  BY <1>2, <1>5, <1>6 DEF Finish, Abstract!Answer, fileVars, CommittedState

(* Every step of the journal is a step of the abstract store, or none. *)
LEMMA NextImplementsAbstract ==
  ASSUME ~AllowPowerLoss, JournalInv, [Next]_vars
  PROVE  [Abstract!ANext]_(Abstract!absVars)
<1>1. CASE \E q \in Callable : Write(q)
  BY <1>1, WriteCommits, CallableIsRequest, AbstractOperators
     DEF Abstract!ANext, JournalInv
<1>2. CASE \E q \in Callable : AnswerKnown(q)
  BY <1>2, AnswerKnownAnswers, CallableIsRequest, RequestId
     DEF Abstract!ANext, JournalInv
<1>3. CASE Finish
  BY <1>3, FinishAnswers DEF Abstract!ANext
<1>4. CASE UNCHANGED <<hist, acked>>
  BY <1>4, StutterStep
<1> QED
  BY <1>1, <1>2, <1>3, <1>4
     DEF Next, Opening, OpenStore, ReplayRecord, RefuseTorn,
         OpenSucceeds, FailCall, FailWrite, Sync, FailSync, BeginImport, Close,
         Crash, PowerLoss, fileVars, vars

(* As long as the file system keeps what was written, the journal store is *)
(* an atomic store with one receipt per request_id (Mutate, NativeBatch,   *)
(* Open; the contract of store.go:68-70).                                  *)
THEOREM JournalImplementsReceipts ==
  ASSUME ~AllowPowerLoss
  PROVE  Spec => ImplementsReceiptStore
<1>1. JournalInv /\ [Next]_vars => [Abstract!ANext]_(Abstract!absVars)
  BY NextImplementsAbstract
<1> QED
  BY <1>1, InitImplementsAbstract, JournalInvariant, PTL
     DEF Spec, ImplementsReceiptStore, Abstract!ASpec

-----------------------------------------------------------------------------
(* What the history says of revisions: the revision of a key is the number *)
(* of commits it has had.                                                  *)

RevisionIn(m, k) == IF k[1] = "v1" THEN m.objects[k[2]].rev ELSE m.native[k[2]].rev

Commits(f, k, n) == {j \in 1..n : Touches(f[j], k)}

RevisionsCount ==
    \A k \in Keys : \A n \in 0..Len(file) :
        /\ IsFiniteSet(Commits(file, k, n))
        /\ RevisionIn(hist[n + 1], k) = Cardinality(Commits(file, k, n))

(* A key is of one of the two protocols. *)
LEMMA KeyCases ==
  ASSUME NEW k \in Keys
  PROVE  \/ k[1] = "v1" /\ k[2] \in Object /\ k = <<"v1", k[2]>>
         \/ k[1] = "v2" /\ k[2] \in NativeKey /\ k = <<"v2", k[2]>>
BY DEF Keys

(* A v1 commit was made on the revision it expects and advances it. *)
LEMMA V1Commit ==
  ASSUME NEW m, NEW q, q.proto = "v1", Evaluate(m, q).error = ""
  PROVE  /\ ~Live(m.native[q.obj])
         /\ m.objects[q.obj].rev = q.exp
         /\ Evaluate(m, q).object.rev = q.exp + 1
<1> DEFINE old == m.objects[q.obj]
           fault ==
             IF Live(m.native[q.obj])                THEN "migrated_read_only"
             ELSE IF old.rev # q.exp                 THEN "revision_conflict"
             ELSE IF q.op = "delete" /\ ~Live(old)   THEN "not_found"
             ELSE IF old.rev = MaxRevision           THEN "revision_exhausted"
             ELSE ""
           after == IF fault # "" THEN old
                    ELSE [rev     |-> old.rev + 1,
                          deleted |-> q.op = "delete",
                          content |-> q.content]
<1>1. Evaluate(m, q).error = fault
  BY DEF Evaluate, EvaluateV1
<1>2. Evaluate(m, q).object = after
  BY DEF Evaluate, EvaluateV1
<1>3. ~Live(m.native[q.obj]) /\ old.rev = q.exp
  BY <1>1
<1>4. after.rev = old.rev + 1
  BY <1>1
<1> QED
  BY <1>2, <1>3, <1>4

(* Compare-and-swap: a record that touches a key was evaluated on the      *)
(* revision it expects, and applying it advances that revision and no      *)
(* other.                                                                  *)
LEMMA TouchedRevision ==
  ASSUME NEW m \in State, NEW r \in Record, r.result = Evaluate(m, r.req),
         NEW k \in Keys
  PROVE  /\ Touches(r, k) => Expected(r, k) = RevisionIn(m, k)
         /\ RevisionIn(Apply(m, r), k) =
               IF Touches(r, k) THEN RevisionIn(m, k) + 1 ELSE RevisionIn(m, k)
<1> DEFINE q == r.req
<1>1. q \in V1Request \cup V2Request
  BY RequestType DEF Record
<1>2. CASE q.proto = "v1"
  <2>1. q.obj \in Object /\ q.proto # "v2"
    BY <1>1, <1>2 DEF V1Request, V2Request
  <2>2. CASE k[1] = "v2"
    <3>1. ~Touches(r, k)
      BY <1>2, <2>1, <2>2 DEF Touches
    <3>2. Apply(m, r).native = m.native
      BY <1>2, <2>1 DEF Apply
    <3> QED
      BY <2>2, <3>1, <3>2 DEF RevisionIn
  <2>3. CASE k[1] = "v1"
    <3>1. k[2] \in Object /\ k = <<"v1", k[2]>>
      BY <2>3, KeyCases
    <3>2. Touches(r, k) <=> Committed(r) /\ k[2] = q.obj
      BY <1>2, <2>3, <3>1 DEF Touches
    <3>3. Apply(m, r).objects = IF Committed(r) THEN [m.objects EXCEPT ![q.obj] = r.result.object]
                                ELSE m.objects
      BY <1>2 DEF Apply
    <3>4. Committed(r) => m.objects[q.obj].rev = q.exp /\ r.result.object.rev = q.exp + 1
      <4>1. Evaluate(m, q).error = "" =>
              m.objects[q.obj].rev = q.exp /\ Evaluate(m, q).object.rev = q.exp + 1
        BY <1>2, V1Commit
      <4> QED
        BY <4>1 DEF Committed
    <3>5. m.objects \in [Object -> ResourceOf(Payload)]
      BY DEF State
    <3>6. Touches(r, k) => Expected(r, k) = RevisionIn(m, k)
      BY <2>3, <3>2, <3>4 DEF Expected, RevisionIn
    <3>7. Apply(m, r).objects[k[2]].rev =
            IF Touches(r, k) THEN m.objects[k[2]].rev + 1 ELSE m.objects[k[2]].rev
      BY <2>1, <3>1, <3>2, <3>3, <3>4, <3>5
    <3> QED
      BY <2>3, <3>6, <3>7 DEF RevisionIn
  <2> QED
    BY <2>2, <2>3, KeyCases
<1>3. CASE q.proto # "v1"
  <2>1. q.proto = "v2" /\ q \in V2Request
    BY <1>1, <1>3 DEF V1Request, V2Request
  <2>2. CASE k[1] = "v1"
    <3>1. ~Touches(r, k)
      BY <1>3, <2>2 DEF Touches
    <3>2. Apply(m, r).objects = m.objects
      BY <1>3 DEF Apply
    <3> QED
      BY <2>2, <3>1, <3>2 DEF RevisionIn
  <2>3. CASE k[1] = "v2"
    <3>1. k[2] \in NativeKey
      BY <2>3, KeyCases
    <3>2. Touches(r, k) <=> Committed(r) /\ k[2] \in DOMAIN q.changes
      BY <2>1, <2>3 DEF Touches
    <3>3. Apply(m, r).native = IF Committed(r) THEN Written(m.native, q.changes) ELSE m.native
      BY <2>1 DEF Apply
    <3>4. Touches(r, k) => q.changes[k[2]].exp = m.native[k[2]].rev
      BY <1>3, <3>2, AcceptedChanges DEF Committed, Record
    <3>5. Apply(m, r).native[k[2]].rev =
            IF Touches(r, k) THEN q.changes[k[2]].exp + 1 ELSE m.native[k[2]].rev
      BY <3>1, <3>2, <3>3 DEF Written
    <3> QED
      BY <2>3, <3>4, <3>5 DEF Expected, RevisionIn
  <2> QED
    BY <2>2, <2>3, KeyCases
<1> QED
  BY <1>2, <1>3

(* What a step makes of the journal: a prefix of what it was, all of it as *)
(* a rule, or one more record, evaluated on the state before it.           *)
Agrees(n) ==
    /\ \A j \in 1..n : file'[j] = file[j]
    /\ \A j \in 1..(n + 1) : hist'[j] = hist[j]

Shrinks == Len(file') \in 0..Len(file) /\ Agrees(Len(file'))

Grows ==
    LET n == Len(file)
    IN  /\ Len(file') = n + 1 /\ Agrees(n)
        /\ file'[n + 1] \in Record
        /\ file'[n + 1].result = Evaluate(hist[n + 1], file'[n + 1].req)
        /\ hist'[n + 2] = Apply(hist[n + 1], file'[n + 1])

(* A write adds one record and one state, and changes nothing before. *)
LEMMA WriteGrows ==
  ASSUME JournalInv, NEW q \in Callable, Write(q)
  PROVE  Grows
<1> DEFINE n == Len(file)
           r == NewRecord(mem, q)
<1>1. n \in Nat /\ Len(hist) = n + 1 /\ file \in Seq(Record) /\ hist \in Seq(State)
      /\ mem \in State
  BY DEF JournalInv, TypeOK
<1>2. mem = hist[n + 1] /\ mem = CommittedState
  BY <1>1 DEF JournalInv, ProcessInv, Write, CommittedState
<1>3. r \in Record /\ r.result = Evaluate(mem, r.req)
  BY <1>1, CallableIsRequest, NewRecordType DEF JournalInv, NewRecord
<1>4. Apply(mem, r) \in State
  BY <1>1, <1>3, ApplyType
<1>5. file' = Append(file, r) /\ hist' = Append(hist, Apply(mem, r))
  BY <1>2 DEF Write
<1> HIDE DEF r
<1>6. Len(file') = n + 1 /\ file'[n + 1] = r /\ \A j \in 1..n : file'[j] = file[j]
  BY <1>1, <1>3, <1>5
<1>7. hist'[n + 2] = Apply(mem, r) /\ \A j \in 1..(n + 1) : hist'[j] = hist[j]
  BY <1>1, <1>4, <1>5
<1> QED
  BY <1>2, <1>3, <1>6, <1>7 DEF Grows, Agrees

(* A power loss leaves a prefix. *)
LEMMA PowerLossShrinks ==
  ASSUME JournalInv, PowerLoss
  PROVE  Shrinks
<1>1. PICK n \in synced..Len(file) :
        file' = SubSeq(file, 1, n) /\ hist' = SubSeq(hist, 1, n + 1)
  BY DEF PowerLoss
<1>2. /\ n \in 0..Len(file) /\ Len(hist) = Len(file) + 1
      /\ file \in Seq(Record) /\ hist \in Seq(State)
  BY DEF JournalInv, TypeOK
<1>3. Len(file') = n /\ \A j \in 1..n : file'[j] = file[j]
  BY <1>1, <1>2
<1>4. \A j \in 1..(n + 1) : hist'[j] = hist[j]
  BY <1>1, <1>2
<1> QED
  BY <1>2, <1>3, <1>4 DEF Shrinks, Agrees

(* A step lets the journal grow by a record, or cuts it, or neither. *)
LEMMA JournalChanges ==
  ASSUME JournalInv, [Next]_vars
  PROVE  Shrinks \/ Grows
<1>1. CASE UNCHANGED <<file, hist>>
  BY <1>1 DEF Shrinks, Agrees, JournalInv, TypeOK
<1>2. CASE \E q \in Callable : Write(q)
  BY <1>2, WriteGrows
<1>3. CASE PowerLoss
  BY <1>3, PowerLossShrinks
<1> QED
  BY <1>1, <1>2, <1>3
     DEF Next, Opening, OpenStore, ReplayRecord, RefuseTorn, OpenSucceeds, AnswerKnown,
         FailCall, FailWrite, Sync, FailSync, Finish, BeginImport, Close, Crash,
         fileVars, vars

(* In the empty journal every revision is 0, and there is no commit. *)
LEMMA InitRevisionsCount == Init => RevisionsCount
<1> SUFFICES ASSUME Init, NEW k \in Keys, NEW n \in 0..Len(file)
             PROVE  /\ IsFiniteSet(Commits(file, k, n))
                    /\ RevisionIn(hist[n + 1], k) = Cardinality(Commits(file, k, n))
  BY DEF RevisionsCount
<1>1. n = 0 /\ hist[n + 1] = EmptyState
  BY DEF Init
<1>2. Commits(file, k, n) = {}
  BY <1>1 DEF Commits
<1>3. RevisionIn(EmptyState, k) = 0
  BY KeyCases DEF RevisionIn, EmptyState, Absent
<1> QED
  BY <1>1, <1>2, <1>3, FS_EmptySet

(* Each step keeps the revision of a key the number of its commits. *)
LEMMA NextRevisionsCount ==
  JournalInv /\ RevisionsCount /\ [Next]_vars => RevisionsCount'
<1> SUFFICES ASSUME JournalInv, RevisionsCount, [Next]_vars,
                    NEW k \in Keys, NEW n \in 0..Len(file')
             PROVE  /\ IsFiniteSet(Commits(file', k, n))
                    /\ RevisionIn(hist'[n + 1], k) = Cardinality(Commits(file', k, n))
  BY DEF RevisionsCount, RevisionIn
<1>1. Len(file) \in Nat /\ Len(hist) = Len(file) + 1 /\ hist \in Seq(State)
  BY DEF JournalInv, TypeOK
<1>2. ASSUME NEW i \in 0..Len(file), \A j \in 1..i : file'[j] = file[j]
      PROVE  Commits(file', k, i) = Commits(file, k, i)
  BY <1>2 DEF Commits
<1>3. CASE n \in 0..Len(file) /\ Agrees(n)
  <2>1. n + 1 \in 1..(n + 1)
    OBVIOUS
  <2> QED
    BY <1>2, <1>3, <2>1 DEF RevisionsCount, Agrees
<1>4. CASE Grows /\ n = Len(file) + 1
  <2> DEFINE m == Len(file)
             r == file'[n]
             known == Commits(file, k, m)
  <2>1. /\ Agrees(m) /\ r \in Record /\ r.result = Evaluate(hist[n], r.req)
        /\ hist'[n + 1] = Apply(hist[n], r)
    BY <1>1, <1>4 DEF Grows
  <2>2. hist[n] \in State
    BY <1>1, <1>4
  <2>3. IsFiniteSet(known) /\ RevisionIn(hist[n], k) = Cardinality(known)
    BY <1>1, <1>4 DEF RevisionsCount
  <2>4. RevisionIn(hist'[n + 1], k) =
          IF Touches(r, k) THEN RevisionIn(hist[n], k) + 1 ELSE RevisionIn(hist[n], k)
    BY <2>1, <2>2, TouchedRevision
  <2>5. Commits(file', k, n) = IF Touches(r, k) THEN known \cup {n} ELSE known
    <3>1. Commits(file', k, m) = known
      BY <1>1, <1>2, <2>1 DEF Agrees
    <3>2. 1..n = (1..m) \cup {n}
      BY <1>1, <1>4
    <3> QED
      BY <3>1, <3>2 DEF Commits
  <2>6. n \notin known
    BY <1>1, <1>4 DEF Commits
  <2> HIDE DEF known, r
  <2>7. IsFiniteSet(known \cup {n}) /\ Cardinality(known \cup {n}) = Cardinality(known) + 1
    BY <2>3, <2>6, FS_AddElement
  <2>8. CASE Touches(r, k)
    BY <2>3, <2>4, <2>5, <2>7, <2>8
  <2>9. CASE ~Touches(r, k)
    BY <2>3, <2>4, <2>5, <2>9
  <2> QED
    BY <2>8, <2>9
<1> QED
  BY <1>1, <1>3, <1>4, JournalChanges DEF Shrinks, Grows, Agrees

(* No update is lost over the whole history, restarts and power losses     *)
(* included: a commit names the number of commits its key had before it    *)
(* (evaluate, evaluateNative).                                             *)
THEOREM CommitsAreCompareAndSwap == Spec => []NoLostUpdate
<1>1. JournalInv /\ RevisionsCount => NoLostUpdate
  <2> SUFFICES ASSUME JournalInv, RevisionsCount, NEW k \in Keys,
                      NEW n \in 1..Len(file), Touches(file[n], k)
               PROVE  Expected(file[n], k) =
                        Cardinality({j \in 1..(n - 1) : Touches(file[j], k)})
    BY DEF NoLostUpdate
  <2>1. file[n] \in Record /\ hist[n] \in State /\ n - 1 \in 0..Len(file) /\ (n - 1) + 1 = n
    BY DEF JournalInv, TypeOK
  <2>2. file[n].result = Evaluate(hist[n], file[n].req)
    BY DEF JournalInv, HistoryInv, Consistent
  <2>3. Expected(file[n], k) = RevisionIn(hist[n], k)
    BY <2>1, <2>2, TouchedRevision
  <2>4. RevisionIn(hist[n], k) = Cardinality(Commits(file, k, n - 1))
    BY <2>1 DEF RevisionsCount
  <2> QED
    BY <2>3, <2>4 DEF Commits
<1>2. Spec => []RevisionsCount
  BY InitRevisionsCount, NextRevisionsCount, JournalInvariant, PTL DEF Spec
<1> QED
  BY <1>1, <1>2, JournalInvariant, PTL

-----------------------------------------------------------------------------
(* Imports *)

(* ImportIsExact of one state, and what a target is. *)
ExactIn(m) ==
    \A o \in Object :
        LET alias  == m.native[o]
            source == m.objects[o]
        IN  Live(alias) =>
                /\ Live(source)
                /\ source.rev = alias.content.revision
                /\ source.content = alias.content.source
                /\ alias.content.target \in Note
                /\ m.native[alias.content.target].rev # 0

ImportsExact == \A n \in 1..Len(hist) : ExactIn(hist[n])

(* A v1 request that is accepted touches no object with an alias. *)
LEMMA V1Exact ==
  ASSUME NEW m \in State, ExactIn(m), NEW r \in Record, r.result = Evaluate(m, r.req),
         r.req.proto = "v1"
  PROVE  ExactIn(Apply(m, r))
<1> DEFINE q == r.req
<1>1. /\ Apply(m, r).native = m.native
      /\ Apply(m, r).objects = IF Committed(r) THEN [m.objects EXCEPT ![q.obj] = r.result.object]
                               ELSE m.objects
  BY DEF Apply
<1>2. Evaluate(m, q).error = "" => ~Live(m.native[q.obj])
  BY V1Commit
<1>3. Committed(r) => ~Live(m.native[q.obj])
  BY <1>2 DEF Committed
<1>4. m.objects \in [Object -> ResourceOf(Payload)]
  BY DEF State
<1>5. \A o \in Object : Live(m.native[o]) => Apply(m, r).objects[o] = m.objects[o]
  BY <1>1, <1>3, <1>4
<1> QED
  BY <1>1, <1>5 DEF ExactIn

(* No revision that a batch writes is 0, so no target disappears. *)
LEMMA WrittenRevision ==
  ASSUME NEW m \in State, NEW q \in V2Request, NEW k \in NativeKey,
         m.native[k].rev # 0 \/ k \in DOMAIN q.changes
  PROVE  Written(m.native, q.changes)[k].rev # 0
<1>1. PICK D \in SUBSET NativeKey : q.changes \in [D -> Change]
  BY DEF V2Request
<1>2. k \in DOMAIN q.changes => q.changes[k].exp \in Nat
  BY <1>1, SemanticsAssumption DEF Change, Revision
<1> QED
  BY <1>2 DEF Written

(* A batch of a caller writes no alias. *)
LEMMA BatchExact ==
  ASSUME NEW m \in State, ExactIn(m), NEW q \in V2Request, DOMAIN q.changes \subseteq Note,
         NEW s, s.objects = m.objects, s.native = Written(m.native, q.changes)
  PROVE  ExactIn(s)
<1> SUFFICES ASSUME NEW o \in Object, Live(s.native[o])
             PROVE  /\ Live(s.objects[o])
                    /\ s.objects[o].rev = s.native[o].content.revision
                    /\ s.objects[o].content = s.native[o].content.source
                    /\ s.native[o].content.target \in Note
                    /\ s.native[s.native[o].content.target].rev # 0
  BY DEF ExactIn
<1>1. o \in NativeKey /\ o \notin DOMAIN q.changes
  BY SemanticsAssumption DEF NativeKey
<1>2. s.native[o] = m.native[o]
  BY <1>1 DEF Written
<1>3. /\ Live(m.objects[o])
      /\ m.objects[o].rev = m.native[o].content.revision
      /\ m.objects[o].content = m.native[o].content.source
      /\ m.native[o].content.target \in Note
      /\ m.native[m.native[o].content.target].rev # 0
  BY <1>2 DEF ExactIn
<1>4. s.native[m.native[o].content.target].rev # 0
  BY <1>3, WrittenRevision DEF NativeKey
<1> QED
  BY <1>2, <1>3, <1>4

(* An import request is one made for an object and a note. *)
LEMMA ImportCases ==
  \A q \in ImportRequests : \E i \in Id, p \in Object, n \in Note, x \in LiveObject :
      q = ImportRequest(i, p, n, x)
BY DEF ImportRequests

(* The batch of an import writes an alias of what the object is now. *)
LEMMA ImportExact ==
  ASSUME NEW m \in State, ExactIn(m), NEW q \in ImportRequests, Evaluate(m, q).error = "",
         NEW s, s.objects = m.objects, s.native = Written(m.native, q.changes)
  PROVE  ExactIn(s)
<1>1. PICK i \in Id, p \in Object, n \in Note, x \in LiveObject : q = ImportRequest(i, p, n, x)
  BY ImportCases
<1> DEFINE alias == [revision |-> x.rev, source |-> x.content, target |-> n]
<1>2. /\ q.op = ImportOp /\ q.proto = "v2"
      /\ DOMAIN q.changes = {n, p}
      /\ ~q.changes[p].deleted /\ q.changes[p].content = alias
  <2>1. n # p
    BY SemanticsAssumption
  <2> QED
    BY <1>1, <2>1 DEF ImportRequest
<1>3. AliasFault(m, q, p) = ""
  BY <1>2, AcceptedAlias
<1>4. /\ m.objects[p].rev = x.rev /\ ~m.objects[p].deleted
      /\ x.rev # 0 /\ m.objects[p].content = x.content
  <2>1. alias.revision = x.rev /\ alias.source = x.content
    OBVIOUS
  <2> HIDE DEF alias
  <2>2. ~(\/ m.objects[p].rev # alias.revision \/ m.objects[p].deleted
          \/ alias.revision = 0 \/ m.objects[p].content # alias.source)
    BY <1>2, <1>3 DEF AliasFault
  <2> QED
    BY <2>1, <2>2
<1>5. q \in V2Request
  BY <1>2, RequestType DEF Request, V1Request
<1> SUFFICES ASSUME NEW o \in Object, Live(s.native[o])
             PROVE  /\ Live(s.objects[o])
                    /\ s.objects[o].rev = s.native[o].content.revision
                    /\ s.objects[o].content = s.native[o].content.source
                    /\ s.native[o].content.target \in Note
                    /\ s.native[s.native[o].content.target].rev # 0
  BY DEF ExactIn
<1>6. CASE o = p
  <2>1. s.native[o].content = alias
    <3> HIDE DEF alias
    <3>1. p \in NativeKey /\ p \in DOMAIN q.changes
      BY <1>2 DEF NativeKey
    <3>2. Written(m.native, q.changes)[p].content = q.changes[p].content
      BY <3>1 DEF Written
    <3> QED
      BY <1>2, <1>6, <3>2
  <2>2. s.native[n].rev # 0
    BY <1>2, <1>5, WrittenRevision DEF NativeKey
  <2> QED
    <3>1. alias.revision = x.rev /\ alias.source = x.content /\ alias.target = n
      OBVIOUS
    <3> HIDE DEF alias
    <3> QED
      BY <1>4, <1>6, <2>1, <2>2, <3>1 DEF Live
<1>7. CASE o # p
  <2>1. o \in NativeKey /\ o \notin DOMAIN q.changes
    BY <1>2, <1>7, SemanticsAssumption DEF NativeKey
  <2>2. s.native[o] = m.native[o]
    BY <2>1 DEF Written
  <2>3. /\ Live(m.objects[o])
        /\ m.objects[o].rev = m.native[o].content.revision
        /\ m.objects[o].content = m.native[o].content.source
        /\ m.native[o].content.target \in Note
        /\ m.native[m.native[o].content.target].rev # 0
    BY <2>2 DEF ExactIn
  <2>4. s.native[m.native[o].content.target].rev # 0
    BY <1>5, <2>3, WrittenRevision DEF NativeKey
  <2> QED
    BY <2>2, <2>3, <2>4
<1> QED
  BY <1>6, <1>7

(* Applying a record that was evaluated here keeps aliases exact. *)
LEMMA ApplyExact ==
  ASSUME NEW m \in State, ExactIn(m), NEW r \in Record, r.result = Evaluate(m, r.req)
  PROVE  ExactIn(Apply(m, r))
<1>1. CASE r.req.proto = "v1"
  BY <1>1, V1Exact
<1>2. CASE r.req.proto # "v1" /\ Committed(r)
  <2> DEFINE s == Apply(m, r)
  <2>1. r.req \in Request /\ r.req \in V2Request /\ r.req.proto = "v2"
    BY <1>2, RequestType DEF Record, V1Request, V2Request
  <2>2. s.objects = m.objects /\ s.native = Written(m.native, r.req.changes)
    BY <1>2, <2>1 DEF Apply
  <2>3. Evaluate(m, r.req).error = ""
    BY <1>2 DEF Committed
  <2>4. r.req \in ImportRequests \/ DOMAIN r.req.changes \subseteq Note
    BY <1>2, <2>1, SemanticsAssumption DEF Request, WellFormed, V1Request
  <2> HIDE DEF s
  <2> QED
    BY <2>1, <2>2, <2>3, <2>4, BatchExact, ImportExact DEF s
<1>3. CASE r.req.proto # "v1" /\ ~Committed(r)
  BY <1>3 DEF Apply, ExactIn
<1> QED
  BY <1>1, <1>2, <1>3

(* Each step keeps the aliases of every state of the history exact. *)
LEMMA NextImportsExact ==
  JournalInv /\ ImportsExact /\ [Next]_vars => ImportsExact'
<1> SUFFICES ASSUME JournalInv, JournalInv', ImportsExact, [Next]_vars,
                    NEW n \in 1..Len(hist')
             PROVE  ExactIn(hist'[n])
  BY NextJournalInv DEF ImportsExact, ExactIn
<1>1. /\ Len(file) \in Nat /\ Len(hist) = Len(file) + 1 /\ hist \in Seq(State)
      /\ Len(file') \in Nat /\ Len(hist') = Len(file') + 1
  BY DEF JournalInv, TypeOK
<1>2. CASE n \in 1..(Len(file) + 1) /\ hist'[n] = hist[n]
  BY <1>1, <1>2 DEF ImportsExact
<1>3. CASE Grows /\ n = Len(file) + 2
  <2>1. hist[Len(file) + 1] \in State /\ ExactIn(hist[Len(file) + 1])
    BY <1>1 DEF ImportsExact
  <2> QED
    BY <1>3, <2>1, ApplyExact DEF Grows
<1> QED
  BY <1>1, <1>2, <1>3, JournalChanges DEF Shrinks, Grows, Agrees

(* The copy an import has published stays that of its source, for ever:    *)
(* the alias freezes the object, and no batch touches an alias, though     *)
(* ImportLegacyMemory read the object in an earlier critical section.      *)
THEOREM ImportsStayExact == Spec => []ImportIsExact
<1>1. JournalInv /\ ImportsExact => ImportIsExact
  <2> SUFFICES ASSUME JournalInv, ImportsExact PROVE ImportIsExact
    OBVIOUS
  <2>1. Len(hist) \in 1..Len(hist)
    BY DEF JournalInv, TypeOK
  <2>2. ExactIn(CommittedState)
    BY <2>1 DEF ImportsExact, CommittedState
  <2> QED
    BY <2>2 DEF ImportIsExact, ExactIn
<1>2. Init => ImportsExact
  <2>1. \A o \in Object : ~Live(EmptyState.native[o])
    BY DEF EmptyState, NativeKey, Absent, Live
  <2>2. ExactIn(EmptyState)
    BY <2>1 DEF ExactIn
  <2>3. Init => \A n \in 1..Len(hist) : hist[n] = EmptyState
    BY DEF Init
  <2> QED
    BY <2>2, <2>3 DEF ImportsExact
<1>3. Spec => []ImportsExact
  BY <1>2, NextImportsExact, JournalInvariant, PTL DEF Spec
<1> QED
  BY <1>1, <1>3, JournalInvariant, PTL

-----------------------------------------------------------------------------
(* What the history says of receipts: in every state the receipt of a      *)
(* request_id is its one record in the journal before that state.          *)

ReceiptsIn(n) ==
    /\ \A i \in Id : LET r == hist[n + 1].receipts[i]
                     IN  r # NoRecord => r.req.id = i /\ \E j \in 1..n : file[j] = r
    /\ \A j \in 1..n : hist[n + 1].receipts[file[j].req.id] = file[j]

ReceiptsInv ==
    /\ \A n \in 0..Len(file) : ReceiptsIn(n)
    /\ \A i \in Id : acked[i] # NoRecord => acked[i] \in Record /\ acked[i].req.id = i

(* A prefix that is kept keeps its receipts. *)
LEMMA ReceiptsKept ==
  ASSUME NEW n \in Nat, Agrees(n), ReceiptsIn(n)
  PROVE  ReceiptsIn(n)'
<1>1. hist'[n + 1] = hist[n + 1] /\ \A j \in 1..n : file'[j] = file[j]
  BY DEF Agrees
<1>2. ASSUME NEW i \in Id, hist'[n + 1].receipts[i] # NoRecord
      PROVE  /\ hist'[n + 1].receipts[i].req.id = i
             /\ \E j \in 1..n : file'[j] = hist'[n + 1].receipts[i]
  BY <1>1, <1>2 DEF ReceiptsIn
<1>3. \A j \in 1..n : hist'[n + 1].receipts[file'[j].req.id] = file'[j]
  BY <1>1 DEF ReceiptsIn
<1> QED
  BY <1>2, <1>3 DEF ReceiptsIn

(* A new record is the receipt of its own request_id and of no other: the  *)
(* id had none before, so no earlier record has it.                        *)
LEMMA ReceiptsGrow ==
  ASSUME JournalInv, JournalInv', Grows, NEW n, n = Len(file), ReceiptsIn(n)
  PROVE  ReceiptsIn(n + 1)'
<1> DEFINE m == hist[n + 1]
           r == file'[n + 1]
<1>1. n \in Nat /\ n + 1 \in 1..Len(file') /\ m \in State /\ r \in Record
  BY DEF JournalInv, TypeOK, Grows
<1>2. m.receipts[r.req.id] = NoRecord
  <2>1. Consistent(hist'[n + 1], r)
    BY <1>1 DEF JournalInv, HistoryInv
  <2>2. hist'[n + 1] = m
    BY <1>1 DEF Grows, Agrees
  <2> QED
    BY <2>1, <2>2 DEF Consistent
<1>3. r.req.id \in Id
  BY <1>1, RequestId DEF Record
<1>4. hist'[n + 2].receipts = [m.receipts EXCEPT ![r.req.id] = r]
  BY DEF Grows, Apply
<1>5. m.receipts \in [Id -> Record \cup {NoRecord}]
  BY <1>1 DEF State
<1>6. \A j \in 1..n : file'[j] = file[j]
  BY DEF Grows, Agrees
<1>7. /\ \A i \in Id : m.receipts[i] # NoRecord =>
            m.receipts[i].req.id = i /\ \E j \in 1..n : file[j] = m.receipts[i]
      /\ \A j \in 1..n : m.receipts[file[j].req.id] = file[j]
  BY DEF ReceiptsIn
<1>8. \A j \in 1..n : file[j] # NoRecord /\ file[j].req.id \in Id
  <2>1. \A j \in 1..n : file[j] \in Record
    BY DEF JournalInv, TypeOK
  <2>2. \A x \in Record : x # NoRecord /\ x.req.id \in Id
    BY RequestId, SemanticsAssumption DEF Record
  <2> QED
    BY <2>1, <2>2
<1>9. n + 1 + 1 = n + 2 /\ 1..(n + 1) = (1..n) \cup {n + 1}
  BY <1>1
<1> DEFINE receipts == hist'[n + 2].receipts
<1>10. receipts[r.req.id] = r /\ \A i \in Id : i # r.req.id => receipts[i] = m.receipts[i]
  BY <1>3, <1>4, <1>5
<1> HIDE DEF m, r, receipts
<1>11. ASSUME NEW i \in Id, receipts[i] # NoRecord
       PROVE  receipts[i].req.id = i /\ \E j \in 1..(n + 1) : file'[j] = receipts[i]
  <2>1. CASE i = r.req.id
    BY <1>9, <1>10, <2>1 DEF r
  <2>2. CASE i # r.req.id
    BY <1>6, <1>7, <1>9, <1>10, <1>11, <2>2
  <2> QED
    BY <2>1, <2>2
<1>12. ASSUME NEW j \in 1..(n + 1) PROVE receipts[file'[j].req.id] = file'[j]
  <2>1. CASE j = n + 1
    BY <1>10, <2>1 DEF r
  <2>2. CASE j \in 1..n
    <3>1. file[j].req.id # r.req.id
      BY <1>2, <1>7, <1>8, <2>2
    <3> QED
      BY <1>6, <1>7, <1>8, <1>10, <2>2, <3>1
  <2> QED
    BY <1>9, <2>1, <2>2
<1> QED
  BY <1>9, <1>11, <1>12 DEF ReceiptsIn, receipts

(* The receipt a serving process finds in its maps, or applies at the end  *)
(* of a call, is the journal's.                                            *)
LEMMA AnswerIsReceipt ==
  ASSUME JournalInv, ReceiptsInv, [Next]_vars, NEW i \in Id, acked'[i] # acked[i]
  PROVE  /\ acked'[i] = hist[Len(file) + 1].receipts[i]
         /\ acked'[i] # NoRecord /\ UNCHANGED fileVars
<1>1. acked' # acked
  OBVIOUS
<1>2. CASE \E q \in Callable : AnswerKnown(q)
  <2>1. PICK q \in Callable : AnswerKnown(q)
    BY <1>2
  <2>2. mem = hist[Len(file) + 1]
    BY <2>1 DEF AnswerKnown, Serving, JournalInv, ProcessInv
  <2>3. i = q.id /\ acked'[i] = mem.receipts[i]
    BY <2>1 DEF AnswerKnown, JournalInv, TypeOK
  <2> QED
    BY <2>1, <2>2, <2>3 DEF AnswerKnown
<1>3. CASE Finish
  <2>1. Len(file) \in 1..Len(file) /\ file[Len(file)] \in Record
    BY <1>3, FinishRecord
  <2>2. i = file[Len(file)].req.id /\ acked'[i] = file[Len(file)]
    BY <1>3 DEF Finish, JournalInv, TypeOK
  <2>3. Len(file) \in 0..Len(file)
    BY <2>1
  <2>4. hist[Len(file) + 1].receipts[i] = file[Len(file)]
    BY <2>1, <2>2, <2>3 DEF ReceiptsInv, ReceiptsIn
  <2>5. file[Len(file)] # NoRecord
    BY <2>1, SemanticsAssumption
  <2> QED
    BY <1>3, <2>2, <2>4, <2>5 DEF Finish
<1> QED
  BY <1>1, <1>2, <1>3
     DEF Next, Opening, OpenStore, ReplayRecord, RefuseTorn, OpenSucceeds, FailCall,
         Write, FailWrite, Sync, FailSync, BeginImport, Close, Crash, PowerLoss, vars

LEMMA InitReceiptsInv == Init => ReceiptsInv
<1> SUFFICES ASSUME Init PROVE ReceiptsInv
  OBVIOUS
<1>1. Len(file) = 0 /\ hist[1] = EmptyState /\ \A i \in Id : acked[i] = NoRecord
  BY DEF Init
<1>2. \A i \in Id : EmptyState.receipts[i] = NoRecord
  BY DEF EmptyState
<1>3. ReceiptsIn(0)
  BY <1>1, <1>2 DEF ReceiptsIn
<1> QED
  BY <1>1, <1>3 DEF ReceiptsInv

LEMMA NextReceiptsInv ==
  ASSUME JournalInv, JournalInv', ReceiptsInv, [Next]_vars
  PROVE  ReceiptsInv'
<1>1. Len(file) \in Nat /\ Len(file') \in Nat
  BY DEF JournalInv, TypeOK
<1>2. ASSUME NEW n \in 0..Len(file') PROVE ReceiptsIn(n)'
  <2>1. CASE n \in 0..Len(file) /\ Agrees(n)
    BY <1>1, <2>1, ReceiptsKept DEF ReceiptsInv
  <2>2. CASE Grows /\ n = Len(file) + 1
    <3>1. PICK k : k = Len(file)
      OBVIOUS
    <3>2. ReceiptsIn(k)
      BY <1>1, <3>1 DEF ReceiptsInv
    <3> QED
      BY <2>2, <3>1, <3>2, ReceiptsGrow
  <2>3. CASE Shrinks
    <3>1. n \in 0..Len(file) /\ \A j \in 1..n : j \in 1..Len(file')
      BY <1>1, <2>3 DEF Shrinks
    <3>2. \A j \in 1..(n + 1) : j \in 1..(Len(file') + 1)
      BY <1>1
    <3>3. Agrees(n)
      BY <2>3, <3>1, <3>2 DEF Shrinks, Agrees
    <3> QED
      BY <2>1, <3>1, <3>3
  <2>4. CASE Grows /\ n # Len(file) + 1
    <3>1. n \in 0..Len(file)
      BY <1>1, <2>4 DEF Grows
    <3>2. /\ \A j \in 1..n : j \in 1..Len(file)
          /\ \A j \in 1..(n + 1) : j \in 1..(Len(file) + 1)
      BY <1>1, <3>1
    <3>3. Agrees(n)
      BY <2>4, <3>2 DEF Grows, Agrees
    <3> QED
      BY <2>1, <3>1, <3>3
  <2> QED
    BY <2>2, <2>3, <2>4, JournalChanges
<1>3. ASSUME NEW i \in Id, acked'[i] # NoRecord
      PROVE  acked'[i] \in Record /\ acked'[i].req.id = i
  <2>1. CASE acked'[i] = acked[i]
    BY <1>3, <2>1 DEF ReceiptsInv
  <2>2. CASE acked'[i] # acked[i]
    <3>1. acked'[i] = hist[Len(file) + 1].receipts[i]
      BY <2>2, AnswerIsReceipt
    <3>2. Len(file) \in 0..Len(file)
      BY <1>1
    <3>3. acked'[i] \in Record
      BY <1>3 DEF JournalInv, TypeOK
    <3> QED
      BY <1>3, <3>1, <3>2, <3>3 DEF ReceiptsInv, ReceiptsIn
  <2> QED
    BY <2>1, <2>2
<1> QED
  BY <1>2, <1>3 DEF ReceiptsInv

LEMMA ReceiptsInvariant == Spec => []ReceiptsInv
BY InitReceiptsInv, NextReceiptsInv, JournalInvariant, PTL DEF Spec

(* An answer that an fsync has covered is the answer for ever, through     *)
(* crashes, failed writes and power losses: its record stays at its place, *)
(* and no other record ever has its request_id (Mutate, NativeBatch, Open).*)
THEOREM DurableAnswersStay == Spec => DurableAnswersStand
<1>1. JournalInv /\ JournalInv' /\ ReceiptsInv /\ [Next]_vars =>
         [\A i \in Id : Durable(acked[i]) =>
             acked'[i] = acked[i] /\ Durable(acked[i])']_vars
  <2> SUFFICES ASSUME JournalInv, JournalInv', ReceiptsInv, [Next]_vars,
                      NEW i \in Id, Durable(acked[i])
               PROVE  acked'[i] = acked[i] /\ Durable(acked[i])'
    OBVIOUS
  <2>1. PICK n \in 1..synced : file[n] = acked[i]
    BY DEF Durable
  <2>2. Len(file) \in Nat /\ synced \in 0..Len(file) /\ file[n] \in Record
    BY DEF JournalInv, TypeOK
  <2>3. synced' \in 0..Len(file') /\ Len(file') \in Nat
    BY DEF JournalInv, TypeOK
  <2>4. synced <= synced'
    <3>1. CASE Sync
      BY <2>2, <3>1 DEF Sync
    <3>2. CASE synced' = synced
      BY <2>2, <3>2
    <3> QED
      BY <3>1, <3>2
         DEF Next, Opening, OpenStore, ReplayRecord, RefuseTorn, OpenSucceeds, AnswerKnown,
             FailCall, Write, FailWrite, FailSync, Finish, BeginImport, Close, Crash,
             PowerLoss, fileVars, vars
  <2>5. n \in 1..synced' /\ n \in 1..Len(file) /\ n \in 1..Len(file')
    BY <2>1, <2>2, <2>3, <2>4
  <2>6. file'[n] = file[n]
    BY <2>5, JournalChanges DEF Shrinks, Grows, Agrees
  <2>7. acked'[i] = acked[i]
    <3>1. acked[i].req.id = i
      BY <2>1, <2>2, SemanticsAssumption DEF ReceiptsInv
    <3>2. Len(file) \in 0..Len(file)
      BY <2>2
    <3>3. hist[Len(file) + 1].receipts[i] = acked[i]
      BY <2>1, <2>5, <3>1, <3>2 DEF ReceiptsInv, ReceiptsIn
    <3> QED
      BY <3>3, AnswerIsReceipt
  <2> QED
    BY <2>1, <2>5, <2>6, <2>7 DEF Durable
<1> QED
  BY <1>1, JournalInvariant, ReceiptsInvariant, PTL DEF Spec, DurableAnswersStand
=============================================================================
