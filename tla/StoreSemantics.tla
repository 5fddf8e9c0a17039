--------------------------- MODULE StoreSemantics ---------------------------
(***************************************************************************)
(* What one request does to the trusted state: the pure part of            *)
(* internal/trustedstate/store.go and native.go.  A state is the four maps *)
(* of Store; Evaluate is what evaluate and evaluateNative compute from it, *)
(* Apply what apply and applyNative do with the record.  No variables: the *)
(* journal (JournalStore) and its abstract specification (ReceiptStore)    *)
(* both run on these operators.  Job commands are in MemoryJobs.           *)
(***************************************************************************)
EXTENDS Integers

CONSTANTS
    Id,             \* request_id values
    Object,         \* v1 object ids (of one collection)
    Note,           \* native resource keys a batch may write
    Content,        \* non-empty payloads
    NoContent,      \* the empty payload
    Operation,      \* v2 operation names
    Intent,         \* digests of the arguments of an intent-carrying call
    NoIntent,       \* the empty Intent field
    NoRecord,       \* no receipt under this request_id
    MaxRevision,    \* the largest uint64 (bounded for TLC)
    Requests        \* the requests callers make, imports apart

ImportOp == "migration.import_v1"

Revision == 0..MaxRevision
Payload  == Content \cup {NoContent}

(* The content of a native resource "migration/legacy/<collection>/<id>":  *)
(* LegacyAlias.  SourceHash is modelled by the content it hashes.          *)
Alias == [revision: Revision, source: Payload, target: Note]

(* native[o], for o in Object, stands for the alias resource of object o.  *)
NativeKey     == Note \cup Object
NativePayload == Payload \cup Alias

ResourceOf(P) == [rev: Revision, deleted: BOOLEAN, content: P]
Absent == [rev |-> 0, deleted |-> FALSE, content |-> NoContent]
Live(r) == r.rev # 0 /\ ~r.deleted

V1Request ==
    [proto: {"v1"}, id: Id, op: {"put", "delete"}, obj: Object,
     exp: Revision, content: Payload]

Change == [exp: Revision, deleted: BOOLEAN, content: NativePayload]

V2Request ==
    [proto: {"v2"}, id: Id, op: Operation, intent: Intent \cup {NoIntent},
     changes: UNION {[D -> Change] : D \in SUBSET NativeKey}]

(* validate and normalizeNative: a delete carries no content.  Only        *)
(* ImportLegacyMemory touches the migration domain.                        *)
WellFormed(q) ==
    \/ /\ q \in V1Request
       /\ q.op = "delete" => q.content = NoContent
    \/ /\ q \in V2Request
       /\ q.op # ImportOp
       /\ DOMAIN q.changes \subseteq Note
       /\ DOMAIN q.changes # {}
       /\ \A k \in DOMAIN q.changes :
             /\ q.changes[k].content \in Payload
             /\ q.changes[k].deleted => q.changes[k].content = NoContent

(* ImportLegacyMemory: the batch built from the object it has read. *)
ImportRequest(i, o, n, object) ==
    [proto   |-> "v2", id |-> i, op |-> ImportOp, intent |-> NoIntent,
     changes |-> [k \in {n, o} |->
        [exp |-> 0, deleted |-> FALSE,
         content |-> IF k = n THEN object.content
                     ELSE [revision |-> object.rev, source |-> object.content,
                           target |-> n]]]]

LiveObject == [rev: Revision \ {0}, deleted: {FALSE}, content: Payload]

ImportRequests ==
    {ImportRequest(i, o, n, x) : i \in Id, o \in Object, n \in Note, x \in LiveObject}

Request == Requests \cup ImportRequests

Error == {"", "migrated_read_only", "revision_conflict", "not_found",
          "revision_exhausted", "invalid_migration",
          "source_revision_conflict", "missing_migration_target"}

(* A v1 result carries the object after the request (before it, if it is   *)
(* rejected); a v2 result keeps no resources, they are rebuilt on replay.  *)
Result == [error: Error, object: ResourceOf(Payload)]
Record == [sequence: Nat, req: Request, result: Result]

ASSUME SemanticsAssumption ==
    /\ MaxRevision \in Nat \ {0}
    /\ NoContent \notin Content
    /\ NoIntent \notin Intent
    /\ ImportOp \in Operation
    /\ NoRecord \notin Record
    /\ Object \cap Note = {}
    /\ \A q \in Requests : WellFormed(q)

State ==
    [objects:  [Object -> ResourceOf(Payload)],
     native:   [NativeKey -> ResourceOf(NativePayload)],
     receipts: [Id -> Record \cup {NoRecord}],
     sequence: Nat]

EmptyState ==
    [objects  |-> [o \in Object |-> Absent],
     native   |-> [k \in NativeKey |-> Absent],
     receipts |-> [i \in Id |-> NoRecord],
     sequence |-> 0]

-----------------------------------------------------------------------------
(* v1: Store.evaluate. *)

(* Faulty variant: no check of the largest revision. *)
EvaluateV1Unbounded(m, q) ==
    LET old == m.objects[q.obj]
        error ==
            IF Live(m.native[q.obj])                THEN "migrated_read_only"
            ELSE IF old.rev # q.exp                 THEN "revision_conflict"
            ELSE IF q.op = "delete" /\ ~Live(old)   THEN "not_found"
            ELSE ""
    IN  [error  |-> error,
         object |-> IF error # "" THEN old
                    ELSE [rev     |-> old.rev + 1,
                          deleted |-> q.op = "delete",
                          content |-> q.content]]

(* Faulty variant: an imported object can still be written. *)
EvaluateV1Unfrozen(m, q) ==
    LET old == m.objects[q.obj]
        error ==
            IF old.rev # q.exp                      THEN "revision_conflict"
            ELSE IF q.op = "delete" /\ ~Live(old)   THEN "not_found"
            ELSE IF old.rev = MaxRevision           THEN "revision_exhausted"
            ELSE ""
    IN  [error  |-> error,
         object |-> IF error # "" THEN old
                    ELSE [rev     |-> old.rev + 1,
                          deleted |-> q.op = "delete",
                          content |-> q.content]]

EvaluateV1(m, q) ==
    LET old == m.objects[q.obj]
        error ==
            IF Live(m.native[q.obj])                THEN "migrated_read_only"
            ELSE IF old.rev # q.exp                 THEN "revision_conflict"
            ELSE IF q.op = "delete" /\ ~Live(old)   THEN "not_found"
            ELSE IF old.rev = MaxRevision           THEN "revision_exhausted"
            ELSE ""
    IN  [error  |-> error,
         object |-> IF error # "" THEN old
                    ELSE [rev     |-> old.rev + 1,
                          deleted |-> q.op = "delete",
                          content |-> q.content]]

-----------------------------------------------------------------------------
(* v2 without a job command: Store.validateLegacyAlias, then the compare-  *)
(* and-swap loop of Store.evaluateNative.  When several changes of a batch *)
(* fail, the code reports the first in key order; which one it is does not *)
(* matter here.                                                            *)

AliasFault(m, q, o) ==
    LET c == q.changes[o]
        alias == c.content
        old == m.objects[o]
    IN  IF q.op # ImportOp \/ c.deleted THEN "invalid_migration"
        ELSE IF \/ old.rev # alias.revision \/ old.deleted
                \/ alias.revision = 0       \/ old.content # alias.source
             THEN "source_revision_conflict"
        ELSE IF ~ /\ alias.target \in DOMAIN q.changes
                  /\ ~q.changes[alias.target].deleted
                  /\ q.changes[alias.target].content = old.content
             THEN "missing_migration_target"
        ELSE ""

(* Faulty variant: the expected revision of a change is not compared. *)
ChangeFaultUnchecked(old, c) ==
    IF old.rev = MaxRevision             THEN "revision_exhausted"
    ELSE IF c.deleted /\ ~Live(old)      THEN "not_found"
    ELSE ""

ChangeFault(old, c) ==
    IF old.rev # c.exp                   THEN "revision_conflict"
    ELSE IF old.rev = MaxRevision        THEN "revision_exhausted"
    ELSE IF c.deleted /\ ~Live(old)      THEN "not_found"
    ELSE ""

(* The notes of a batch are files of different names in one directory,     *)
(* which validMemoryPaths accepts (MemoryView has those it does not).      *)
EvaluateV2(m, q) ==
    LET aliasFaults  == {AliasFault(m, q, o) :
                            o \in Object \cap DOMAIN q.changes} \ {""}
        changeFaults == {ChangeFault(m.native[k], q.changes[k]) :
                            k \in DOMAIN q.changes} \ {""}
    IN  [error  |-> IF aliasFaults # {}       THEN CHOOSE e \in aliasFaults : TRUE
                    ELSE IF changeFaults # {} THEN CHOOSE e \in changeFaults : TRUE
                    ELSE "",
         object |-> Absent]

Written(native, changes) ==
    [k \in NativeKey |->
        IF k \in DOMAIN changes
        THEN [rev     |-> changes[k].exp + 1,
              deleted |-> changes[k].deleted,
              content |-> changes[k].content]
        ELSE native[k]]

-----------------------------------------------------------------------------
Evaluate(m, q) == IF q.proto = "v1" THEN EvaluateV1(m, q) ELSE EvaluateV2(m, q)

(* The record Mutate and NativeBatch append for a request they have not    *)
(* seen; rejections are recorded like commits.                             *)
NewRecord(m, q) ==
    [sequence |-> m.sequence + 1, req |-> q, result |-> Evaluate(m, q)]

Committed(r) == r.result.error = ""

Apply(m, r) ==
    [objects  |-> IF r.req.proto = "v1" /\ Committed(r)
                  THEN [m.objects EXCEPT ![r.req.obj] = r.result.object]
                  ELSE m.objects,
     native   |-> IF r.req.proto = "v2" /\ Committed(r)
                  THEN Written(m.native, r.req.changes)
                  ELSE m.native,
     receipts |-> [m.receipts EXCEPT ![r.req.id] = r],
     sequence |-> r.sequence]

(* A retry is answered from its receipt when it is the same request: equal *)
(* arguments (v1), equal digest or equal non-empty intent (v2).            *)
SameRequest(p, q) ==
    \/ p = q
    \/ /\ p.proto = "v2" /\ q.proto = "v2"
       /\ q.intent # NoIntent
       /\ p.op = q.op /\ p.intent = q.intent
=============================================================================
