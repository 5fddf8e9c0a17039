---------------------------- MODULE SkillPackages ----------------------------
(***************************************************************************)
(* The skill packages of internal/trustedstate/native_skills.go: an        *)
(* installer replaces, switches and deletes packages, a launcher ensures   *)
(* the bundle of its version, a migration imports v1 skills, and readers   *)
(* list packages and read what they listed.  A call is made of several     *)
(* critical sections (receipt lookup, read, NativeBatch) and works on what *)
(* it saw in between, so calls overlap.  The journal under the store is    *)
(* that of JournalStore: a record that is applied is durable.              *)
(***************************************************************************)
EXTENDS Naturals, FiniteSets, Functions

CONSTANTS
    Package,    \* package ids
    Authority,  \* installer credentials' thread ids
    File,       \* what a package may consist of
    Invalid,    \* those that validateSkillPackage refuses
    Request,    \* [id, op, auth, pkg, enabled, files, bundle]
    Legacy,     \* what v1 clients may write as the skill of this name
    Caller,     \* concurrent calls
    Reader,     \* the authorities whose clients list and read
    MaxRecords, \* bound on receipts
    None

Ids == {q.id : q \in Request}
Bundles == UNION {[D -> File] : D \in SUBSET Package}
Operations == {"replace", "enable", "delete", "ensure", "import"}

Value    == [auth : Authority, enabled : BOOLEAN, files : File]
Resource == [rev : Nat, value : Value \cup {None}]
Manifest == [rev : Nat, packages : SUBSET Package, managed : SUBSET Package]

ASSUME SkillsAssumption ==
    /\ Invalid \subseteq File /\ Reader \subseteq Authority
    /\ \A q \in Request :
          /\ q.op \in Operations /\ q.auth \in Authority /\ q.pkg \in Package
          /\ q.enabled \in BOOLEAN /\ q.files \in File /\ q.bundle \in Bundles
    /\ Legacy \in [Package -> SUBSET File]
    /\ MaxRecords \in Nat
    /\ None \notin File \cup Value \cup Manifest

VARIABLES
    native,     \* the skills.package resources: revision and value
    marker,     \* maintenance/skills/bundled.json
    objects,    \* the v1 skills, and whether an alias has frozen them
    receipts,   \* nativeRequests
    call,       \* what each caller's goroutine is doing
    listing     \* what each reader's SkillPackageList returned

vars == <<native, marker, objects, receipts, call, listing>>
storeVars == <<native, marker, objects, receipts>>

Live(r)  == r.value # None
Absent   == [rev |-> 0, value |-> None]

(* A NativeBatch call: changes to packages, to the manifest and, for an    *)
(* import, the source its alias freezes.                                   *)
NoBatch == [changes |-> <<>>, manifest |-> None, source |-> 0]

Recorded == {i \in Ids : receipts[i] # None}

TypeOK ==
    /\ native \in [Package -> Resource]
    /\ \A p \in Package : native[p].rev = 0 => ~Live(native[p])
    /\ marker \in Manifest /\ marker.packages \subseteq marker.managed
    /\ \A p \in Package : objects[p] \in [rev : Nat, files : File \cup {None}, alias : BOOLEAN]
    /\ \A i \in Recorded :
          /\ receipts[i].req \in Request /\ receipts[i].req.id = i
          /\ receipts[i].error \in {"none", "revision_conflict", "not_found",
                                    "source_revision_conflict"}
    /\ \A c \in Caller : call[c].pc \in {"idle", "fresh", "ready"}
    /\ \A r \in Reader : \A p \in DOMAIN listing[r] : listing[r][p] \in Resource

Idle == [pc |-> "idle"]

Init ==
    /\ native = [p \in Package |-> Absent]
    /\ marker = [rev |-> 0, packages |-> {}, managed |-> {}]
    /\ objects = [p \in Package |-> [rev |-> 0, files |-> None, alias |-> FALSE]]
    /\ receipts = [i \in Ids |-> None]
    /\ call = [c \in Caller |-> Idle]
    /\ listing = [r \in Reader |-> <<>>]

Return(c) == call' = [call EXCEPT ![c] = Idle]
Ready(c, batch) ==
    call' = [call EXCEPT ![c] = [pc |-> "ready", req |-> @.req, exp |-> @.exp,
                                 batch |-> batch]]
PackageBatch(p, exp, value) ==
    [NoBatch EXCEPT !.changes = [x \in {p} |-> [exp |-> exp, value |-> value]]]

-----------------------------------------------------------------------------
(* The beginning of a call: skillRequestReplay, one critical section.  The *)
(* caller names the revision it knows from a list or a result, and the     *)
(* same one when it retries.  A request with a receipt is answered (or     *)
(* refused as reused) on the spot and changes nothing.                     *)
Begin(c, q) ==
    /\ call[c].pc = "idle"
    /\ receipts[q.id] = None
    /\ LET known == IF q.op = "import" THEN objects[q.pkg].rev ELSE native[q.pkg].rev
       IN  call' = [call EXCEPT ![c] = [pc |-> "fresh", req |-> q, exp |-> known]]
    /\ UNCHANGED <<storeVars, listing>>

(* NativeRead(skills.package, p, e) and the checks of its three callers;   *)
(* revision 0 asks for the current one.                                    *)
Owned(p, auth) == Live(native[p]) /\ native[p].value.auth = auth
Readable(p, e, auth) ==
    /\ e \in {0, native[p].rev}
    /\ Owned(p, auth)

(* SkillPackageReplace before its batch: a create reads nothing. *)
ReadForReplace(c) ==
    /\ call[c].pc = "fresh" /\ call[c].req.op = "replace"
    /\ LET q == call[c].req  e == call[c].exp
       IN  IF e = 0 \/ Readable(q.pkg, e, q.auth)
           THEN Ready(c, PackageBatch(q.pkg, e,
                    [auth |-> q.auth, enabled |-> q.enabled, files |-> q.files]))
           ELSE Return(c)
    /\ UNCHANGED <<storeVars, listing>>

(* SkillPackageSetEnabled and SkillPackageDelete before their batches. *)
ReadForChange(c) ==
    /\ call[c].pc = "fresh" /\ call[c].req.op \in {"enable", "delete"}
    /\ LET q == call[c].req  e == call[c].exp
       IN  IF Readable(q.pkg, e, q.auth)
           THEN Ready(c, PackageBatch(q.pkg, e,
                    IF q.op = "delete" THEN None
                    ELSE [native[q.pkg].value EXCEPT !.enabled = q.enabled]))
           ELSE Return(c)
    /\ UNCHANGED <<storeVars, listing>>

(* SkillBundledEnsure: manifest and packages are read in one section, the  *)
(* rest is computed from that reading outside the lock.                    *)
Managed == marker.managed \cup marker.packages
Dropped(bundle) == marker.packages \ DOMAIN bundle
Unchanged(p, bundle) == Live(native[p]) /\ native[p].value.files = bundle[p]

(* Faulty variant: a package is taken over whoever created it. *)
RefusedButForCollision(q) ==
    \/ Range(q.bundle) \cap Invalid # {}
    \/ \E p \in DOMAIN q.bundle : Live(native[p]) /\ ~Owned(p, q.auth)
    \/ \E p \in Dropped(q.bundle) : ~Owned(p, q.auth)

EnsureRefused(q) ==
    \/ Range(q.bundle) \cap Invalid # {}
    \/ \E p \in DOMAIN q.bundle :
          \/ native[p].rev # 0 /\ p \notin Managed
          \/ Live(native[p]) /\ ~Owned(p, q.auth)
    \/ \E p \in Dropped(q.bundle) : ~Owned(p, q.auth)

(* A package that is live keeps its switch; a tombstone comes back with    *)
(* the bundle's.                                                           *)
Bundled(p, q) ==
    [auth    |-> q.auth,
     enabled |-> IF Live(native[p]) THEN native[p].value.enabled ELSE q.enabled,
     files   |-> q.bundle[p]]

(* Faulty variant: what a bundle creates is not noted as managed. *)
ForgottenManaged(q) == Managed

ManagedAfter(q) == Managed \cup DOMAIN q.bundle

EnsureBatch(q) ==
    LET written == {p \in DOMAIN q.bundle : ~Unchanged(p, q.bundle)}
    IN  [NoBatch EXCEPT
           !.changes = [p \in written \cup Dropped(q.bundle) |->
                           [exp   |-> native[p].rev,
                            value |-> IF p \in written THEN Bundled(p, q) ELSE None]],
           !.manifest = [rev |-> marker.rev, packages |-> DOMAIN q.bundle,
                         managed |-> ManagedAfter(q)]]

ReadForEnsure(c) ==
    /\ call[c].pc = "fresh" /\ call[c].req.op = "ensure"
    /\ IF EnsureRefused(call[c].req)
       THEN Return(c)
       ELSE Ready(c, EnsureBatch(call[c].req))
    /\ UNCHANGED <<storeVars, listing>>

(* ImportLegacySkill: the object is read in one section, and the batch     *)
(* that publishes it and its alias is built outside.                       *)
ReadForImport(c) ==
    /\ call[c].pc = "fresh" /\ call[c].req.op = "import"
    /\ LET q == call[c].req  source == objects[q.pkg]
       IN  IF source.rev # 0 /\ source.rev = call[c].exp /\ source.files \notin Invalid
           THEN Ready(c, [PackageBatch(q.pkg, 0,
                             [auth |-> q.auth, enabled |-> TRUE, files |-> source.files])
                          EXCEPT !.source = source.rev])
           ELSE Return(c)
    /\ UNCHANGED <<storeVars, listing>>

-----------------------------------------------------------------------------
(* NativeBatch, the one critical section that changes the store. *)

(* validateSkillPackage, from normalizeNative: no record is written. *)
Malformed(batch) ==
    \E p \in DOMAIN batch.changes :
        LET v == batch.changes[p].value IN v # None /\ v.files \in Invalid

(* Faulty variant: the manifest is written whatever its revision. *)
PackagesOnlyReason(q, batch) ==
    CASE batch.source # 0 /\ batch.source # objects[q.pkg].rev -> "source_revision_conflict"
      [] \E p \in DOMAIN batch.changes : batch.changes[p].exp # native[p].rev ->
            "revision_conflict"
      [] OTHER -> "none"

(* evaluateNative: why the batch is rejected.  Alias and package of an     *)
(* import must both be new.                                                *)
Reason(q, batch) ==
    CASE batch.source # 0 /\ batch.source # objects[q.pkg].rev -> "source_revision_conflict"
      [] \/ batch.source # 0 /\ objects[q.pkg].alias
         \/ batch.manifest # None /\ batch.manifest.rev # marker.rev
         \/ \E p \in DOMAIN batch.changes : batch.changes[p].exp # native[p].rev ->
            "revision_conflict"
      [] \E p \in DOMAIN batch.changes :
            batch.changes[p].value = None /\ ~Live(native[p]) -> "not_found"
      [] OTHER -> "none"

(* Faulty variant: a package that comes back starts at revision 1 again. *)
RevivedRevision(p) == IF Live(native[p]) THEN native[p].rev + 1 ELSE 1

NextRevision(p) == native[p].rev + 1

Commit(c) ==
    LET q == call[c].req  batch == call[c].batch
    IN  /\ native' = [p \in Package |->
                         IF p \in DOMAIN batch.changes
                         THEN [rev |-> NextRevision(p), value |-> batch.changes[p].value]
                         ELSE native[p]]
        /\ marker' = IF batch.manifest = None THEN marker
                     ELSE [batch.manifest EXCEPT !.rev = @ + 1]
        /\ objects' = IF batch.source = 0 THEN objects
                      ELSE [objects EXCEPT ![q.pkg].alias = TRUE]

Submit(c) ==
    /\ call[c].pc = "ready"
    /\ LET q == call[c].req  batch == call[c].batch
       IN  IF Malformed(batch) \/ receipts[q.id] # None
           THEN UNCHANGED storeVars
           ELSE /\ Cardinality(Recorded) < MaxRecords
                /\ receipts' = [receipts EXCEPT ![q.id] =
                      [req |-> q, error |-> Reason(q, batch), batch |-> batch]]
                /\ IF Reason(q, batch) = "none"
                   THEN Commit(c)
                   ELSE UNCHANGED <<native, marker, objects>>
    /\ Return(c)
    /\ UNCHANGED listing

-----------------------------------------------------------------------------
(* The v1 protocol writes a skill that no alias has frozen (skills_put).   *)
PutObject(p, f) ==
    /\ ~objects[p].alias
    /\ objects[p].rev < 2
    /\ objects' = [objects EXCEPT ![p].rev = @ + 1, ![p].files = f]
    /\ UNCHANGED <<native, marker, receipts, call, listing>>

(* The process is restarted: calls are lost, the journal is replayed. *)
Restart ==
    /\ \E c \in Caller : call[c].pc # "idle"
    /\ call' = [c \in Caller |-> Idle]
    /\ UNCHANGED <<storeVars, listing>>

(* SkillPackageList *)
List(r) ==
    /\ listing' = [listing EXCEPT ![r] = Restrict(native, {p \in Package : Owned(p, r)})]
    /\ UNCHANGED <<storeVars, call>>

(* What SkillPackageRead answers to a reader that asks for a package with  *)
(* the revision it has listed; None for an error.                          *)
SkillPackageRead(r, p) ==
    LET listed == listing[r][p]
    IN  IF Readable(p, listed.rev, r) THEN native[p].value.files ELSE None

Next ==
    \/ \E c \in Caller :
          \/ \E q \in Request : Begin(c, q)
          \/ ReadForReplace(c) \/ ReadForChange(c)
          \/ ReadForEnsure(c) \/ ReadForImport(c)
          \/ Submit(c)
    \/ \E p \in Package : \E f \in Legacy[p] : PutObject(p, f)
    \/ Restart
    \/ \E r \in Reader : List(r)

Spec == Init /\ [][Next]_vars

-----------------------------------------------------------------------------
(* Properties *)

(* A reader that has listed revision A of a package reads the bytes of A   *)
(* or is told that they have expired, never those of B, though the package *)
(* has been replaced, deleted and brought back since (SkillPackageRead,    *)
(* the tombstones of evaluateNative).                                      *)
ReadsMatchListing ==
    \A r \in Reader : \A p \in DOMAIN listing[r] :
        SkillPackageRead(r, p) \in {None, listing[r][p].value.files}

(* The receipt a step adds. *)
NewReceipts == {i \in Ids : receipts[i] = None /\ receipts'[i] # None}

Committed == {i \in Recorded : receipts[i].error = "none"}
Wrote(i, p, n) ==
    LET changes == receipts[i].batch.changes
    IN  p \in DOMAIN changes /\ changes[p].exp + 1 = n

(* Concurrent upgrades never leave a mixture: what ensure calls have made  *)
(* of the packages, an installer's own changes apart, is the bundle of the *)
(* manifest, of one version, dropped packages included (SkillBundledEnsure *)
(* writes only what differs from its reading).                             *)
BundlesDoNotMix ==
    \A i \in Committed :
        LET bundle == receipts[i].req.bundle
        IN  /\ receipts[i].req.op = "ensure"
            /\ receipts[i].batch.manifest.rev + 1 = marker.rev
            => \A p \in Package, j \in Committed :
                  /\ receipts[j].req.op = "ensure" /\ Wrote(j, p, native[p].rev)
                  => IF p \in DOMAIN bundle
                     THEN Live(native[p]) /\ native[p].value.files = bundle[p]
                     ELSE ~Live(native[p])

(* No upgrade undoes what an installer or a migration did: it leaves the   *)
(* switch of a live package as it was set, however late, and touches none  *)
(* that they created, not even one created while the upgrade was computed  *)
(* (SkillBundledEnsure, "bundled skill package collision").                *)
UpgradeSparesInstallers ==
    [][\A p \in Package, i \in NewReceipts : receipts'[i].req.op = "ensure" =>
          /\ Live(native[p]) /\ Live(native'[p]) =>
                native'[p].value.enabled = native[p].value.enabled
          /\ \A j \in Committed : receipts[j].req.op # "ensure" /\ Wrote(j, p, 1) =>
                native'[p] = native[p]]_vars
=============================================================================
