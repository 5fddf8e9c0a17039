------------------------ MODULE SkillPackagesProofs ------------------------
(***************************************************************************)
(* SkillPackages, for any packages, bundles, installers, callers and       *)
(* requests: what was listed is what is read, upgrades spare what others   *)
(* did, and concurrent upgrades leave the packages of one version.         *)
(***************************************************************************)
EXTENDS SkillPackages, TLAPS

IsBatch(b) ==
    /\ DOMAIN b.changes \subseteq Package
    /\ \A p \in DOMAIN b.changes : b.changes[p].exp \in Nat
                                   /\ b.changes[p].value \in Value \cup {None}
    /\ b.manifest \in Manifest \cup {None}
    /\ b.source \in Nat

(* The variables that the argument is about; a call or a receipt is what   *)
(* it is made of.                                                          *)
Types ==
    /\ native \in [Package -> Resource]
    /\ \A p \in Package : native[p].rev = 0 => ~Live(native[p])
    /\ marker \in Manifest /\ marker.packages \subseteq marker.managed
    /\ objects \in [Package -> [rev : Nat, files : File \cup {None}, alias : BOOLEAN]]
    /\ \A p \in Package : objects[p].rev # 0 => objects[p].files \in File
    /\ receipts = [i \in Ids |-> receipts[i]]
    /\ \A i \in Recorded :
          /\ receipts[i].req \in Request /\ receipts[i].req.id = i
          /\ receipts[i].error \in {"none", "revision_conflict", "not_found",
                                    "source_revision_conflict"}
          /\ IsBatch(receipts[i].batch)
    /\ call = [c \in Caller |-> call[c]]
    /\ \A c \in Caller :
          /\ call[c].pc \in {"idle", "fresh", "ready"}
          /\ call[c].pc # "idle" => call[c].req \in Request /\ call[c].exp \in Nat
          /\ call[c].pc = "ready" => IsBatch(call[c].batch)
    /\ listing = [r \in Reader |-> listing[r]]

(* What a reader has listed is of a revision that was, and nothing else    *)
(* ever has that revision.                                                 *)
ListingInv ==
    \A r \in Reader : \A p \in DOMAIN listing[r] :
        LET listed == listing[r][p]
        IN  /\ p \in Package /\ listed \in Resource /\ listed.rev # 0
            /\ listed.rev <= native[p].rev
            /\ listed.rev = native[p].rev => listed.value = native[p].value

(* Who has written revision n of package p. *)
UpgradeWrote(p, n) == \E j \in Committed : receipts[j].req.op = "ensure" /\ Wrote(j, p, n)
OtherWrote(p, n)   == \E j \in Committed : receipts[j].req.op # "ensure" /\ Wrote(j, p, n)

(* What upgrades have made of p is what they want of it. *)
IsBundled(p, bundle) ==
    UpgradeWrote(p, native[p].rev) =>
        IF p \in DOMAIN bundle
        THEN Live(native[p]) /\ native[p].value.files = bundle[p]
        ELSE ~Live(native[p])

(* The upgrades that made the manifest what it is, and their packages:     *)
(* whatever is managed came from a bundle.                                 *)
UpgradesInv ==
    /\ \A p \in Package, n \in Nat : UpgradeWrote(p, n) \/ OtherWrote(p, n) => n <= native[p].rev
    /\ \A p \in marker.managed : native[p].rev # 0 /\ ~OtherWrote(p, 1)
    /\ \A p \in Package \ marker.packages :
          UpgradeWrote(p, native[p].rev) => ~Live(native[p])
    /\ \A i \in Committed : receipts[i].req.op = "ensure" =>
          LET m == receipts[i].batch.manifest
          IN  /\ m # None /\ m.rev < marker.rev
              /\ m.rev + 1 = marker.rev => \A p \in Package : IsBundled(p, receipts[i].req.bundle)

(* A batch that an upgrade has computed holds what was true of the store   *)
(* at its reading, and still is for what has its revision since.           *)
BatchFits(q, b) ==
    LET m == b.manifest
    IN  /\ m # None /\ b.source = 0
        /\ m.packages = DOMAIN q.bundle /\ m.packages \subseteq m.managed /\ m.rev <= marker.rev
        /\ \A p \in DOMAIN b.changes :
              LET new == b.changes[p]
              IN  /\ new.exp <= native[p].rev
                  /\ IF p \in DOMAIN q.bundle
                     THEN new.value # None /\ new.value.files = q.bundle[p]
                     ELSE new.value = None
                  /\ new.exp = native[p].rev /\ Live(native[p]) /\ new.value # None =>
                        new.value.enabled = native[p].value.enabled
        /\ \A p \in m.managed \ DOMAIN b.changes : native[p].rev # 0
        /\ m.rev = marker.rev =>
              /\ \A p \in DOMAIN b.changes : b.changes[p].exp = 0 \/ p \in marker.managed
              /\ m.managed \subseteq marker.managed \cup DOMAIN b.changes
              /\ \A p \in Package \ DOMAIN b.changes : IsBundled(p, q.bundle)

CallsInv ==
    \A c \in Caller : call[c].pc = "ready" =>
        IF call[c].req.op = "ensure"
        THEN BatchFits(call[c].req, call[c].batch)
        ELSE call[c].batch.manifest = None

SkillsInv == Types /\ ListingInv /\ UpgradesInv /\ CallsInv

-----------------------------------------------------------------------------
(* What is said of upgrades and of batches depends on the store and on the *)
(* receipts of commits, and on nothing else.                               *)
LEMMA StoreKept ==
  ASSUME UNCHANGED <<native, marker>>, Committed' = Committed,
         \A j \in Committed : receipts'[j] = receipts[j]
  PROVE  /\ UpgradesInv => UpgradesInv'
         /\ \A q, b : BatchFits(q, b) => BatchFits(q, b)'
<1>1. ASSUME NEW p, NEW n
      PROVE  /\ UpgradeWrote(p, n)' <=> UpgradeWrote(p, n)
             /\ OtherWrote(p, n)' <=> OtherWrote(p, n)
  BY DEF UpgradeWrote, OtherWrote, Wrote
<1>2. ASSUME NEW p, NEW bundle PROVE IsBundled(p, bundle)' <=> IsBundled(p, bundle)
  <2>1. native' = native
    OBVIOUS
  <2>2. UpgradeWrote(p, native[p].rev)' <=> UpgradeWrote(p, native[p].rev)
    BY <2>1 DEF UpgradeWrote, Wrote
  <2> QED
    BY <2>1, <2>2 DEF IsBundled, Live
<1>3. ASSUME UpgradesInv PROVE UpgradesInv'
  <2>1. \A p \in Package, n \in Nat :
           (UpgradeWrote(p, n) \/ OtherWrote(p, n))' => n <= native'[p].rev
    BY <1>1, <1>3 DEF UpgradesInv
  <2>2. \A p \in marker'.managed : native'[p].rev # 0 /\ ~OtherWrote(p, 1)'
    BY <1>1, <1>3 DEF UpgradesInv
  <2>3. \A p \in Package \ marker'.packages :
           UpgradeWrote(p, native[p].rev)' => ~Live(native[p])'
    BY <1>3 DEF UpgradesInv, UpgradeWrote, Wrote, Live
  <2>4. \A i \in Committed' : receipts'[i].req.op = "ensure" =>
           LET m == receipts'[i].batch.manifest
           IN  /\ m # None /\ m.rev < marker'.rev
               /\ m.rev + 1 = marker'.rev =>
                     \A p \in Package : IsBundled(p, receipts[i].req.bundle)'
    BY <1>2, <1>3 DEF UpgradesInv
  <2> QED
    BY <2>1, <2>2, <2>3, <2>4 DEF UpgradesInv
<1>4. ASSUME NEW q, NEW b, BatchFits(q, b) PROVE BatchFits(q, b)'
  <2>1. \A p \in Package : IsBundled(p, q.bundle)' <=> IsBundled(p, q.bundle)
    BY <1>2
  <2> QED
    BY <1>4, <2>1 DEF BatchFits, Live
<1> QED
  BY <1>3, <1>4

(* So the calls keep what is said of them when none of this changes. *)
LEMMA CallsKept ==
  ASSUME CallsInv, UNCHANGED <<native, marker, receipts, call>>
  PROVE  CallsInv'
<1>1. Committed' = Committed /\ \A j \in Committed : receipts'[j] = receipts[j]
  BY DEF Committed, Recorded
<1>2. ASSUME NEW c \in Caller, call[c].pc = "ready"
      PROVE  IF call[c].req.op = "ensure"
             THEN BatchFits(call[c].req, call[c].batch)'
             ELSE call[c].batch.manifest = None
  <2>1. PICK q, b : q = call[c].req /\ b = call[c].batch
    OBVIOUS
  <2>2. q.op = "ensure" => BatchFits(q, b)
    BY <1>2, <2>1 DEF CallsInv
  <2>3. q.op = "ensure" => BatchFits(q, b)'
    BY <1>1, <2>2, StoreKept
  <2>4. call'[c].req = q /\ call'[c].batch = b
    BY <2>1
  <2>5. q.op # "ensure" => b.manifest = None
    BY <1>2, <2>1 DEF CallsInv
  <2>6. q.op = "ensure" => BatchFits(call[c].req, call[c].batch)'
    BY <2>3, <2>4
  <2> QED
    BY <2>1, <2>5, <2>6
<1> QED
  BY <1>2 DEF CallsInv

(* What a request is made of. *)
LEMMA RequestIs ==
  ASSUME NEW q \in Request
  PROVE  /\ q.op \in Operations /\ q.auth \in Authority /\ q.pkg \in Package
         /\ q.enabled \in BOOLEAN /\ q.files \in File /\ q.id \in Ids
         /\ DOMAIN q.bundle \subseteq Package
         /\ \A p \in DOMAIN q.bundle : q.bundle[p] \in File
<1>1. q.bundle \in Bundles
  BY SkillsAssumption
<1>2. PICK D \in SUBSET Package : q.bundle \in [D -> File]
  BY <1>1 DEF Bundles
<1> QED
  BY <1>2, SkillsAssumption DEF Ids

(* A batch is accepted when none of evaluateNative's reasons holds. *)
LEMMA Accepted ==
  ASSUME NEW q, NEW b, Reason(q, b) = "none"
  PROVE  /\ b.source # 0 => b.source = objects[q.pkg].rev /\ ~objects[q.pkg].alias
         /\ b.manifest # None => b.manifest.rev = marker.rev
         /\ \A p \in DOMAIN b.changes : b.changes[p].exp = native[p].rev
BY DEF Reason

(* The errors of a batch. *)
LEMMA ReasonIs ==
  ASSUME NEW q, NEW b
  PROVE  Reason(q, b) \in {"none", "revision_conflict", "not_found", "source_revision_conflict"}
BY DEF Reason

(* The batch of a change to one package. *)
LEMMA PackageBatchIs ==
  ASSUME NEW p \in Package, NEW e \in Nat, NEW v \in Value \cup {None}
  PROVE  /\ IsBatch(PackageBatch(p, e, v))
         /\ PackageBatch(p, e, v).manifest = None
         /\ PackageBatch(p, e, v) =
               [changes |-> PackageBatch(p, e, v).changes, manifest |-> None, source |-> 0]
<1> DEFINE ch == [x \in {p} |-> [exp |-> e, value |-> v]]
<1>1. PackageBatch(p, e, v) = [changes |-> ch, manifest |-> None, source |-> 0]
  BY DEF PackageBatch, NoBatch
<1>2. DOMAIN ch = {p} /\ \A x \in {p} : ch[x].exp = e /\ ch[x].value = v
  OBVIOUS
<1> HIDE DEF ch
<1> QED
  BY <1>1, <1>2 DEF IsBatch

(* SkillsInv holds in the beginning. *)
LEMMA InitSkillsInv == Init => SkillsInv
<1> SUFFICES ASSUME Init PROVE SkillsInv
  OBVIOUS
<1>1. /\ \A p \in Package : native[p].rev = 0 /\ native[p].value = None
      /\ marker.rev = 0 /\ marker.packages = {} /\ marker.managed = {}
      /\ \A c \in Caller : call[c].pc = "idle"
      /\ \A r \in Reader : DOMAIN listing[r] = {}
  BY DEF Init, Absent, Idle
<1>2. Recorded = {} /\ Committed = {}
  BY DEF Init, Recorded, Committed
<1>3. Types
  <2>1. native \in [Package -> Resource]
    BY DEF Init, Absent, Resource
  <2>2. marker \in Manifest
    BY DEF Init, Manifest
  <2>3. /\ objects \in [Package -> [rev : Nat, files : File \cup {None}, alias : BOOLEAN]]
        /\ \A p \in Package : objects[p].rev = 0
    BY DEF Init
  <2>4. /\ receipts = [i \in Ids |-> receipts[i]]
        /\ call = [c \in Caller |-> call[c]]
        /\ listing = [r \in Reader |-> listing[r]]
    BY DEF Init
  <2> QED
    BY <1>1, <1>2, <2>1, <2>2, <2>3, <2>4 DEF Types, Live
<1>4. ListingInv /\ CallsInv
  BY <1>1 DEF ListingInv, CallsInv
<1>5. UpgradesInv
  BY <1>1, <1>2 DEF UpgradesInv, UpgradeWrote, OtherWrote
<1> QED
  BY <1>3, <1>4, <1>5 DEF SkillsInv

(* A call goes on, and the store is as it was. *)
LEMMA CallStep ==
  ASSUME SkillsInv, UNCHANGED <<storeVars, listing>>,
         NEW c \in Caller, NEW s, call' = [call EXCEPT ![c] = s],
         s.pc \in {"idle", "fresh", "ready"},
         s.pc # "idle" => s.req \in Request /\ s.exp \in Nat,
         s.pc = "ready" =>
            /\ IsBatch(s.batch)
            /\ IF s.req.op = "ensure" THEN BatchFits(s.req, s.batch)
                                      ELSE s.batch.manifest = None
  PROVE  SkillsInv'
<1> USE DEF storeVars
<1>1. call'[c] = s /\ (\A d \in Caller : d # c => call'[d] = call[d])
      /\ call' = [d \in Caller |-> call'[d]]
  BY DEF SkillsInv, Types
<1>2. Types'
  BY <1>1 DEF SkillsInv, Types, Recorded
<1>3. ListingInv'
  BY DEF SkillsInv, ListingInv
<1>4. /\ UNCHANGED <<native, marker>> /\ Committed' = Committed
      /\ \A j \in Committed : receipts'[j] = receipts[j]
  BY DEF Committed, Recorded
<1>5. UpgradesInv'
  BY <1>4, StoreKept DEF SkillsInv
<1>6. ASSUME NEW q, NEW b, BatchFits(q, b) PROVE BatchFits(q, b)'
  BY <1>6, <1>4, StoreKept
<1>7. CallsInv'
  <2> SUFFICES ASSUME NEW d \in Caller, call'[d].pc = "ready"
               PROVE  IF call'[d].req.op = "ensure"
                      THEN BatchFits(call[d].req, call[d].batch)'
                      ELSE call'[d].batch.manifest = None
    BY DEF CallsInv
  <2>1. IF call'[d].req.op = "ensure"
        THEN BatchFits(call'[d].req, call'[d].batch)
        ELSE call'[d].batch.manifest = None
    BY <1>1 DEF SkillsInv, CallsInv
  <2> QED
    BY <1>6, <2>1
<1> QED
  BY <1>2, <1>3, <1>5, <1>7 DEF SkillsInv

LEMMA BeginInv ==
  ASSUME SkillsInv, NEW c \in Caller, NEW q \in Request, Begin(c, q)
  PROVE  SkillsInv'
<1>1. q.pkg \in Package
  BY RequestIs
<1>2. PICK e \in Nat : call' = [call EXCEPT ![c] = [pc |-> "fresh", req |-> q, exp |-> e]]
  <2>1. objects[q.pkg].rev \in Nat /\ native[q.pkg].rev \in Nat
    BY <1>1 DEF SkillsInv, Types, Resource
  <2> QED
    BY <2>1 DEF Begin
<1> DEFINE s == [pc |-> "fresh", req |-> q, exp |-> e]
<1>3. s.pc = "fresh" /\ s.req = q /\ s.exp = e
  OBVIOUS
<1> HIDE DEF s
<1> QED
  BY <1>2, <1>3, CallStep DEF Begin, s

(* A call that returns, or goes on with a batch. *)
LEMMA ReturnInv ==
  ASSUME SkillsInv, NEW c \in Caller, Return(c), UNCHANGED <<storeVars, listing>>
  PROVE  SkillsInv'
<1>1. Idle.pc = "idle"
  BY DEF Idle
<1> QED
  BY <1>1, CallStep DEF Return

(* A call that has computed its batch, for whatever operation. *)
LEMMA ReadyInv ==
  ASSUME SkillsInv, NEW c \in Caller, call[c].pc = "fresh", UNCHANGED <<storeVars, listing>>,
         NEW b, Ready(c, b), IsBatch(b),
         IF call[c].req.op = "ensure" THEN BatchFits(call[c].req, b) ELSE b.manifest = None
  PROVE  SkillsInv'
<1>1. PICK q \in Request, e \in Nat : q = call[c].req /\ e = call[c].exp
  BY DEF SkillsInv, Types
<1> DEFINE s == [pc |-> "ready", req |-> q, exp |-> e, batch |-> b]
<1>2. s.pc = "ready" /\ s.req = q /\ s.exp = e /\ s.batch = b
  OBVIOUS
<1>3. call' = [call EXCEPT ![c] = s]
  BY <1>1 DEF Ready
<1> HIDE DEF s
<1> QED
  BY <1>1, <1>2, <1>3, CallStep

LEMMA ReadForPackageInv ==
  ASSUME SkillsInv, NEW c \in Caller,
         ReadForReplace(c) \/ ReadForChange(c) \/ ReadForImport(c)
  PROVE  SkillsInv'
<1>1. PICK q \in Request, e \in Nat : q = call[c].req /\ e = call[c].exp
  BY DEF SkillsInv, Types, ReadForReplace, ReadForChange, ReadForImport
<1>2. /\ q.pkg \in Package /\ q.auth \in Authority /\ q.enabled \in BOOLEAN /\ q.files \in File
      /\ native[q.pkg] \in Resource /\ call[c].pc = "fresh" /\ q.op # "ensure"
      /\ UNCHANGED <<storeVars, listing>>
  BY <1>1, RequestIs DEF SkillsInv, Types, ReadForReplace, ReadForChange, ReadForImport
<1>3. CASE Return(c)
  BY <1>2, <1>3, ReturnInv
<1>4. CASE ReadForReplace(c) /\ ~Return(c)
  <2> DEFINE v == [auth |-> q.auth, enabled |-> q.enabled, files |-> q.files]
  <2>1. v \in Value
    BY <1>2 DEF Value
  <2>2. Ready(c, PackageBatch(q.pkg, e, v))
    BY <1>1, <1>4 DEF ReadForReplace
  <2> HIDE DEF v
  <2>3. IsBatch(PackageBatch(q.pkg, e, v)) /\ PackageBatch(q.pkg, e, v).manifest = None
    BY <1>2, <2>1, PackageBatchIs
  <2> QED
    BY <1>1, <1>2, <2>2, <2>3, ReadyInv
<1>5. CASE ReadForChange(c) /\ ~Return(c)
  <2> DEFINE v == IF q.op = "delete" THEN None
                  ELSE [native[q.pkg].value EXCEPT !.enabled = q.enabled]
  <2>1. Ready(c, PackageBatch(q.pkg, e, v)) /\ Readable(q.pkg, e, q.auth)
    BY <1>1, <1>5 DEF ReadForChange
  <2>2. v \in Value \cup {None}
    <3>1. native[q.pkg].value \in Value
      BY <1>2, <2>1 DEF Readable, Owned, Live, Resource
    <3>2. [native[q.pkg].value EXCEPT !.enabled = q.enabled] \in Value
      BY <1>2, <3>1 DEF Value
    <3> QED
      BY <3>2
  <2> HIDE DEF v
  <2>3. IsBatch(PackageBatch(q.pkg, e, v)) /\ PackageBatch(q.pkg, e, v).manifest = None
    BY <1>2, <2>2, PackageBatchIs
  <2> QED
    BY <1>1, <1>2, <2>1, <2>3, ReadyInv
<1>6. CASE ReadForImport(c) /\ ~Return(c)
  <2> DEFINE source == objects[q.pkg]
             v == [auth |-> q.auth, enabled |-> TRUE, files |-> source.files]
             p == PackageBatch(q.pkg, 0, v)
             b == [p EXCEPT !.source = source.rev]
  <2>1. Ready(c, b) /\ source.rev # 0
    BY <1>1, <1>6 DEF ReadForImport
  <2>2. source.rev \in Nat /\ source.files \in File
    BY <1>2, <2>1 DEF SkillsInv, Types
  <2>3. v \in Value
    BY <1>2, <2>2 DEF Value
  <2> HIDE DEF v
  <2>4. IsBatch(p) /\ p = [changes |-> p.changes, manifest |-> None, source |-> 0]
    BY <1>2, <2>3, PackageBatchIs
  <2> HIDE DEF p
  <2>5. b = [changes |-> p.changes, manifest |-> None, source |-> source.rev]
    BY <2>4
  <2>6. IsBatch(b) /\ b.manifest = None
    BY <2>2, <2>4, <2>5 DEF IsBatch
  <2> HIDE DEF b
  <2> QED
    BY <1>1, <1>2, <2>1, <2>6, ReadyInv
<1> QED
  BY <1>3, <1>4, <1>5, <1>6

(* What SkillBundledEnsure computes from its reading. *)
LEMMA EnsureBatchIs ==
  ASSUME SkillsInv, NEW q \in Request
  PROVE  LET b == EnsureBatch(q)
             written == {p \in DOMAIN q.bundle : ~Unchanged(p, q.bundle)}
         IN  /\ DOMAIN b.changes = written \cup Dropped(q.bundle)
             /\ \A p \in DOMAIN b.changes :
                   /\ b.changes[p].exp = native[p].rev
                   /\ b.changes[p].value = IF p \in written THEN Bundled(p, q) ELSE None
             /\ b.manifest = [rev |-> marker.rev, packages |-> DOMAIN q.bundle,
                              managed |-> ManagedAfter(q)]
             /\ b.source = 0
<1> DEFINE written == {p \in DOMAIN q.bundle : ~Unchanged(p, q.bundle)}
           ch == [p \in written \cup Dropped(q.bundle) |->
                     [exp   |-> native[p].rev,
                      value |-> IF p \in written THEN Bundled(p, q) ELSE None]]
           m == [rev |-> marker.rev, packages |-> DOMAIN q.bundle, managed |-> ManagedAfter(q)]
<1>1. EnsureBatch(q) = [[NoBatch EXCEPT !.changes = ch] EXCEPT !.manifest = m]
  BY DEF EnsureBatch
<1>2. [NoBatch EXCEPT !.changes = ch] = [changes |-> ch, manifest |-> None, source |-> 0]
  BY DEF NoBatch
<1>3. EnsureBatch(q) = [changes |-> ch, manifest |-> m, source |-> 0]
  BY <1>1, <1>2
<1>4. /\ DOMAIN ch = written \cup Dropped(q.bundle)
      /\ \A p \in DOMAIN ch :
            /\ ch[p].exp = native[p].rev
            /\ ch[p].value = IF p \in written THEN Bundled(p, q) ELSE None
  OBVIOUS
<1> HIDE DEF ch, m
<1>5. /\ EnsureBatch(q).changes = ch /\ EnsureBatch(q).manifest = m /\ EnsureBatch(q).source = 0
  BY <1>3
<1> QED
  BY <1>4, <1>5 DEF m

(* The batch an ensure computes fits the packages it has just read. *)
LEMMA EnsureFits ==
  ASSUME SkillsInv, NEW q \in Request, ~EnsureRefused(q)
  PROVE  IsBatch(EnsureBatch(q)) /\ BatchFits(q, EnsureBatch(q))
<1> DEFINE written == {p \in DOMAIN q.bundle : ~Unchanged(p, q.bundle)}
           m == [rev |-> marker.rev, packages |-> DOMAIN q.bundle, managed |-> ManagedAfter(q)]
<1>1. PICK b : b = EnsureBatch(q)
  OBVIOUS
<1>2. /\ DOMAIN b.changes = written \cup Dropped(q.bundle)
      /\ \A p \in DOMAIN b.changes :
            /\ b.changes[p].exp = native[p].rev
            /\ b.changes[p].value = IF p \in written THEN Bundled(p, q) ELSE None
      /\ b.manifest = m /\ b.source = 0
  BY <1>1, EnsureBatchIs
<1>3. /\ DOMAIN q.bundle \subseteq Package /\ q.auth \in Authority /\ q.enabled \in BOOLEAN
      /\ \A p \in DOMAIN q.bundle : q.bundle[p] \in File
  BY RequestIs
<1>4. /\ marker.rev \in Nat /\ marker.packages \subseteq Package /\ marker.managed \subseteq Package
      /\ marker.packages \subseteq marker.managed /\ Managed = marker.managed
      /\ \A p \in Package : native[p] \in Resource
      /\ \A p \in Package : native[p].rev \in Nat /\ native[p].value \in Value \cup {None}
  BY DEF SkillsInv, Types, Manifest, Managed, Resource
<1>5. /\ m.rev = marker.rev /\ m.packages = DOMAIN q.bundle
      /\ m.managed = marker.managed \cup DOMAIN q.bundle
      /\ m \in Manifest
  BY <1>3, <1>4 DEF ManagedAfter, Manifest
<1>6. m # None
  BY <1>5, SkillsAssumption
<1> HIDE DEF m
<1>7. \A p \in DOMAIN q.bundle :
         /\ Bundled(p, q) \in Value /\ Bundled(p, q) # None
         /\ Bundled(p, q).files = q.bundle[p]
         /\ Live(native[p]) => Bundled(p, q).enabled = native[p].value.enabled
  <2> SUFFICES ASSUME NEW p \in DOMAIN q.bundle
               PROVE  /\ Bundled(p, q) \in Value /\ Bundled(p, q) # None
                      /\ Bundled(p, q).files = q.bundle[p]
                      /\ Live(native[p]) => Bundled(p, q).enabled = native[p].value.enabled
    OBVIOUS
  <2>1. Live(native[p]) => native[p].value.enabled \in BOOLEAN
    BY <1>3, <1>4 DEF Live, Value
  <2>2. Bundled(p, q) \in Value
    BY <1>3, <2>1 DEF Bundled, Value
  <2>3. Bundled(p, q) # None
    BY <2>2, SkillsAssumption
  <2> QED
    BY <2>2, <2>3 DEF Bundled
<1>8. /\ \A p \in DOMAIN q.bundle : native[p].rev = 0 \/ p \in marker.managed
      /\ \A p \in Dropped(q.bundle) : p \in marker.managed /\ p \in Package /\ p \notin DOMAIN q.bundle
  BY <1>4 DEF EnsureRefused, Dropped
<1>9. \A p \in DOMAIN q.bundle \ written :
         Live(native[p]) /\ native[p].value.files = q.bundle[p] /\ native[p].rev # 0
  BY <1>3 DEF Unchanged, SkillsInv, Types
<1>10. DOMAIN b.changes \subseteq Package
  BY <1>2, <1>3, <1>8
<1>11. IsBatch(b)
  BY <1>2, <1>4, <1>5, <1>7, <1>10 DEF IsBatch
<1>12. \A p \in DOMAIN b.changes :
          /\ b.changes[p].exp = native[p].rev /\ native[p].rev \in Nat
          /\ IF p \in DOMAIN q.bundle
             THEN b.changes[p].value # None /\ b.changes[p].value.files = q.bundle[p]
             ELSE b.changes[p].value = None
          /\ Live(native[p]) /\ b.changes[p].value # None =>
                b.changes[p].value.enabled = native[p].value.enabled
          /\ b.changes[p].exp = 0 \/ p \in marker.managed
  BY <1>2, <1>4, <1>7, <1>8, <1>10
<1>13. \A p \in m.managed \ DOMAIN b.changes : native[p].rev # 0
  BY <1>2, <1>5, <1>9 DEF SkillsInv, UpgradesInv
<1>14. m.managed \subseteq marker.managed \cup DOMAIN b.changes
  BY <1>2, <1>5, <1>8, <1>9
<1>15. \A p \in Package \ DOMAIN b.changes : IsBundled(p, q.bundle)
  <2> SUFFICES ASSUME NEW p \in Package \ DOMAIN b.changes, UpgradeWrote(p, native[p].rev)
               PROVE  IF p \in DOMAIN q.bundle
                      THEN Live(native[p]) /\ native[p].value.files = q.bundle[p]
                      ELSE ~Live(native[p])
    BY DEF IsBundled
  <2>1. CASE p \in DOMAIN q.bundle
    BY <1>2, <1>9, <2>1
  <2>2. CASE p \notin DOMAIN q.bundle
    <3>1. p \notin marker.packages
      BY <1>2, <2>2 DEF Dropped
    <3> QED
      BY <2>2, <3>1 DEF SkillsInv, UpgradesInv
  <2> QED
    BY <2>1, <2>2
<1>16. BatchFits(q, b)
  BY <1>2, <1>4, <1>5, <1>6, <1>12, <1>13, <1>14, <1>15 DEF BatchFits
<1> QED
  BY <1>1, <1>11, <1>16

LEMMA ReadForEnsureInv ==
  ASSUME SkillsInv, NEW c \in Caller, ReadForEnsure(c)
  PROVE  SkillsInv'
<1>1. call[c].req \in Request /\ call[c].pc = "fresh" /\ call[c].req.op = "ensure"
      /\ UNCHANGED <<storeVars, listing>>
  BY DEF SkillsInv, Types, ReadForEnsure
<1>2. CASE EnsureRefused(call[c].req)
  BY <1>1, <1>2, ReturnInv DEF ReadForEnsure
<1>3. CASE ~EnsureRefused(call[c].req)
  <2>1. Ready(c, EnsureBatch(call[c].req))
    BY <1>3 DEF ReadForEnsure
  <2>2. IsBatch(EnsureBatch(call[c].req)) /\ BatchFits(call[c].req, EnsureBatch(call[c].req))
    BY <1>1, <1>3, EnsureFits
  <2> QED
    BY <1>1, <2>1, <2>2, ReadyInv
<1> QED
  BY <1>2, <1>3

-----------------------------------------------------------------------------
(* The receipt of a step, if any, is not one of a commit. *)
LEMMA RejectedInv ==
  ASSUME SkillsInv, UNCHANGED <<native, marker, objects, listing>>, NEW c \in Caller,
         call[c].pc = "ready", Return(c),
         \/ UNCHANGED receipts
         \/ /\ receipts[call[c].req.id] = None /\ Reason(call[c].req, call[c].batch) # "none"
            /\ receipts' = [receipts EXCEPT ![call[c].req.id] =
                  [req |-> call[c].req, error |-> Reason(call[c].req, call[c].batch),
                   batch |-> call[c].batch]]
  PROVE  SkillsInv' /\ Committed' = Committed
<1>1. PICK q, b, e : /\ q = call[c].req /\ b = call[c].batch
                     /\ e = Reason(q, b) /\ IsBatch(b) /\ q \in Request
  BY DEF SkillsInv, Types
<1> DEFINE new == [req |-> q, error |-> e, batch |-> b]
<1>2. \/ UNCHANGED receipts
      \/ receipts[q.id] = None /\ e # "none" /\ receipts' = [receipts EXCEPT ![q.id] = new]
  BY <1>1
<1>3. new.req = q /\ new.error = e /\ new.batch = b
  OBVIOUS
<1> HIDE DEF new
<1>4. q.id \in Ids /\ e \in {"none", "revision_conflict", "not_found", "source_revision_conflict"}
  BY <1>1, RequestIs, ReasonIs
<1>5. /\ receipts' = [i \in Ids |-> receipts'[i]]
      /\ \A i \in Ids : i # q.id => receipts'[i] = receipts[i]
      /\ \/ receipts'[q.id] = receipts[q.id]
         \/ receipts'[q.id] = new /\ e # "none" /\ receipts[q.id] = None
  BY <1>2, <1>4 DEF SkillsInv, Types
<1>6. /\ Committed' = Committed /\ \A j \in Committed : receipts'[j] = receipts[j]
      /\ \A j \in Recorded' : \/ j \in Recorded /\ receipts'[j] = receipts[j]
                              \/ j = q.id /\ receipts'[j] = new
  BY <1>3, <1>5 DEF Committed, Recorded
<1>7. /\ call' = [d \in Caller |-> call'[d]] /\ call'[c].pc = "idle"
      /\ \A d \in Caller : d # c => call'[d] = call[d]
  BY DEF SkillsInv, Types, Return, Idle
<1>8. Types'
  <2>1. \A i \in Recorded' :
          /\ receipts'[i].req \in Request /\ receipts'[i].req.id = i
          /\ receipts'[i].error \in {"none", "revision_conflict", "not_found",
                                     "source_revision_conflict"}
          /\ IsBatch(receipts'[i].batch)
    <3>1. ASSUME NEW i \in Recorded
          PROVE  /\ receipts[i].req \in Request /\ receipts[i].req.id = i
                 /\ receipts[i].error \in {"none", "revision_conflict", "not_found",
                                          "source_revision_conflict"}
                 /\ IsBatch(receipts[i].batch)
      BY DEF SkillsInv, Types
    <3>2. /\ new.req \in Request /\ new.req.id = q.id
          /\ new.error \in {"none", "revision_conflict", "not_found", "source_revision_conflict"}
          /\ IsBatch(new.batch)
      BY <1>1, <1>3, <1>4
    <3> QED
      BY <1>6, <3>1, <3>2
  <2>2. \A d \in Caller :
          /\ call'[d].pc \in {"idle", "fresh", "ready"}
          /\ call'[d].pc # "idle" => call'[d].req \in Request /\ call'[d].exp \in Nat
          /\ call'[d].pc = "ready" => IsBatch(call'[d].batch)
    BY <1>7 DEF SkillsInv, Types
  <2> QED
    BY <1>5, <1>7, <2>1, <2>2 DEF SkillsInv, Types, IsBatch, Live
<1>9. ListingInv'
  BY DEF SkillsInv, ListingInv
<1>10. UpgradesInv'
  BY <1>6, StoreKept DEF SkillsInv
<1>11. ASSUME NEW r, NEW s, BatchFits(r, s) PROVE BatchFits(r, s)'
  BY <1>6, <1>11, StoreKept
<1>12. CallsInv'
  <2> SUFFICES ASSUME NEW d \in Caller, call'[d].pc = "ready"
               PROVE  IF call'[d].req.op = "ensure"
                      THEN BatchFits(call[d].req, call[d].batch)'
                      ELSE call'[d].batch.manifest = None
    BY DEF CallsInv
  <2>1. IF call'[d].req.op = "ensure"
        THEN BatchFits(call'[d].req, call'[d].batch)
        ELSE call'[d].batch.manifest = None
    BY <1>7 DEF SkillsInv, CallsInv
  <2> QED
    BY <1>11, <2>1
<1> QED
  BY <1>6, <1>8, <1>9, <1>10, <1>12 DEF SkillsInv

(* A commit: what it does to the store and to the receipts. *)
Commits(c) ==
    /\ call[c].pc = "ready" /\ receipts[call[c].req.id] = None
    /\ Reason(call[c].req, call[c].batch) = "none"
    /\ receipts' = [receipts EXCEPT ![call[c].req.id] =
          [req |-> call[c].req, error |-> Reason(call[c].req, call[c].batch),
           batch |-> call[c].batch]]
    /\ Commit(c) /\ Return(c) /\ UNCHANGED listing

(* What a commit changes: the packages of its batch, each by one revision. *)
LEMMA CommitIs ==
  ASSUME SkillsInv, NEW c \in Caller, Commits(c), NEW q, NEW b,
         q = call[c].req, b = call[c].batch
  PROVE  /\ q \in Request /\ q.id \in Ids /\ IsBatch(b)
         /\ \A p \in DOMAIN b.changes :
               /\ b.changes[p].exp = native[p].rev
               /\ native'[p].rev = native[p].rev + 1 /\ native'[p].value = b.changes[p].value
         /\ \A p \in Package \ DOMAIN b.changes : native'[p] = native[p]
         /\ \A p \in Package : native[p].rev \in Nat /\ native[p] \in Resource
         /\ native' \in [Package -> Resource] /\ marker' \in Manifest
         /\ b.manifest = None => marker' = marker
         /\ b.manifest # None => /\ b.manifest.rev = marker.rev
                                 /\ marker'.rev = marker.rev + 1
                                 /\ marker'.packages = b.manifest.packages
                                 /\ marker'.managed = b.manifest.managed
         /\ marker.rev \in Nat
<1>1. q \in Request /\ q.id \in Ids /\ IsBatch(b)
  BY RequestIs DEF Commits, SkillsInv, Types
<1>2. /\ b.manifest # None => b.manifest.rev = marker.rev
      /\ \A p \in DOMAIN b.changes : b.changes[p].exp = native[p].rev
  BY Accepted DEF Commits
<1>3. \A p \in Package : native[p].rev \in Nat /\ native[p] \in Resource
  BY DEF SkillsInv, Types, Resource
<1>4. native' = [p \in Package |->
                    IF p \in DOMAIN b.changes
                    THEN [rev |-> native[p].rev + 1, value |-> b.changes[p].value]
                    ELSE native[p]]
  BY DEF Commits, Commit, NextRevision
<1>5. /\ \A p \in DOMAIN b.changes :
            /\ native'[p].rev = native[p].rev + 1 /\ native'[p].value = b.changes[p].value
      /\ \A p \in Package \ DOMAIN b.changes : native'[p] = native[p]
  BY <1>1, <1>4 DEF IsBatch
<1>6. native' \in [Package -> Resource]
  BY <1>1, <1>3, <1>4 DEF IsBatch, Resource
<1>7. marker.rev \in Nat /\ marker \in Manifest
  BY DEF SkillsInv, Types, Manifest
<1>8. marker' = IF b.manifest = None THEN marker
                ELSE [b.manifest EXCEPT !.rev = @ + 1]
  BY DEF Commits, Commit
<1>9. b.manifest # None => b.manifest \in Manifest
  BY <1>1 DEF IsBatch
<1>10. /\ marker' \in Manifest
       /\ b.manifest # None => /\ marker'.rev = marker.rev + 1
                               /\ marker'.packages = b.manifest.packages
                               /\ marker'.managed = b.manifest.managed
  BY <1>2, <1>7, <1>8, <1>9 DEF Manifest
<1> QED
  BY <1>1, <1>2, <1>3, <1>5, <1>6, <1>7, <1>8, <1>10

(* What a commit leaves of the receipts, and which upgrade it records. *)
LEMMA CommitReceipts ==
  ASSUME SkillsInv, NEW c \in Caller, Commits(c), NEW q, NEW b,
         q = call[c].req, b = call[c].batch
  PROVE  /\ receipts' = [i \in Ids |-> receipts'[i]]
         /\ receipts'[q.id].req = q /\ receipts'[q.id].batch = b /\ receipts'[q.id].error = "none"
         /\ \A j \in Recorded' : (j \in Recorded /\ receipts'[j] = receipts[j]) \/ j = q.id
         /\ \A j \in Committed' : (j \in Committed /\ receipts'[j] = receipts[j]) \/ j = q.id
         /\ \A p, n : UpgradeWrote(p, n)' =>
               \/ UpgradeWrote(p, n)
               \/ q.op = "ensure" /\ p \in DOMAIN b.changes /\ b.changes[p].exp + 1 = n
         /\ \A p, n : OtherWrote(p, n)' =>
               \/ OtherWrote(p, n)
               \/ q.op # "ensure" /\ p \in DOMAIN b.changes /\ b.changes[p].exp + 1 = n
<1>1. q.id \in Ids
  BY CommitIs
<1> DEFINE new == [req |-> q, error |-> "none", batch |-> b]
<1>2. receipts' = [receipts EXCEPT ![q.id] = new]
  BY DEF Commits
<1>3. new.req = q /\ new.error = "none" /\ new.batch = b
  OBVIOUS
<1> HIDE DEF new
<1>4. /\ receipts' = [i \in Ids |-> receipts'[i]] /\ receipts'[q.id] = new
      /\ \A i \in Ids : i # q.id => receipts'[i] = receipts[i]
  BY <1>1, <1>2 DEF SkillsInv, Types
<1>5. /\ \A j \in Recorded' : (j \in Recorded /\ receipts'[j] = receipts[j]) \/ j = q.id
      /\ \A j \in Committed' : (j \in Committed /\ receipts'[j] = receipts[j]) \/ j = q.id
  BY <1>4 DEF Recorded, Committed
<1>6. \A p, n : UpgradeWrote(p, n)' =>
               \/ UpgradeWrote(p, n)
               \/ q.op = "ensure" /\ p \in DOMAIN b.changes /\ b.changes[p].exp + 1 = n
  BY <1>3, <1>4, <1>5 DEF UpgradeWrote, Wrote
<1>7. \A p, n : OtherWrote(p, n)' =>
               \/ OtherWrote(p, n)
               \/ q.op # "ensure" /\ p \in DOMAIN b.changes /\ b.changes[p].exp + 1 = n
  BY <1>3, <1>4, <1>5 DEF OtherWrote, Wrote
<1> QED
  BY <1>3, <1>4, <1>5, <1>6, <1>7

(* What a commit does to what upgrades have made. *)
LEMMA CommitBundles ==
  ASSUME SkillsInv, NEW c \in Caller, Commits(c), NEW q, NEW b,
         q = call[c].req, b = call[c].batch, NEW p \in Package
  PROVE  /\ q.op = "ensure" => IsBundled(p, q.bundle)'
         /\ q.op # "ensure" => \A bundle : IsBundled(p, bundle) => IsBundled(p, bundle)'
<1>1. /\ \A n : UpgradeWrote(p, n)' =>
            \/ UpgradeWrote(p, n)
            \/ q.op = "ensure" /\ p \in DOMAIN b.changes /\ b.changes[p].exp + 1 = n
  BY CommitReceipts
<1>2. /\ p \in DOMAIN b.changes => /\ native'[p].rev = native[p].rev + 1
                                   /\ native'[p].value = b.changes[p].value
      /\ p \notin DOMAIN b.changes => native'[p] = native[p]
      /\ native[p].rev \in Nat
      /\ b.manifest # None => b.manifest.rev = marker.rev
  BY CommitIs
<1>3. \A n \in Nat : UpgradeWrote(p, n) => n <= native[p].rev
  BY DEF SkillsInv, UpgradesInv
<1>4. CASE q.op = "ensure"
  <2>1. BatchFits(q, b)
    BY <1>4 DEF SkillsInv, CallsInv, Commits
  <2>2. CASE p \in DOMAIN b.changes
    <3>1. IF p \in DOMAIN q.bundle
          THEN b.changes[p].value # None /\ b.changes[p].value.files = q.bundle[p]
          ELSE b.changes[p].value = None
      BY <2>1, <2>2 DEF BatchFits
    <3> QED
      BY <1>2, <1>4, <2>2, <3>1 DEF IsBundled, Live
  <2>3. CASE p \notin DOMAIN b.changes
    <3>1. IsBundled(p, q.bundle)
      BY <1>2, <2>1, <2>3 DEF BatchFits
    <3>2. UpgradeWrote(p, native[p].rev)' => UpgradeWrote(p, native[p].rev)
      BY <1>1, <1>2, <2>3 DEF UpgradeWrote
    <3> QED
      BY <1>2, <1>4, <2>3, <3>1, <3>2 DEF IsBundled, Live
  <2> QED
    BY <1>4, <2>2, <2>3
<1>5. CASE q.op # "ensure"
  <2>1. CASE p \in DOMAIN b.changes
    <3>1. ~UpgradeWrote(p, native[p].rev + 1)
      BY <1>2, <1>3
    <3>2. ~UpgradeWrote(p, native[p].rev)'
      BY <1>1, <1>2, <1>5, <2>1, <3>1 DEF UpgradeWrote
    <3> QED
      BY <1>5, <3>2 DEF IsBundled
  <2>2. CASE p \notin DOMAIN b.changes
    <3>1. UpgradeWrote(p, native[p].rev)' => UpgradeWrote(p, native[p].rev)
      BY <1>1, <1>2, <2>2 DEF UpgradeWrote
    <3> QED
      BY <1>2, <1>5, <2>2, <3>1 DEF IsBundled, Live
  <2> QED
    BY <2>1, <2>2
<1> QED
  BY <1>4, <1>5

(* A commit keeps the types, *)
LEMMA CommitTypes ==
  ASSUME SkillsInv, NEW c \in Caller, Commits(c)
  PROVE  Types'
<1>1. PICK q, b : q = call[c].req /\ b = call[c].batch
  OBVIOUS
<1>2. /\ q \in Request /\ q.id \in Ids /\ IsBatch(b)
      /\ \A p \in DOMAIN b.changes : native'[p].rev = native[p].rev + 1
      /\ \A p \in Package \ DOMAIN b.changes : native'[p] = native[p]
      /\ \A p \in Package : native[p].rev \in Nat
      /\ native' \in [Package -> Resource] /\ marker' \in Manifest
      /\ b.manifest = None => marker' = marker
      /\ b.manifest # None => /\ marker'.packages = b.manifest.packages
                              /\ marker'.managed = b.manifest.managed
  BY <1>1, CommitIs
<1>3. \A p \in Package : native'[p].rev = 0 => ~Live(native'[p])
  <2>1. \A p \in Package : native[p].rev + 1 # 0
    BY <1>2
  <2> QED
    BY <1>2, <2>1 DEF SkillsInv, Types
<1>4. marker'.packages \subseteq marker'.managed
  <2>1. CASE q.op = "ensure"
    <3>1. BatchFits(q, b)
      BY <1>1, <2>1 DEF SkillsInv, CallsInv, Commits
    <3> QED
      BY <1>2, <3>1 DEF BatchFits
  <2>2. CASE q.op # "ensure"
    BY <1>1, <1>2, <2>2 DEF SkillsInv, CallsInv, Commits, Types
  <2> QED
    BY <2>1, <2>2
<1>5. /\ objects' \in [Package -> [rev : Nat, files : File \cup {None}, alias : BOOLEAN]]
      /\ \A p \in Package : objects'[p].rev # 0 => objects'[p].files \in File
  <2>1. /\ objects \in [Package -> [rev : Nat, files : File \cup {None}, alias : BOOLEAN]]
        /\ \A p \in Package : objects[p].rev # 0 => objects[p].files \in File
    BY DEF SkillsInv, Types
  <2>2. UNCHANGED objects \/ objects' = [objects EXCEPT ![q.pkg].alias = TRUE]
    BY <1>1 DEF Commits, Commit
  <2>3. CASE UNCHANGED objects
    BY <2>1, <2>3
  <2>4. CASE objects' = [objects EXCEPT ![q.pkg].alias = TRUE]
    <3>1. PICK p \in Package : p = q.pkg
      BY <1>2, RequestIs
    <3>2. PICK o : o = [objects[p] EXCEPT !.alias = TRUE]
      OBVIOUS
    <3>3. /\ o \in [rev : Nat, files : File \cup {None}, alias : BOOLEAN]
          /\ o.rev # 0 => o.files \in File
      BY <2>1, <3>2
    <3>4. objects' = [objects EXCEPT ![p] = o]
      BY <2>4, <3>1, <3>2
    <3> QED
      BY <2>1, <3>3, <3>4
  <2> QED
    BY <2>2, <2>3, <2>4
<1>6. /\ receipts' = [i \in Ids |-> receipts'[i]]
      /\ receipts'[q.id].req = q /\ receipts'[q.id].batch = b /\ receipts'[q.id].error = "none"
      /\ \A j \in Recorded' : (j \in Recorded /\ receipts'[j] = receipts[j]) \/ j = q.id
  BY <1>1, CommitReceipts
<1>7. \A i \in Recorded' :
         /\ receipts'[i].req \in Request /\ receipts'[i].req.id = i
         /\ receipts'[i].error \in {"none", "revision_conflict", "not_found",
                                    "source_revision_conflict"}
         /\ IsBatch(receipts'[i].batch)
  <2>1. ASSUME NEW i \in Recorded
        PROVE  /\ receipts[i].req \in Request /\ receipts[i].req.id = i
               /\ receipts[i].error \in {"none", "revision_conflict", "not_found",
                                         "source_revision_conflict"}
               /\ IsBatch(receipts[i].batch)
    BY DEF SkillsInv, Types
  <2> QED
    BY <1>2, <1>6, <2>1
<1>8. /\ call' = [d \in Caller |-> call'[d]] /\ call'[c].pc = "idle"
      /\ \A d \in Caller : d # c => call'[d] = call[d]
  BY DEF Commits, SkillsInv, Types, Return, Idle
<1>9. \A d \in Caller :
         /\ call'[d].pc \in {"idle", "fresh", "ready"}
         /\ call'[d].pc # "idle" => call'[d].req \in Request /\ call'[d].exp \in Nat
         /\ call'[d].pc = "ready" => IsBatch(call'[d].batch)
  BY <1>8 DEF SkillsInv, Types
<1>10. listing' = [r \in Reader |-> listing'[r]]
  BY DEF SkillsInv, Types, Commits
<1> QED
  BY <1>2, <1>3, <1>4, <1>5, <1>6, <1>7, <1>8, <1>9, <1>10 DEF Types, IsBatch, Live

(* and what a reader has listed, *)
LEMMA CommitListing ==
  ASSUME SkillsInv, NEW c \in Caller, Commits(c)
  PROVE  ListingInv'
<1>1. PICK q, b : q = call[c].req /\ b = call[c].batch
  OBVIOUS
<1>2. /\ \A p \in DOMAIN b.changes : native'[p].rev = native[p].rev + 1
      /\ \A p \in Package \ DOMAIN b.changes : native'[p] = native[p]
      /\ \A p \in Package : native[p].rev \in Nat
  BY <1>1, CommitIs
<1>3. UNCHANGED listing
  BY DEF Commits
<1>4. \A r \in Resource : r.rev \in Nat
  BY DEF Resource
<1> QED
  BY <1>2, <1>3, <1>4 DEF SkillsInv, ListingInv

(* and what the receipts of upgrades say of manifest and packages, *)
LEMMA CommitUpgrades ==
  ASSUME SkillsInv, NEW c \in Caller, Commits(c)
  PROVE  UpgradesInv'
<1>1. PICK q, b : q = call[c].req /\ b = call[c].batch
  OBVIOUS
<1>2. /\ IsBatch(b) /\ marker.rev \in Nat
      /\ \A p \in DOMAIN b.changes :
            b.changes[p].exp = native[p].rev /\ native'[p].rev = native[p].rev + 1
      /\ \A p \in Package \ DOMAIN b.changes : native'[p] = native[p]
      /\ \A p \in Package : native[p].rev \in Nat
      /\ b.manifest = None => marker' = marker
      /\ b.manifest # None => /\ b.manifest.rev = marker.rev
                              /\ marker'.rev = marker.rev + 1
                              /\ marker'.packages = b.manifest.packages
                              /\ marker'.managed = b.manifest.managed
  BY <1>1, CommitIs
<1>3. /\ receipts'[q.id].req = q /\ receipts'[q.id].batch = b
      /\ \A j \in Committed' : (j \in Committed /\ receipts'[j] = receipts[j]) \/ j = q.id
      /\ \A p, n : UpgradeWrote(p, n)' =>
            \/ UpgradeWrote(p, n)
            \/ q.op = "ensure" /\ p \in DOMAIN b.changes /\ b.changes[p].exp + 1 = n
      /\ \A p, n : OtherWrote(p, n)' =>
            \/ OtherWrote(p, n)
            \/ q.op # "ensure" /\ p \in DOMAIN b.changes /\ b.changes[p].exp + 1 = n
  BY <1>1, CommitReceipts
<1>4. /\ \A p \in Package, n \in Nat : UpgradeWrote(p, n) \/ OtherWrote(p, n) => n <= native[p].rev
      /\ \A p \in marker.managed : native[p].rev # 0 /\ ~OtherWrote(p, 1)
      /\ \A p \in Package \ marker.packages :
            UpgradeWrote(p, native[p].rev) => ~Live(native[p])
  BY DEF SkillsInv, UpgradesInv
<1>5. /\ q.op = "ensure" => BatchFits(q, b) /\ b.manifest # None
      /\ q.op # "ensure" => b.manifest = None
  BY <1>1 DEF SkillsInv, CallsInv, Commits, BatchFits
<1>6. /\ marker.managed \subseteq Package /\ marker.packages \subseteq Package
      /\ b.manifest # None => /\ b.manifest.managed \subseteq Package
  BY <1>2 DEF SkillsInv, Types, Manifest, IsBatch
<1>7. \A p \in Package, n \in Nat : UpgradeWrote(p, n)' \/ OtherWrote(p, n)' => n <= native'[p].rev
  <2> SUFFICES ASSUME NEW p \in Package, NEW n \in Nat, UpgradeWrote(p, n)' \/ OtherWrote(p, n)'
               PROVE  n <= native'[p].rev
    OBVIOUS
  <2>1. n <= native[p].rev \/ (p \in DOMAIN b.changes /\ b.changes[p].exp + 1 = n)
    BY <1>3, <1>4
  <2> QED
    BY <1>2, <2>1
<1>8. \A p \in marker'.managed : native'[p].rev # 0 /\ ~OtherWrote(p, 1)'
  <2> SUFFICES ASSUME NEW p \in marker'.managed
               PROVE  native'[p].rev # 0 /\ ~OtherWrote(p, 1)'
    OBVIOUS
  <2>1. CASE q.op = "ensure"
    <3>1. /\ p \in b.manifest.managed /\ p \in Package
          /\ p \in marker.managed \/ p \in DOMAIN b.changes
          /\ p \in DOMAIN b.changes => b.changes[p].exp = 0 \/ p \in marker.managed
      BY <1>2, <1>5, <1>6, <2>1 DEF BatchFits
    <3>2. ~OtherWrote(p, 1)
      BY <1>2, <1>4, <3>1
    <3>3. ~OtherWrote(p, 1)'
      BY <1>3, <2>1, <3>2
    <3>4. native'[p].rev # 0
      BY <1>2, <1>4, <3>1
    <3> QED
      BY <3>3, <3>4
  <2>2. CASE q.op # "ensure"
    <3>1. p \in marker.managed /\ p \in Package
      BY <1>2, <1>5, <1>6, <2>2
    <3>2. native[p].rev # 0 /\ ~OtherWrote(p, 1)
      BY <1>4, <3>1
    <3>3. p \in DOMAIN b.changes => b.changes[p].exp + 1 # 1
      BY <1>2, <3>1, <3>2
    <3> QED
      BY <1>2, <1>3, <3>1, <3>2, <3>3
  <2> QED
    BY <2>1, <2>2
<1>9. ASSUME NEW p \in Package
      PROVE  /\ q.op = "ensure" => IsBundled(p, q.bundle)'
             /\ q.op # "ensure" => \A bundle : IsBundled(p, bundle) => IsBundled(p, bundle)'
  BY <1>1, CommitBundles
<1>10. (\A p \in Package \ marker.packages :
           UpgradeWrote(p, native[p].rev) => ~Live(native[p]))'
  <2> SUFFICES ASSUME NEW p \in Package \ marker'.packages
               PROVE  (UpgradeWrote(p, native[p].rev) => ~Live(native[p]))'
    OBVIOUS
  <2>1. CASE q.op = "ensure"
    <3>1. p \notin DOMAIN q.bundle
      BY <1>2, <1>5, <2>1 DEF BatchFits
    <3> QED
      BY <1>9, <2>1, <3>1 DEF IsBundled
  <2>2. CASE q.op # "ensure"
    <3>1. IsBundled(p, <<>>)
      BY <1>2, <1>4, <1>5, <2>2 DEF IsBundled
    <3>2. IsBundled(p, <<>>)'
      BY <1>9, <2>2, <3>1
    <3> QED
      BY <3>2 DEF IsBundled
  <2> QED
    BY <2>1, <2>2
<1>11. ASSUME NEW i \in Committed', receipts'[i].req.op = "ensure"
       PROVE  LET m == receipts'[i].batch.manifest
              IN  /\ m # None /\ m.rev < marker'.rev
                  /\ m.rev + 1 = marker'.rev =>
                        \A p \in Package : IsBundled(p, receipts[i].req.bundle)'
  <2>1. CASE i = q.id
    <3>1. receipts'[i].req = q /\ receipts'[i].batch = b /\ q.op = "ensure"
      BY <1>3, <1>11, <2>1
    <3>2. b.manifest # None /\ b.manifest.rev < marker'.rev
      BY <1>2, <1>5, <3>1
    <3>3. \A p \in Package : IsBundled(p, receipts[i].req.bundle)'
      BY <1>9, <3>1 DEF IsBundled
    <3> QED
      BY <3>1, <3>2, <3>3
  <2>2. CASE i # q.id
    <3>1. i \in Committed /\ receipts'[i] = receipts[i]
      BY <1>3, <1>11, <2>2
    <3> DEFINE m == receipts[i].batch.manifest
    <3>2. /\ m # None /\ m.rev < marker.rev
          /\ m.rev + 1 = marker.rev => \A p \in Package : IsBundled(p, receipts[i].req.bundle)
      BY <1>11, <3>1 DEF SkillsInv, UpgradesInv
    <3>3. m.rev \in Nat
      BY <3>1, <3>2 DEF SkillsInv, Types, Committed, IsBatch, Manifest
    <3>4. CASE q.op = "ensure"
      BY <1>2, <1>5, <3>1, <3>2, <3>3, <3>4
    <3>5. CASE q.op # "ensure"
      <4>1. marker' = marker
        BY <1>2, <1>5, <3>5
      <4>2. PICK bundle : bundle = receipts[i].req.bundle /\ bundle = receipts'[i].req.bundle
        BY <3>1
      <4>3. m.rev + 1 = marker.rev => \A p \in Package : IsBundled(p, bundle)'
        BY <1>9, <3>2, <3>5, <4>2
      <4>4. m.rev + 1 = marker.rev => \A p \in Package : IsBundled(p, receipts[i].req.bundle)'
        BY <4>2, <4>3 DEF IsBundled
      <4> QED
        BY <3>1, <3>2, <4>1, <4>4
    <3> QED
      BY <3>4, <3>5
  <2> QED
    BY <2>1, <2>2
<1> QED
  BY <1>7, <1>8, <1>10, <1>11 DEF UpgradesInv


(* and what the other open calls have read. *)
LEMMA CommitCalls ==
  ASSUME SkillsInv, NEW c \in Caller, Commits(c)
  PROVE  CallsInv'
<1>1. PICK q, b : q = call[c].req /\ b = call[c].batch
  OBVIOUS
<1>2. /\ marker.rev \in Nat
      /\ \A p \in Package : native[p].rev \in Nat
      /\ \A p \in Package : \/ native'[p] = native[p]
                            \/ native'[p].rev = native[p].rev + 1
      /\ b.manifest = None => marker' = marker
      /\ b.manifest # None => marker'.rev = marker.rev + 1
  BY <1>1, CommitIs
<1>3. /\ q.op = "ensure" => b.manifest # None
      /\ q.op # "ensure" => b.manifest = None
  BY <1>1 DEF SkillsInv, CallsInv, Commits, BatchFits
<1>4. /\ call'[c].pc = "idle"
      /\ \A d \in Caller : d # c => call'[d] = call[d]
  BY DEF Commits, SkillsInv, Types, Return, Idle
<1>5. ASSUME NEW r, NEW s, IsBatch(s), BatchFits(r, s) PROVE BatchFits(r, s)'
  <2> DEFINE m == s.manifest
  <2>1. m # None /\ m.rev \in Nat /\ m.managed \subseteq Package /\ m.rev <= marker.rev
    BY <1>5 DEF BatchFits, IsBatch, Manifest
  <2>2. m.rev <= marker'.rev
    BY <1>2, <2>1
  <2>3. ASSUME NEW p \in DOMAIN s.changes
        PROVE  LET new == s.changes[p]
               IN  /\ new.exp <= native'[p].rev
                   /\ IF p \in DOMAIN r.bundle
                      THEN new.value # None /\ new.value.files = r.bundle[p]
                      ELSE new.value = None
                   /\ new.exp = native'[p].rev /\ Live(native[p])' /\ new.value # None =>
                         new.value.enabled = native'[p].value.enabled
    <3>1. p \in Package /\ s.changes[p].exp \in Nat
      BY <1>5 DEF IsBatch
    <3>2. /\ s.changes[p].exp <= native[p].rev
          /\ IF p \in DOMAIN r.bundle
             THEN s.changes[p].value # None /\ s.changes[p].value.files = r.bundle[p]
             ELSE s.changes[p].value = None
          /\ s.changes[p].exp = native[p].rev /\ Live(native[p]) /\ s.changes[p].value # None =>
                s.changes[p].value.enabled = native[p].value.enabled
      BY <1>5 DEF BatchFits
    <3>3. CASE native'[p] = native[p]
      BY <3>2, <3>3 DEF Live
    <3>4. CASE native'[p].rev = native[p].rev + 1
      BY <1>2, <3>1, <3>2, <3>4
    <3> QED
      BY <1>2, <3>1, <3>3, <3>4
  <2>4. \A p \in m.managed \ DOMAIN s.changes : native'[p].rev # 0
    <3>1. \A p \in m.managed \ DOMAIN s.changes : native[p].rev # 0
      BY <1>5 DEF BatchFits
    <3>2. \A p \in Package : native[p].rev # 0 => native'[p].rev # 0
      BY <1>2
    <3> QED
      BY <2>1, <3>1, <3>2
  <2>5. ASSUME m.rev = marker'.rev
        PROVE  /\ \A p \in DOMAIN s.changes : s.changes[p].exp = 0 \/ p \in marker'.managed
               /\ m.managed \subseteq marker'.managed \cup DOMAIN s.changes
               /\ \A p \in Package \ DOMAIN s.changes : IsBundled(p, r.bundle)'
    <3>1. q.op # "ensure" /\ marker' = marker
      BY <1>2, <1>3, <2>1, <2>5
    <3>2. \A p \in Package : \A bundle : IsBundled(p, bundle) => IsBundled(p, bundle)'
      BY <1>1, <3>1, CommitBundles
    <3>3. \A p \in Package \ DOMAIN s.changes : IsBundled(p, r.bundle)
      BY <1>5, <2>5, <3>1 DEF BatchFits
    <3> QED
      BY <1>5, <2>5, <3>1, <3>2, <3>3 DEF BatchFits
  <2> QED
    BY <1>5, <2>2, <2>3, <2>4, <2>5 DEF BatchFits
<1>6. SUFFICES ASSUME NEW d \in Caller, call'[d].pc = "ready"
               PROVE  IF call'[d].req.op = "ensure"
                      THEN BatchFits(call[d].req, call[d].batch)'
                      ELSE call'[d].batch.manifest = None
  BY DEF CallsInv
<1>7. call'[d] = call[d] /\ call[d].pc = "ready"
  BY <1>4, <1>6
<1>8. IsBatch(call[d].batch)
  BY <1>7 DEF SkillsInv, Types
<1>9. IF call'[d].req.op = "ensure"
      THEN BatchFits(call'[d].req, call'[d].batch)
      ELSE call'[d].batch.manifest = None
  BY <1>7 DEF SkillsInv, CallsInv
<1> QED
  BY <1>5, <1>7, <1>8, <1>9

LEMMA CommitInv ==
  ASSUME SkillsInv, NEW c \in Caller, Commits(c)
  PROVE  SkillsInv'
BY CommitTypes, CommitListing, CommitUpgrades, CommitCalls DEF SkillsInv

(* A batch is answered from its receipt, rejected or committed. *)
LEMMA SubmitCases ==
  ASSUME SkillsInv, NEW c \in Caller, Submit(c)
  PROVE  \/ Commits(c)
         \/ /\ UNCHANGED <<native, marker, objects, listing>> /\ Return(c) /\ call[c].pc = "ready"
            /\ \/ UNCHANGED receipts
               \/ /\ receipts[call[c].req.id] = None
                  /\ Reason(call[c].req, call[c].batch) # "none"
                  /\ receipts' = [receipts EXCEPT ![call[c].req.id] =
                        [req |-> call[c].req, error |-> Reason(call[c].req, call[c].batch),
                         batch |-> call[c].batch]]
<1>1. CASE Malformed(call[c].batch) \/ receipts[call[c].req.id] # None
  BY <1>1 DEF Submit, storeVars
<1>2. CASE ~(Malformed(call[c].batch) \/ receipts[call[c].req.id] # None)
  BY <1>2 DEF Submit, Commits
<1> QED
  BY <1>1, <1>2

LEMMA SubmitInv ==
  ASSUME SkillsInv, NEW c \in Caller, Submit(c)
  PROVE  SkillsInv'
BY SubmitCases, CommitInv, RejectedInv

-----------------------------------------------------------------------------
(* The store, its receipts and the calls are as they were. *)
LEMMA PutObjectInv ==
  ASSUME SkillsInv, NEW p \in Package, NEW f \in Legacy[p], PutObject(p, f)
  PROVE  SkillsInv'
<1>1. UNCHANGED <<native, marker, receipts, call, listing>>
  BY DEF PutObject
<1>2. f \in File
  BY SkillsAssumption
<1>3. /\ objects' \in [Package -> [rev : Nat, files : File \cup {None}, alias : BOOLEAN]]
      /\ \A x \in Package : objects'[x].rev # 0 => objects'[x].files \in File
  <2>1. /\ objects \in [Package -> [rev : Nat, files : File \cup {None}, alias : BOOLEAN]]
        /\ \A x \in Package : objects[x].rev # 0 => objects[x].files \in File
    BY DEF SkillsInv, Types
  <2>2. PICK o : o = [objects[p] EXCEPT !.rev = @ + 1, !.files = f]
    OBVIOUS
  <2>3. o = [rev |-> objects[p].rev + 1, files |-> f, alias |-> objects[p].alias]
    BY <2>1, <2>2
  <2>4. o \in [rev : Nat, files : File \cup {None}, alias : BOOLEAN] /\ o.files \in File
    BY <1>2, <2>1, <2>3
  <2>5. objects' = [objects EXCEPT ![p] = o]
    <3>1. PICK once : once = [objects EXCEPT ![p].rev = @ + 1]
      OBVIOUS
    <3>2. once = [objects EXCEPT ![p] = [objects[p] EXCEPT !.rev = @ + 1]]
      BY <3>1
    <3>3. objects' = [once EXCEPT ![p].files = f]
      BY <3>1 DEF PutObject
    <3>4. objects' = [once EXCEPT ![p] = [once[p] EXCEPT !.files = f]]
      BY <3>3
    <3>5. once[p] = [objects[p] EXCEPT !.rev = @ + 1]
      BY <2>1, <3>2
    <3>6. once[p] = [rev |-> objects[p].rev + 1, files |-> objects[p].files,
                     alias |-> objects[p].alias]
      BY <2>1, <3>5
    <3>7. [once[p] EXCEPT !.files = f] = o
      BY <2>3, <3>6
    <3> QED
      BY <2>1, <3>2, <3>4, <3>7
  <2> QED
    BY <2>1, <2>4, <2>5
<1>4. Types'
  BY <1>1, <1>3 DEF SkillsInv, Types, Recorded, Live
<1>5. ListingInv' /\ UpgradesInv'
  BY <1>1, StoreKept DEF SkillsInv, ListingInv, Committed, Recorded
<1>6. CallsInv'
  BY <1>1, CallsKept DEF SkillsInv
<1> QED
  BY <1>4, <1>5, <1>6 DEF SkillsInv

LEMMA RestartInv ==
  ASSUME SkillsInv, Restart
  PROVE  SkillsInv'
<1>1. UNCHANGED <<native, marker, objects, receipts, listing>>
      /\ call' = [c \in Caller |-> call'[c]]
      /\ \A c \in Caller : call'[c].pc = "idle"
  BY DEF Restart, storeVars, Idle
<1>2. Types'
  BY <1>1 DEF SkillsInv, Types, Recorded, Live
<1>3. ListingInv' /\ UpgradesInv'
  BY <1>1, StoreKept DEF SkillsInv, ListingInv, Committed, Recorded
<1>4. CallsInv'
  BY <1>1 DEF CallsInv
<1> QED
  BY <1>2, <1>3, <1>4 DEF SkillsInv

LEMMA ListInv ==
  ASSUME SkillsInv, NEW r \in Reader, List(r)
  PROVE  SkillsInv'
<1> DEFINE seen == {p \in Package : Owned(p, r)}
           new == Restrict(native, seen)
<1>1. UNCHANGED <<native, marker, objects, receipts, call>>
  BY DEF List, storeVars
<1>2. DOMAIN new = seen /\ \A p \in seen : new[p] = native[p]
  BY DEF Restrict
<1>3. listing' = [listing EXCEPT ![r] = new]
  BY DEF List
<1> HIDE DEF new
<1>4. /\ listing' = [x \in Reader |-> listing'[x]] /\ listing'[r] = new
      /\ \A x \in Reader : x # r => listing'[x] = listing[x]
  BY <1>3 DEF SkillsInv, Types
<1>5. \A p \in seen : /\ p \in Package /\ native[p] \in Resource /\ native[p].rev # 0
                      /\ native[p].rev \in Nat
  BY DEF Owned, SkillsInv, Types, Resource
<1>6. ListingInv'
  <2> SUFFICES ASSUME NEW x \in Reader, NEW p \in DOMAIN listing'[x]
               PROVE  /\ p \in Package /\ listing'[x][p] \in Resource /\ listing'[x][p].rev # 0
                      /\ listing'[x][p].rev <= native'[p].rev
                      /\ listing'[x][p].rev = native'[p].rev =>
                            listing'[x][p].value = native'[p].value
    BY DEF ListingInv
  <2>1. CASE x = r
    BY <1>1, <1>2, <1>4, <1>5, <2>1
  <2>2. CASE x # r
    BY <1>1, <1>4, <2>2 DEF SkillsInv, ListingInv
  <2> QED
    BY <2>1, <2>2
<1>7. Types'
  BY <1>1, <1>4 DEF SkillsInv, Types, Recorded, Live
<1>8. UpgradesInv'
  BY <1>1, StoreKept DEF SkillsInv, Committed, Recorded
<1>9. CallsInv'
  BY <1>1, CallsKept DEF SkillsInv
<1> QED
  BY <1>6, <1>7, <1>8, <1>9 DEF SkillsInv

(* Each step keeps SkillsInv. *)
LEMMA NextSkillsInv == SkillsInv /\ [Next]_vars => SkillsInv'
<1> SUFFICES ASSUME SkillsInv, [Next]_vars PROVE SkillsInv'
  OBVIOUS
<1>1. CASE UNCHANGED vars
  <2>1. UNCHANGED <<native, marker, objects, receipts, call, listing>>
    BY <1>1 DEF vars
  <2>2. Types' /\ ListingInv'
    BY <2>1 DEF SkillsInv, Types, ListingInv, Recorded, Live
  <2>3. UpgradesInv' /\ CallsInv'
    BY <2>1, StoreKept, CallsKept DEF SkillsInv, Committed, Recorded
  <2> QED
    BY <2>2, <2>3 DEF SkillsInv
<1>2. ASSUME NEW c \in Caller, NEW q \in Request, Begin(c, q) PROVE SkillsInv'
  BY <1>2, BeginInv
<1>3. ASSUME NEW c \in Caller, ReadForReplace(c) \/ ReadForChange(c) \/ ReadForImport(c)
      PROVE  SkillsInv'
  BY <1>3, ReadForPackageInv
<1>4. ASSUME NEW c \in Caller, ReadForEnsure(c) PROVE SkillsInv'
  BY <1>4, ReadForEnsureInv
<1>5. ASSUME NEW c \in Caller, Submit(c) PROVE SkillsInv'
  BY <1>5, SubmitInv
<1>6. ASSUME NEW p \in Package, NEW f \in Legacy[p], PutObject(p, f) PROVE SkillsInv'
  BY <1>6, PutObjectInv
<1>7. CASE Restart
  BY <1>7, RestartInv
<1>8. ASSUME NEW r \in Reader, List(r) PROVE SkillsInv'
  BY <1>8, ListInv
<1> QED
  BY <1>1, <1>2, <1>3, <1>4, <1>5, <1>6, <1>7, <1>8 DEF Next

-----------------------------------------------------------------------------
(* What is listed, managed, computed and recorded is always as SkillsInv   *)
(* says, at every step of every call (native_skills.go).                   *)
THEOREM SkillsInvariant == Spec => []SkillsInv
<1>1. Init => SkillsInv
  BY InitSkillsInv
<1>2. SkillsInv /\ [Next]_vars => SkillsInv'
  BY NextSkillsInv
<1> QED
  BY <1>1, <1>2, PTL DEF Spec

(* Every variable keeps its type, and what is published is managed. *)
THEOREM SkillTypes == Spec => []TypeOK
<1>1. SkillsInv => TypeOK
  BY DEF SkillsInv, Types, ListingInv, TypeOK
<1> QED
  BY <1>1, SkillsInvariant, PTL

(* SkillPackageRead never answers the bytes of another revision than the   *)
(* one SkillPackageList has shown.                                         *)
THEOREM ReadsAreOfTheListing == Spec => []ReadsMatchListing
<1>1. ASSUME SkillsInv, NEW r \in Reader, NEW p \in DOMAIN listing[r]
      PROVE  SkillPackageRead(r, p) \in {None, listing[r][p].value.files}
  <2>1. /\ listing[r][p].rev # 0
        /\ listing[r][p].rev = native[p].rev => listing[r][p].value = native[p].value
    BY <1>1 DEF SkillsInv, ListingInv
  <2> QED
    BY <2>1 DEF SkillPackageRead, Readable
<1>2. SkillsInv => ReadsMatchListing
  BY <1>1 DEF ReadsMatchListing
<1> QED
  BY <1>2, SkillsInvariant, PTL

(* However SkillBundledEnsure calls overlap, what they have made of the    *)
(* packages is the bundle of the version that wrote the manifest.          *)
THEOREM BundlesStayWhole == Spec => []BundlesDoNotMix
<1>1. ASSUME SkillsInv, NEW i \in Committed, receipts[i].req.op = "ensure",
             receipts[i].batch.manifest.rev + 1 = marker.rev,
             NEW p \in Package, NEW j \in Committed,
             receipts[j].req.op = "ensure", Wrote(j, p, native[p].rev)
      PROVE  IF p \in DOMAIN receipts[i].req.bundle
             THEN Live(native[p]) /\ native[p].value.files = receipts[i].req.bundle[p]
             ELSE ~Live(native[p])
  <2>1. IsBundled(p, receipts[i].req.bundle)
    BY <1>1 DEF SkillsInv, UpgradesInv
  <2>2. UpgradeWrote(p, native[p].rev)
    BY <1>1 DEF UpgradeWrote
  <2> QED
    BY <2>1, <2>2 DEF IsBundled
<1>2. SkillsInv => BundlesDoNotMix
  BY <1>1 DEF BundlesDoNotMix
<1> QED
  BY <1>2, SkillsInvariant, PTL

(* The upgrade's commit finds the store as its reading left it, wherever   *)
(* the two meet.                                                           *)
LEMMA CommitSpares ==
  ASSUME SkillsInv, NEW c \in Caller, Commits(c), NEW p \in Package,
         call[c].req.op = "ensure"
  PROVE  /\ Live(native[p]) /\ Live(native'[p]) =>
                native'[p].value.enabled = native[p].value.enabled
         /\ \A j \in Committed : receipts[j].req.op # "ensure" /\ Wrote(j, p, 1) =>
                native'[p] = native[p]
<1>1. PICK q, b : q = call[c].req /\ b = call[c].batch
  OBVIOUS
<1>2. /\ b.manifest # None => b.manifest.rev = marker.rev
      /\ p \in DOMAIN b.changes => /\ b.changes[p].exp = native[p].rev
                                   /\ native'[p].value = b.changes[p].value
      /\ p \notin DOMAIN b.changes => native'[p] = native[p]
      /\ native[p].rev \in Nat
  BY <1>1, CommitIs
<1>3. BatchFits(q, b)
  BY <1>1 DEF SkillsInv, CallsInv, Commits
<1>4. ASSUME p \in DOMAIN b.changes, OtherWrote(p, 1)
      PROVE  FALSE
  <2>1. native[p].rev = 0 \/ p \in marker.managed
    BY <1>2, <1>3, <1>4 DEF BatchFits
  <2>2. p \notin marker.managed /\ 1 <= native[p].rev
    BY <1>4 DEF SkillsInv, UpgradesInv
  <2> QED
    BY <2>1, <2>2
<1>5. CASE p \in DOMAIN b.changes
  <2>1. Live(native[p]) /\ b.changes[p].value # None =>
            b.changes[p].value.enabled = native[p].value.enabled
    BY <1>2, <1>3, <1>5 DEF BatchFits
  <2>2. \A j \in Committed : ~(receipts[j].req.op # "ensure" /\ Wrote(j, p, 1))
    BY <1>4, <1>5 DEF OtherWrote
  <2> QED
    BY <1>2, <1>5, <2>1, <2>2 DEF Live
<1>6. CASE p \notin DOMAIN b.changes
  BY <1>2, <1>6
<1> QED
  BY <1>5, <1>6

(* An upgrade leaves switches as installers set them, and touches nothing  *)
(* that they or a migration created (the collision check of                *)
(* SkillBundledEnsure and the revisions its batch expects).                *)
THEOREM UpgradesSpareInstallers == Spec => UpgradeSparesInstallers
<1>1. ASSUME SkillsInv, [Next]_vars, NEW p \in Package, NEW i \in NewReceipts,
             receipts'[i].req.op = "ensure"
      PROVE  /\ Live(native[p]) /\ Live(native'[p]) =>
                    native'[p].value.enabled = native[p].value.enabled
             /\ \A j \in Committed : receipts[j].req.op # "ensure" /\ Wrote(j, p, 1) =>
                    native'[p] = native[p]
  <2>1. receipts' # receipts
    BY <1>1 DEF NewReceipts
  <2>2. PICK c \in Caller : Submit(c)
    BY <1>1, <2>1 DEF Next, Begin, ReadForReplace, ReadForChange, ReadForEnsure, ReadForImport,
                      PutObject, Restart, List, storeVars, vars
  <2>3. CASE Commits(c)
    <3>1. i = call[c].req.id /\ receipts'[i].req = call[c].req
      <4>1. call[c].req.id \in Ids
        BY <1>1, <2>3, CommitIs
      <4>2. /\ receipts'[call[c].req.id].req = call[c].req
            /\ \A j \in Recorded' :
                  (j \in Recorded /\ receipts'[j] = receipts[j]) \/ j = call[c].req.id
        BY <1>1, <2>3, CommitReceipts
      <4> QED
        BY <1>1, <4>1, <4>2 DEF NewReceipts, Recorded
    <3> QED
      BY <1>1, <2>3, <3>1, CommitSpares
  <2>4. CASE ~Commits(c)
    BY <1>1, <2>2, <2>4, SubmitCases
  <2> QED
    BY <2>3, <2>4
<1>2. SkillsInv /\ [Next]_vars =>
        [\A p \in Package, i \in NewReceipts : receipts'[i].req.op = "ensure" =>
          /\ Live(native[p]) /\ Live(native'[p]) =>
                native'[p].value.enabled = native[p].value.enabled
          /\ \A j \in Committed : receipts[j].req.op # "ensure" /\ Wrote(j, p, 1) =>
                native'[p] = native[p]]_vars
  BY <1>1
<1> QED
  BY <1>2, SkillsInvariant, PTL DEF Spec, UpgradeSparesInstallers
=============================================================================
