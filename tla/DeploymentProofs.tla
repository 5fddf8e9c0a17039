-------------------------- MODULE DeploymentProofs --------------------------
(***************************************************************************)
(* Deployment, for any commands, packages and releases, any number of them *)
(* at once and stopped anywhere: installs implement VersionedRoot, and the *)
(* program is a whole release at every moment of its updates.              *)
(***************************************************************************)
EXTENDS Deployment, FiniteSetTheorems, TLAPS

InstallerState ==
    [step: {"idle", "stat", "move", "mkdir", "open", "write",
            "unlink", "symlink", "rename", "remove"},
     pkg: Package \cup {None}, file: File \cup {None}]

RootTypes ==
    /\ tree \in [Build -> Tree \cup {NoTree}]
    /\ current \in Build \cup {None} /\ link \in Build \cup {None}
    /\ installer \in [Installer -> InstallerState]
    /\ disturbed \in SUBSET Build

Whole(p)   == [f \in File |-> {p}]
IsWhole(b) == \E p \in Sound : BuildOf[p] = b /\ tree[b] = Whole(p)

Active(i)  == installer[i].step # "idle"
Copying(i) == installer[i].step \in {"open", "write"}

(* What a copy has written so far, in the state q of its command. *)
Partial(q) ==
    IF q.file = "binary"
    THEN [f \in IF q.step = "open" THEN {} ELSE {"binary"} |-> {}]
    ELSE [f \in IF q.step = "open" THEN {"binary"} ELSE File |->
             IF f = "binary" THEN {q.pkg} ELSE {}]

(* Every command at work has a verified package, and a file to copy. *)
Working(i) ==
    /\ installer[i].pkg \in IF Active(i) THEN Sound ELSE {None}
    /\ Copying(i) => installer[i].file \in File /\ tree[BuildAt(i)] # NoTree

(* Two that place a build have disturbed each other. *)
Apart ==
    \A i, j \in Installer :
        Placing(i) /\ Placing(j) /\ i # j /\ BuildAt(i) = BuildAt(j) => BuildAt(i) \in disturbed

(* What a command knows of its build, if that is undisturbed, from where   *)
(* it is.                                                                  *)
Knows(i) ==
    BuildAt(i) \notin disturbed =>
        /\ installer[i].step \in {"move", "mkdir"} => tree[BuildAt(i)] = NoTree
        /\ Copying(i) => tree[BuildAt(i)] = Partial(installer[i])
        /\ installer[i].step \in {"unlink", "symlink", "rename", "remove"} =>
              IsWhole(BuildAt(i))

RootInv ==
    /\ RootTypes
    /\ Apart
    /\ \A i \in Installer : Working(i) /\ Knows(i)
    /\ \A b \in Build \ disturbed : \/ tree[b] = NoTree \/ IsWhole(b)
                                    \/ \E i \in Installer : Copying(i) /\ BuildAt(i) = b
    /\ link # None => link \in disturbed \/ IsWhole(link)
    /\ current # None => current \in disturbed \/ IsWhole(current)

-----------------------------------------------------------------------------
(* What the constants are: packages, their builds, their trees. *)
LEMMA Contents ==
  /\ NoTree = None /\ None \notin Tree /\ None \notin Build /\ None \notin Package
  /\ Sound \subseteq Package /\ \A p \in Package : BuildOf[p] \in Build
  /\ \A p \in Package : Whole(p) \in Tree /\ Whole(p) # NoTree
  /\ \A q \in InstallerState : q.pkg \in Package => Partial(q) \in Tree
<1>1. \A S \in SUBSET File : [S -> SUBSET Package] \subseteq Tree
  BY DEF Tree
<1>2. \A p \in Package : Whole(p) \in [File -> SUBSET Package]
  BY DEF Whole
<1>3. ASSUME NEW q \in InstallerState, q.pkg \in Package
      PROVE  Partial(q) \in Tree
  <2>1. \A S \in SUBSET File : [f \in S |-> {}] \in [S -> SUBSET Package]
    OBVIOUS
  <2>2. \A S \in SUBSET File :
           [f \in S |-> IF f = "binary" THEN {q.pkg} ELSE {}] \in [S -> SUBSET Package]
    BY <1>3
  <2>3. {} \in SUBSET File /\ {"binary"} \in SUBSET File /\ File \in SUBSET File
    BY DEF File
  <2> QED
    BY <1>1, <2>1, <2>2, <2>3 DEF Partial
<1> QED
  BY <1>1, <1>2, <1>3, DeploymentAssumption DEF NoTree, Sound

(* What the system calls of a copy make of a tree is a tree. *)
LEMMA Trees ==
  /\ [f \in {} |-> {}] \in Tree
  /\ \A t \in Tree, g \in File, W \in SUBSET Package :
        /\ [f \in DOMAIN t \cup {g} |-> IF f = g THEN {} ELSE t[f]] \in Tree
        /\ [t EXCEPT ![g] = @ \cup W] \in Tree
<1>1. \A S \in SUBSET File : [S -> SUBSET Package] \subseteq Tree
  BY DEF Tree
<1>2. [f \in {} |-> {}] \in [{} -> SUBSET Package] /\ {} \in SUBSET File
  OBVIOUS
<1>3. ASSUME NEW t \in Tree, NEW g \in File, NEW W \in SUBSET Package
      PROVE  /\ [f \in DOMAIN t \cup {g} |-> IF f = g THEN {} ELSE t[f]] \in Tree
             /\ [t EXCEPT ![g] = @ \cup W] \in Tree
  <2>1. PICK S \in SUBSET File : t \in [S -> SUBSET Package]
    BY DEF Tree
  <2>2. /\ S \cup {g} \in SUBSET File /\ DOMAIN t = S
        /\ [f \in S \cup {g} |-> IF f = g THEN {} ELSE t[f]] \in [S \cup {g} -> SUBSET Package]
    BY <2>1
  <2>3. [t EXCEPT ![g] = @ \cup W] \in [S -> SUBSET Package]
    BY <2>1
  <2> QED
    BY <1>1, <2>1, <2>2, <2>3
<1> QED
  BY <1>1, <1>2, <1>3

(* RootInv holds in the beginning. *)
LEMMA InitRootInv == Init => RootInv
<1> SUFFICES ASSUME Init PROVE RootInv
  OBVIOUS
<1>1. RootTypes
  BY DEF Init, RootTypes, InstallerState, Done
<1>2. \A i \in Installer : installer[i].step = "idle" /\ installer[i].pkg = None
  BY DEF Init, Done
<1>3. Apart /\ \A i \in Installer : Working(i) /\ Knows(i)
  BY <1>2 DEF Apart, Working, Active, Placing, Knows, Copying
<1> QED
  BY <1>1, <1>3 DEF RootInv, Init

(* What a step of one command, from where it is to q, does to a build that *)
(* stays undisturbed.                                                      *)
CalmStep(i, b, q) ==
    /\ IsWhole(b) \/ ~Placing(i) => tree'[b] = tree[b]
    /\ q.step \in {"move", "mkdir", "open", "write"} => Placing(i) \/ Rivals(i) = {}
    /\ q.step \in {"idle", "stat"} => ~Copying(i) /\ tree'[b] = tree[b]
    /\ q.step \in {"move", "mkdir"} => tree'[b] = NoTree
    /\ q.step \in {"open", "write"} => tree'[b] = Partial(q)
    /\ q.step \in {"unlink", "symlink", "rename", "remove"} => IsWhole(b)'

(* A step of one command changes at most its own build. *)
LEMMA StepKeepsRoot ==
  ASSUME RootInv, NEW i \in Installer, NEW p \in Sound, NEW q \in InstallerState,
         Active(i), p = installer[i].pkg,
         installer' = [installer EXCEPT ![i] = q],
         q.pkg \in IF q.step = "idle" THEN {None} ELSE {p},
         tree' \in [Build -> Tree \cup {NoTree}],
         \A b \in Build : b # BuildOf[p] => tree'[b] = tree[b],
         tree[BuildOf[p]] # NoTree => tree'[BuildOf[p]] # NoTree,
         q.step \in {"open", "write"} => q.file \in File /\ tree'[BuildOf[p]] # NoTree,
         \/ link' \in {link, None}
         \/ link' = BuildOf[p] /\ (BuildOf[p] \in disturbed \/ IsWhole(BuildOf[p])),
         current' \in {current, link},
         disturbed' \in {disturbed, disturbed \cup {BuildOf[p]}},
         BuildOf[p] \notin disturbed' => CalmStep(i, BuildOf[p], q)
  PROVE  RootInv'
<1>1. /\ p \in Package /\ BuildOf[p] \in Build /\ BuildAt(i) = BuildOf[p]
      /\ installer'[i] = q /\ \A j \in Installer : j # i => installer'[j] = installer[j]
      /\ disturbed \subseteq disturbed'
  BY Contents DEF BuildAt, RootInv, RootTypes
<1>2. RootTypes'
  BY <1>1 DEF RootInv, RootTypes
<1>3. \A b \in Build \ disturbed' : IsWhole(b) => IsWhole(b)'
  BY DEF IsWhole, CalmStep
<1>4. \A j \in Installer : j # i => /\ BuildAt(j)' = BuildAt(j) /\ (Active(j)' <=> Active(j))
                                    /\ (Copying(j)' <=> Copying(j))
                                    /\ (Placing(j)' <=> Placing(j))
  BY <1>1 DEF BuildAt, Active, Copying, Placing
<1>5. /\ Active(i)' <=> q.step # "idle"
      /\ Copying(i)' <=> q.step \in {"open", "write"}
      /\ Placing(i)' <=> q.step \in {"move", "mkdir", "open", "write"}
      /\ Active(i)' => BuildAt(i)' = BuildOf[p] /\ installer'[i].pkg = p
      /\ ~Active(i)' => installer'[i].pkg = None
  BY <1>1 DEF Active, Copying, Placing, BuildAt
<1>6. Apart'
  <2> SUFFICES ASSUME NEW j \in Installer, NEW k \in Installer, Placing(j)', Placing(k)',
                      j # k, BuildAt(j)' = BuildAt(k)', BuildAt(j)' \notin disturbed'
               PROVE  FALSE
    BY DEF Apart
  <2>1. CASE j # i /\ k # i
    BY <1>1, <1>4, <2>1 DEF RootInv, Apart
  <2>2. ASSUME NEW k2 \in Installer, k2 # i, Placing(i)', Placing(k2)',
               BuildAt(i)' = BuildAt(k2)', BuildAt(i)' \notin disturbed'
        PROVE  FALSE
    <3>1. Active(i)' /\ BuildAt(i)' = BuildOf[p] /\ Placing(k2) /\ BuildAt(k2) = BuildAt(i)
      BY <1>1, <1>4, <1>5, <2>2 DEF Active, Placing
    <3>2. Placing(i) \/ Rivals(i) = {}
      BY <1>5, <2>2, <3>1 DEF CalmStep
    <3>3. Rivals(i) # {}
      BY <2>2, <3>1 DEF Rivals
    <3> QED
      BY <1>1, <2>2, <3>1, <3>2, <3>3 DEF RootInv, Apart
  <2> QED
    BY <2>1, <2>2
<1>7. ASSUME NEW j \in Installer, j # i PROVE Working(j)' /\ Knows(j)'
  <2>1. Working(j) /\ Knows(j) /\ installer'[j] = installer[j]
    BY <1>1, <1>7 DEF RootInv
  <2>2. CASE Active(j)
    <3>1. BuildAt(j) \in Build
      BY <2>1, <2>2, Contents DEF Working, BuildAt
    <3>2. Working(j)'
      BY <1>4, <1>7, <2>1, <2>2, <3>1 DEF Working
    <3>3. CASE BuildAt(j) # BuildOf[p]
      <4>1. tree'[BuildAt(j)] = tree[BuildAt(j)]
        BY <3>1, <3>3
      <4> QED
        BY <1>1, <1>3, <1>4, <1>7, <2>1, <3>1, <3>2, <4>1 DEF Knows, Copying
    <3>4. CASE BuildAt(j) = BuildOf[p] /\ BuildOf[p] \notin disturbed'
      <4>1. Placing(j) \/ IsWhole(BuildOf[p]) => tree'[BuildOf[p]] = tree[BuildOf[p]]
        BY <1>1, <1>7, <3>4 DEF RootInv, Apart, CalmStep
      <4>2. Copying(j) => Placing(j)
        BY DEF Copying, Placing
      <4>3. installer[j].step \in {"move", "mkdir"} => Placing(j)
        BY DEF Placing
      <4> QED
        BY <1>1, <1>3, <1>4, <1>7, <2>1, <3>2, <3>4, <4>1, <4>2, <4>3 DEF Knows, Copying
    <3>5. CASE BuildAt(j) = BuildOf[p] /\ BuildOf[p] \in disturbed'
      BY <1>4, <1>7, <3>2, <3>5 DEF Knows
    <3> QED
      BY <3>3, <3>4, <3>5
  <2>3. CASE ~Active(j)
    BY <2>1, <2>3 DEF Active, Working, Knows, Copying
  <2> QED
    BY <2>2, <2>3
<1>8. Working(i)' /\ Knows(i)'
  <2>1. Working(i)'
    BY <1>1, <1>5 DEF Working, Copying, Active
  <2>2. CASE q.step = "idle"
    BY <1>1, <2>1, <2>2 DEF Knows, Copying
  <2>3. CASE q.step # "idle" /\ BuildOf[p] \in disturbed'
    BY <1>5, <2>1, <2>3 DEF Knows
  <2>4. CASE q.step # "idle" /\ BuildOf[p] \notin disturbed'
    BY <1>1, <2>1, <1>5, <2>4 DEF Knows, Copying, CalmStep
  <2> QED
    BY <2>2, <2>3, <2>4
<1>9. ASSUME NEW b \in Build \ disturbed'
      PROVE  (\/ tree[b] = NoTree \/ IsWhole(b)
              \/ \E j \in Installer : Copying(j) /\ BuildAt(j) = b)'
  <2>1. \/ tree[b] = NoTree \/ IsWhole(b)
        \/ \E j \in Installer : Copying(j) /\ BuildAt(j) = b
    BY <1>1 DEF RootInv
  <2>2. CASE b # BuildOf[p]
    <3>1. tree'[b] = tree[b]
      BY <2>2
    <3>2. ASSUME NEW j \in Installer, Copying(j), BuildAt(j) = b
          PROVE  Copying(j)' /\ BuildAt(j)' = b
      BY <1>1, <1>4, <2>2, <3>2
    <3> QED
      BY <1>3, <2>1, <3>1, <3>2
  <2>3. CASE b = BuildOf[p] /\ q.step \in {"idle", "stat"}
    <3>1. tree'[b] = tree[b] /\ ~Copying(i)
      BY <2>3 DEF CalmStep
    <3>2. ASSUME NEW j \in Installer, Copying(j), BuildAt(j) = b
          PROVE  Copying(j)' /\ BuildAt(j)' = b
      BY <1>4, <3>1, <3>2
    <3> QED
      BY <1>3, <2>1, <3>1, <3>2
  <2>4. CASE b = BuildOf[p] /\ q.step \in {"open", "write"}
    <3>1. Copying(i)' /\ BuildAt(i)' = b
      BY <1>1, <1>5, <2>4 DEF Active
    <3> QED
      BY <3>1
  <2>5. CASE b = BuildOf[p] /\ q.step \in {"move", "mkdir"}
    BY <2>5 DEF CalmStep
  <2>6. CASE b = BuildOf[p] /\ q.step \in {"unlink", "symlink", "rename", "remove"}
    BY <2>6 DEF CalmStep
  <2> QED
    BY <2>2, <2>3, <2>4, <2>5, <2>6 DEF InstallerState
<1>10. (/\ link # None => link \in disturbed \/ IsWhole(link)
        /\ current # None => current \in disturbed \/ IsWhole(current))'
  <2>1. /\ link # None => link \in Build /\ (link \in disturbed \/ IsWhole(link))
        /\ current # None => current \in Build /\ (current \in disturbed \/ IsWhole(current))
    BY DEF RootInv, RootTypes
  <2>2. \A b \in Build : b \in disturbed \/ IsWhole(b) => b \in disturbed' \/ IsWhole(b)'
    BY <1>1, <1>3
  <2>3. link' # None => link' \in Build /\ (link' \in disturbed \/ IsWhole(link'))
    BY <1>1, <2>1
  <2>4. current' # None => current' \in Build /\ (current' \in disturbed \/ IsWhole(current'))
    BY <2>1
  <2>5. \A b : IsWhole(b)' <=> \E r \in Sound : BuildOf[r] = b /\ tree'[b] = Whole(r)
    BY DEF IsWhole
  <2> QED
    BY <2>2, <2>3, <2>4, <2>5 DEF IsWhole
<1> QED
  BY <1>2, <1>6, <1>7, <1>8, <1>9, <1>10 DEF RootInv

LEMMA StageInv ==
  ASSUME RootInv, NEW i \in Installer, NEW p \in Package, Stage(i, p)
  PROVE  RootInv'
<1> DEFINE q == [step |-> "stat", pkg |-> p, file |-> None]
<1>1. q \in InstallerState /\ q.step = "stat" /\ q.pkg = p
  BY DEF InstallerState
<1>2. /\ installer' = [installer EXCEPT ![i] = q] /\ p \in Sound
      /\ UNCHANGED <<tree, current, link, disturbed>>
  BY DEF Stage
<1> HIDE DEF q
<1>3. installer'[i] = q /\ \A j \in Installer : j # i => installer'[j] = installer[j]
  BY <1>2 DEF RootInv, RootTypes
<1>4. RootTypes'
  BY <1>1, <1>2 DEF RootInv, RootTypes
<1>5. Apart'
  BY <1>1, <1>2, <1>3 DEF RootInv, Apart, Placing, BuildAt
<1>6. \A j \in Installer : Working(j)' /\ Knows(j)'
  BY <1>1, <1>2, <1>3 DEF RootInv, Working, Knows, Active, Copying, BuildAt, IsWhole
<1>7. \A b \in Build \ disturbed' :
         (\/ tree[b] = NoTree \/ IsWhole(b)
          \/ \E j \in Installer : Copying(j) /\ BuildAt(j) = b)'
  <2> TAKE b \in Build \ disturbed'
  <2>1. \/ tree[b] = NoTree \/ IsWhole(b)
        \/ \E j \in Installer : Copying(j) /\ BuildAt(j) = b
    BY <1>2 DEF RootInv
  <2>2. ~Copying(i)
    BY DEF Stage, At, Copying
  <2> QED
    BY <1>2, <1>3, <2>1, <2>2 DEF Copying, BuildAt, IsWhole
<1> QED
  BY <1>2, <1>4, <1>5, <1>6, <1>7 DEF RootInv, IsWhole

(* What the commands write to a field or two is a state of theirs. *)
LEMMA Goes ==
  ASSUME RootInv, NEW i \in Installer, NEW s, Goto(i, s),
         s \in {"move", "mkdir", "open", "write", "unlink", "symlink", "rename", "remove"}
  PROVE  \E q \in InstallerState :
            /\ installer' = [installer EXCEPT ![i] = q]
            /\ q.step = s /\ q.pkg = installer[i].pkg /\ q.file = installer[i].file
<1> DEFINE q == [step |-> s, pkg |-> installer[i].pkg, file |-> installer[i].file]
<1>1. installer[i] \in InstallerState
  BY DEF RootInv, RootTypes
<1>2. q \in InstallerState
  BY <1>1 DEF InstallerState
<1>3. [installer[i] EXCEPT !.step = s] = q
  BY <1>1 DEF InstallerState
<1>4. installer' = [installer EXCEPT ![i] = q]
  BY <1>3 DEF Goto
<1> QED
  BY <1>2, <1>4

(* Two fields of a command, or one, are written. *)
LEMMA Edited ==
  ASSUME NEW r \in InstallerState, NEW s, NEW g
  PROVE  /\ [r EXCEPT !.step = s] = [step |-> s, pkg |-> r.pkg, file |-> r.file]
         /\ [r EXCEPT !.step = s, !.file = g] = [step |-> s, pkg |-> r.pkg, file |-> g]
<1>1. [r EXCEPT !.step = s] = [step |-> s, pkg |-> r.pkg, file |-> r.file]
  BY DEF InstallerState
<1>2. [[step |-> s, pkg |-> r.pkg, file |-> r.file] EXCEPT !.file = g] =
          [step |-> s, pkg |-> r.pkg, file |-> g]
  OBVIOUS
<1> QED
  BY <1>1, <1>2

(* An installer past its staging has a sound package and a build. *)
LEMMA ActivePackage ==
  ASSUME RootInv, NEW i \in Installer, Active(i)
  PROVE  /\ installer[i].pkg \in Sound /\ installer[i].pkg \in Package
         /\ BuildAt(i) = BuildOf[installer[i].pkg] /\ BuildAt(i) \in Build
         /\ installer[i] \in InstallerState
         /\ tree \in [Build -> Tree \cup {NoTree}] /\ disturbed \in SUBSET Build
BY Contents DEF RootInv, RootTypes, Working, BuildAt

(* A copy that is under way is not whole. *)
LEMMA PartialIsNotWhole ==
  ASSUME NEW q \in InstallerState, q.step \in {"open", "write"}, q.file \in File,
         q.pkg \in Package
  PROVE  Partial(q) # NoTree /\ \A p \in Package : Partial(q) # Whole(p)
<1> DEFINE t == Partial(q)
<1>1. t # NoTree
  BY Contents
<1>2. ASSUME NEW p \in Package, t = Whole(p) PROVE FALSE
  <2>1. DOMAIN t = File /\ "manifest" \in DOMAIN t /\ t["manifest"] = {p} /\ DOMAIN t # {"binary"}
    BY <1>2 DEF Whole, File
  <2>2. CASE q.file = "binary"
    BY <2>1, <2>2 DEF Partial
  <2>3. CASE q.file # "binary"
    BY <2>1, <2>3 DEF Partial
  <2> QED
    BY <2>2, <2>3
<1> QED
  BY <1>1, <1>2

(* What a command sees of its build while it puts it there. *)
LEMMA PlacingKnows ==
  ASSUME RootInv, NEW i \in Installer, Placing(i), BuildAt(i) \notin disturbed
  PROVE  /\ installer[i].step \in {"move", "mkdir"} => tree[BuildAt(i)] = NoTree
         /\ Copying(i) => tree[BuildAt(i)] = Partial(installer[i])
         /\ \A p \in Package : tree[BuildAt(i)] # Whole(p)
         /\ ~IsWhole(BuildAt(i))
<1>1. Knows(i) /\ Working(i) /\ Active(i)
  BY DEF RootInv, Placing, Active
<1>2. installer[i].pkg \in Package /\ installer[i] \in InstallerState
  BY <1>1, ActivePackage
<1>3. \A p \in Package : tree[BuildAt(i)] # Whole(p)
  <2>1. CASE installer[i].step \in {"move", "mkdir"}
    BY <1>1, <2>1, Contents DEF Knows
  <2>2. CASE Copying(i)
    BY <1>1, <1>2, <2>2, PartialIsNotWhole DEF Knows, Working, Copying
  <2> QED
    BY <2>1, <2>2 DEF Placing, Copying
<1> QED
  BY <1>1, <1>3, Contents DEF Knows, IsWhole

LEMMA StatInv ==
  ASSUME RootInv, NEW i \in Installer, Stat(i)
  PROVE  RootInv'
<1>1. Active(i) /\ ~Copying(i) /\ ~Placing(i) /\ installer[i].step = "stat"
  BY DEF Stat, At, Active, Copying, Placing
<1>2. PICK p \in Sound : p = installer[i].pkg
  BY <1>1, ActivePackage
<1>3. /\ BuildAt(i) = BuildOf[p] /\ BuildOf[p] \in Build /\ UNCHANGED <<tree, link, current>>
      /\ tree \in [Build -> Tree \cup {NoTree}]
      /\ disturbed' = disturbed \cup (IF Rivals(i) = {} THEN {} ELSE {BuildOf[p]})
  BY <1>1, <1>2, ActivePackage DEF Stat
<1>4. PICK s \in {"move", "unlink"} :
         /\ Goto(i, s)
         /\ s = "move" => tree[BuildOf[p]] = NoTree
         /\ s = "unlink" => tree[BuildOf[p]] # NoTree
  BY <1>3 DEF Stat
<1>5. PICK q \in InstallerState : /\ installer' = [installer EXCEPT ![i] = q]
                                  /\ q.step = s /\ q.pkg = p
  BY <1>2, <1>4, Goes
<1>6. IsWhole(BuildOf[p])' <=> IsWhole(BuildOf[p])
  BY <1>3 DEF IsWhole
<1>7. ASSUME BuildOf[p] \notin disturbed' PROVE CalmStep(i, BuildOf[p], q)
  <2>1. Rivals(i) = {} /\ BuildOf[p] \notin disturbed
    BY <1>3, <1>7
  <2>2. \A j \in Installer : Copying(j) => BuildAt(j) # BuildOf[p]
    BY <1>1, <1>3, <2>1 DEF Rivals, Placing, Copying
  <2>3. tree[BuildOf[p]] = NoTree \/ IsWhole(BuildOf[p])
    BY <1>3, <2>1, <2>2 DEF RootInv
  <2> QED
    BY <1>3, <1>4, <1>5, <1>6, <2>1, <2>3 DEF CalmStep
<1> QED
  BY <1>1, <1>2, <1>3, <1>5, <1>4, <1>7, StepKeepsRoot

(* What the step of a command that puts its build in place does to the     *)
(* builds that the abstract root sees.                                     *)
Places(i) ==
    /\ UNCHANGED <<current, disturbed>>
    /\ BuildAt(i) \in Build
    /\ \A b \in Build : b # BuildAt(i) => tree'[b] = tree[b]
    /\ BuildAt(i) \notin disturbed =>
          /\ \A p \in Package : tree[BuildAt(i)] # Whole(p)
          /\ \/ \A p \in Package : tree'[BuildAt(i)] # Whole(p)
             \/ \E p \in Sound : BuildOf[p] = BuildAt(i) /\ tree'[BuildAt(i)] = Whole(p)

LEMMA MoveInv ==
  ASSUME RootInv, NEW i \in Installer, Move(i)
  PROVE  RootInv' /\ Places(i)
<1>1. Active(i) /\ Placing(i) /\ installer[i].step = "move"
  BY DEF Move, At, Active, Placing
<1>2. PICK p \in Sound : p = installer[i].pkg
  BY <1>1, ActivePackage
<1>3. /\ BuildAt(i) = BuildOf[p] /\ BuildOf[p] \in Build /\ UNCHANGED <<link, current, disturbed>>
      /\ tree \in [Build -> Tree \cup {NoTree}] /\ p \in Package
  BY <1>1, <1>2, ActivePackage DEF Move
<1>4. BuildOf[p] \notin disturbed => /\ tree[BuildOf[p]] = NoTree /\ ~IsWhole(BuildOf[p])
                                     /\ \A r \in Package : tree[BuildOf[p]] # Whole(r)
  BY <1>1, <1>3, PlacingKnows
<1>5. CASE tree[BuildAt(i)] = NoTree /\ i \notin CrossDevice
  <2>1. tree' = [tree EXCEPT ![BuildOf[p]] = Whole(p)] /\ Goto(i, "unlink")
    BY <1>2, <1>3, <1>5 DEF Move, Whole
  <2>2. PICK q \in InstallerState : /\ installer' = [installer EXCEPT ![i] = q]
                                    /\ q.step = "unlink" /\ q.pkg = p
    BY <1>2, <2>1, Goes
  <2>3. /\ tree' \in [Build -> Tree \cup {NoTree}] /\ IsWhole(BuildOf[p])'
        /\ tree'[BuildOf[p]] = Whole(p) /\ tree'[BuildOf[p]] # NoTree
        /\ \A b \in Build : b # BuildOf[p] => tree'[b] = tree[b]
    BY <1>3, <2>1, Contents DEF IsWhole
  <2>4. BuildOf[p] \notin disturbed' => CalmStep(i, BuildOf[p], q)
    BY <1>1, <1>3, <1>4, <2>2, <2>3 DEF CalmStep
  <2>5. RootInv'
    BY <1>1, <1>2, <1>3, <2>2, <2>3, <2>4, StepKeepsRoot
  <2> QED
    BY <1>3, <1>4, <2>3, <2>5 DEF Places
<1>6. CASE ~(tree[BuildAt(i)] = NoTree /\ i \notin CrossDevice)
  <2>1. UNCHANGED tree /\ Goto(i, "mkdir")
    BY <1>3, <1>6 DEF Move
  <2>2. PICK q \in InstallerState : /\ installer' = [installer EXCEPT ![i] = q]
                                    /\ q.step = "mkdir" /\ q.pkg = p
    BY <1>2, <2>1, Goes
  <2>3. BuildOf[p] \notin disturbed' => CalmStep(i, BuildOf[p], q)
    BY <1>1, <1>3, <1>4, <2>1, <2>2 DEF CalmStep
  <2>4. RootInv'
    BY <1>1, <1>2, <1>3, <2>1, <2>2, <2>3, StepKeepsRoot
  <2> QED
    BY <1>3, <1>4, <2>1, <2>4 DEF Places
<1> QED
  BY <1>5, <1>6

LEMMA MakeDirectoryInv ==
  ASSUME RootInv, NEW i \in Installer, MakeDirectory(i)
  PROVE  RootInv' /\ Places(i)
<1>1. Active(i) /\ Placing(i) /\ installer[i].step = "mkdir"
  BY DEF MakeDirectory, At, Active, Placing
<1>2. PICK p \in Sound : p = installer[i].pkg
  BY <1>1, ActivePackage
<1>3. /\ BuildAt(i) = BuildOf[p] /\ BuildOf[p] \in Build /\ UNCHANGED <<link, current, disturbed>>
      /\ tree \in [Build -> Tree \cup {NoTree}]
  BY <1>1, <1>2, ActivePackage DEF MakeDirectory
<1>4. BuildOf[p] \notin disturbed => /\ tree[BuildOf[p]] = NoTree /\ ~IsWhole(BuildOf[p])
                                     /\ \A r \in Package : tree[BuildOf[p]] # Whole(r)
  BY <1>1, <1>3, PlacingKnows
<1>5. PICK q \in InstallerState : /\ installer' = [installer EXCEPT ![i] = q]
                                  /\ q.step = "open" /\ q.pkg = p /\ q.file = "binary"
  <2> DEFINE e == [step |-> "open", pkg |-> p, file |-> "binary"]
  <2>1. installer[i] \in InstallerState /\ e \in InstallerState
    BY <1>1, <1>2, ActivePackage DEF InstallerState, File
  <2>2. installer' = [installer EXCEPT ![i] =
                         [installer[i] EXCEPT !.step = "open", !.file = "binary"]]
    BY DEF MakeDirectory, RootInv, RootTypes
  <2>3. installer' = [installer EXCEPT ![i] = e]
    BY <1>2, <2>1, <2>2, Edited
  <2> QED
    BY <2>1, <2>3
<1>6. tree' = [tree EXCEPT ![BuildOf[p]] =
                  IF tree[BuildOf[p]] = NoTree THEN [f \in {} |-> {}] ELSE tree[BuildOf[p]]]
  BY <1>3 DEF MakeDirectory
<1>7. /\ tree' \in [Build -> Tree \cup {NoTree}] /\ tree'[BuildOf[p]] # NoTree
      /\ tree[BuildOf[p]] = NoTree => tree'[BuildOf[p]] = [f \in {} |-> {}]
      /\ \A b \in Build : b # BuildOf[p] => tree'[b] = tree[b]
  BY <1>3, <1>6, Trees, Contents
<1>8. Partial(q) = [f \in {} |-> {}]
  BY <1>5 DEF Partial
<1>9. BuildOf[p] \notin disturbed' => CalmStep(i, BuildOf[p], q)
  BY <1>1, <1>3, <1>4, <1>5, <1>7, <1>8 DEF CalmStep
<1>10. RootInv'
  BY <1>1, <1>2, <1>3, <1>5, <1>7, <1>9, StepKeepsRoot DEF File
<1>11. \A r \in Package : Partial(q) # Whole(r)
  BY <1>2, <1>5, PartialIsNotWhole, Contents DEF File
<1> QED
  BY <1>3, <1>4, <1>7, <1>8, <1>10, <1>11 DEF Places

LEMMA OpenFileInv ==
  ASSUME RootInv, NEW i \in Installer, OpenFile(i)
  PROVE  RootInv' /\ Places(i)
<1>1. Copying(i) /\ Active(i) /\ Placing(i) /\ installer[i].step = "open"
  BY DEF OpenFile, At, Copying, Active, Placing
<1>2. PICK p \in Sound : p = installer[i].pkg
  BY <1>1, ActivePackage
<1>3. /\ BuildAt(i) = BuildOf[p] /\ BuildOf[p] \in Build /\ UNCHANGED <<link, current, disturbed>>
      /\ tree \in [Build -> Tree \cup {NoTree}] /\ p \in Package
  BY <1>1, <1>2, ActivePackage DEF OpenFile
<1> DEFINE t == tree[BuildOf[p]]
<1>4. installer[i].file \in File /\ t # NoTree /\ t \in Tree
  BY <1>1, <1>3 DEF RootInv, Working
<1>5. BuildOf[p] \notin disturbed => /\ t = Partial(installer[i]) /\ ~IsWhole(BuildOf[p])
                                     /\ \A r \in Package : t # Whole(r)
  BY <1>1, <1>3, PlacingKnows
<1>6. PICK q \in InstallerState :
         /\ installer' = [installer EXCEPT ![i] = q]
         /\ q.step = "write" /\ q.pkg = p /\ q.file = installer[i].file
  BY <1>2, Goes DEF OpenFile
<1> DEFINE n == [f \in DOMAIN t \cup {q.file} |-> IF f = q.file THEN {} ELSE t[f]]
<1>7. tree' = [tree EXCEPT ![BuildOf[p]] = n]
  BY <1>3, <1>6 DEF OpenFile
<1>8. n \in Tree
  BY <1>4, <1>6, Trees
<1>9. ASSUME t = Partial(installer[i]) PROVE n = Partial(q)
  <2>1. CASE q.file = "binary"
    <3>1. DOMAIN t = {}
      BY <1>1, <1>6, <1>9, <2>1 DEF Partial
    <3>2. Partial(q) = [f \in {"binary"} |-> {}]
      BY <1>6, <2>1 DEF Partial
    <3>3. DOMAIN t \cup {q.file} = {"binary"}
      BY <2>1, <3>1
    <3> QED
      BY <2>1, <3>2, <3>3
  <2>2. CASE q.file # "binary"
    <3>1. DOMAIN t = {"binary"} /\ t["binary"] = {p} /\ q.file = "manifest"
      BY <1>1, <1>2, <1>4, <1>6, <1>9, <2>2 DEF Partial, File
    <3>2. Partial(q) = [f \in File |-> IF f = "binary" THEN {p} ELSE {}]
      BY <1>6, <2>2 DEF Partial
    <3>3. DOMAIN t \cup {q.file} = File
      BY <3>1 DEF File
    <3> QED
      BY <3>1, <3>2, <3>3 DEF File
  <2> QED
    BY <2>1, <2>2
<1> HIDE DEF n
<1>10. /\ tree' \in [Build -> Tree \cup {NoTree}] /\ tree'[BuildOf[p]] = n
       /\ tree'[BuildOf[p]] # NoTree
       /\ \A b \in Build : b # BuildOf[p] => tree'[b] = tree[b]
  BY <1>3, <1>7, <1>8, Contents
<1>11. BuildOf[p] \notin disturbed' => CalmStep(i, BuildOf[p], q)
  BY <1>1, <1>3, <1>5, <1>6, <1>9, <1>10 DEF CalmStep
<1>12. RootInv'
  BY <1>1, <1>2, <1>3, <1>4, <1>6, <1>10, <1>11, StepKeepsRoot
<1>13. \A r \in Package : Partial(q) # Whole(r)
  BY <1>3, <1>4, <1>6, PartialIsNotWhole
<1> QED
  BY <1>3, <1>5, <1>9, <1>10, <1>12, <1>13 DEF Places

(* A copy that nobody disturbs writes what its package holds: after the    *)
(* manifest the build is whole.                                            *)
LEMMA WriteFileInv ==
  ASSUME RootInv, NEW i \in Installer, WriteFile(i)
  PROVE  RootInv' /\ Places(i)
<1>1. Copying(i) /\ Active(i) /\ Placing(i) /\ installer[i].step = "write"
  BY DEF WriteFile, At, Copying, Active, Placing
<1>2. PICK p \in Sound : p = installer[i].pkg
  BY <1>1, ActivePackage
<1>3. /\ BuildAt(i) = BuildOf[p] /\ BuildOf[p] \in Build /\ UNCHANGED <<link, current, disturbed>>
      /\ tree \in [Build -> Tree \cup {NoTree}] /\ p \in Package
      /\ installer[i] \in InstallerState
  BY <1>1, <1>2, ActivePackage DEF WriteFile
<1> DEFINE t == tree[BuildOf[p]]
           g == installer[i].file
<1>4. g \in File /\ t # NoTree /\ t \in Tree
  BY <1>1, <1>3 DEF RootInv, Working
<1>5. BuildOf[p] \notin disturbed => /\ t = Partial(installer[i]) /\ ~IsWhole(BuildOf[p])
                                     /\ \A r \in Package : t # Whole(r)
  BY <1>1, <1>3, PlacingKnows
<1>6. BuildOf[p] \notin disturbed =>
         \A j \in Installer \ {i} : At(j, "write") => BuildAt(j) # BuildAt(i)
  BY <1>1, <1>3 DEF RootInv, Apart, At, Placing
<1>7. PICK W \in SUBSET Package :
         /\ tree' = [tree EXCEPT ![BuildOf[p]][g] = @ \cup W]
         /\ BuildOf[p] \notin disturbed => W = {p}
  <2>1. PICK W \in {{p}, {}} :
           /\ tree' = [tree EXCEPT ![BuildOf[p]][g] = @ \cup W]
           /\ BuildOf[p] \notin disturbed => W = {p}
    BY <1>2, <1>3, <1>6 DEF WriteFile
  <2> QED
    BY <1>3, <2>1
<1> DEFINE n == [t EXCEPT ![g] = @ \cup W]
<1>8. tree' = [tree EXCEPT ![BuildOf[p]] = n]
  BY <1>3, <1>7
<1>9. n \in Tree
  BY <1>4, Trees
<1>10. /\ tree' \in [Build -> Tree \cup {NoTree}] /\ tree'[BuildOf[p]] = n
       /\ tree'[BuildOf[p]] # NoTree
       /\ \A b \in Build : b # BuildOf[p] => tree'[b] = tree[b]
  <2> HIDE DEF n
  <2> QED
    BY <1>3, <1>8, <1>9, Contents
<1>11. CASE g = "binary"
  <2> DEFINE q == [step |-> "open", pkg |-> p, file |-> "manifest"]
  <2>1. q \in InstallerState /\ q.step = "open" /\ q.pkg = p /\ q.file = "manifest"
        /\ q.file \in File
    BY <1>3 DEF InstallerState, File
  <2>2. installer' = [installer EXCEPT ![i] = q]
    <3>1. [installer[i] EXCEPT !.step = "open", !.file = "manifest"] = q
      BY <1>2, <1>3, Edited
    <3> QED
      BY <1>11, <3>1 DEF WriteFile
  <2>3. BuildOf[p] \notin disturbed => n = Partial(q)
    <3> SUFFICES ASSUME BuildOf[p] \notin disturbed PROVE n = Partial(q)
      OBVIOUS
    <3>1. t = [f \in {"binary"} |-> {}] /\ W = {p}
      BY <1>1, <1>5, <1>7, <1>11 DEF Partial
    <3>2. Partial(q) = [f \in {"binary"} |-> {p}]
      <4>1. \A f \in {"binary"} : (IF f = "binary" THEN {p} ELSE {}) = {p}
        OBVIOUS
      <4> HIDE DEF q
      <4>2. Partial(q) = [f \in {"binary"} |-> IF f = "binary" THEN {p} ELSE {}]
        BY <2>1 DEF Partial
      <4> QED
        BY <4>1, <4>2
    <3> QED
      BY <1>11, <3>1, <3>2
  <2> HIDE DEF q, n
  <2>4. BuildOf[p] \notin disturbed' => CalmStep(i, BuildOf[p], q)
    BY <1>1, <1>3, <1>5, <1>10, <2>1, <2>3 DEF CalmStep
  <2>5. RootInv'
    BY <1>1, <1>2, <1>3, <1>10, <2>1, <2>2, <2>4, StepKeepsRoot
  <2>6. \A r \in Package : Partial(q) # Whole(r)
    BY <1>3, <2>1, PartialIsNotWhole
  <2> QED
    BY <1>3, <1>5, <1>10, <2>3, <2>5, <2>6 DEF Places
<1>12. CASE g # "binary"
  <2> DEFINE q == [step |-> "unlink", pkg |-> p, file |-> g]
  <2>1. q \in InstallerState /\ q.step = "unlink" /\ q.pkg = p
    BY <1>3 DEF InstallerState
  <2>2. installer' = [installer EXCEPT ![i] = q]
    <3>1. [installer[i] EXCEPT !.step = "unlink"] = q
      BY <1>2, <1>3, Edited
    <3> QED
      BY <1>12, <3>1 DEF WriteFile
  <2>3. BuildOf[p] \notin disturbed => n = Whole(p)
    <3> SUFFICES ASSUME BuildOf[p] \notin disturbed PROVE n = Whole(p)
      OBVIOUS
    <3>1. t = [f \in File |-> IF f = "binary" THEN {p} ELSE {}] /\ W = {p}
      BY <1>1, <1>2, <1>5, <1>7, <1>12 DEF Partial
    <3>2. g = "manifest"
      BY <1>4, <1>12 DEF File
    <3> QED
      BY <3>1, <3>2 DEF Whole, File
  <2> HIDE DEF q, n
  <2>4. BuildOf[p] \notin disturbed => IsWhole(BuildOf[p])'
    BY <1>10, <2>3 DEF IsWhole
  <2>5. BuildOf[p] \notin disturbed' => CalmStep(i, BuildOf[p], q)
    BY <1>1, <1>3, <1>5, <2>1, <2>4 DEF CalmStep
  <2>6. RootInv'
    BY <1>1, <1>2, <1>3, <1>10, <2>1, <2>2, <2>5, StepKeepsRoot
  <2> QED
    BY <1>3, <1>5, <1>10, <2>3, <2>6 DEF Places
<1> QED
  BY <1>11, <1>12

(* The steps of replaceSymlink. *)
LEMMA LinkInv ==
  ASSUME RootInv, NEW i \in Installer,
         RemoveStaged(i) \/ Symlink(i) \/ RenameLink(i) \/ RemoveFailed(i)
  PROVE  RootInv' /\ UNCHANGED <<tree, disturbed>>
<1>1. /\ Active(i) /\ ~Copying(i) /\ ~Placing(i)
      /\ installer[i].step \in {"unlink", "symlink", "rename", "remove"}
      /\ UNCHANGED <<tree, disturbed>>
  BY DEF RemoveStaged, Symlink, RenameLink, RemoveFailed, At, Active, Copying, Placing
<1>2. PICK p \in Sound : p = installer[i].pkg
  BY <1>1, ActivePackage
<1>3. /\ BuildAt(i) = BuildOf[p] /\ tree' \in [Build -> Tree \cup {NoTree}]
      /\ BuildOf[p] \in disturbed \/ IsWhole(BuildOf[p])
      /\ IsWhole(BuildOf[p])' <=> IsWhole(BuildOf[p])
  BY <1>1, <1>2, ActivePackage DEF IsWhole, RootInv, Knows
<1>4. /\ \/ link' \in {link, None}
         \/ link' = BuildOf[p] /\ (BuildOf[p] \in disturbed \/ IsWhole(BuildOf[p]))
      /\ current' \in {current, link}
  BY <1>3 DEF RemoveStaged, Symlink, RenameLink, RemoveFailed
<1>5. \/ Ends(i)
      \/ \E s \in {"symlink", "rename", "remove"} : Goto(i, s)
  BY DEF RemoveStaged, Symlink, RenameLink, RemoveFailed
<1>6. PICK q \in InstallerState :
         /\ installer' = [installer EXCEPT ![i] = q]
         /\ \/ q.step = "idle" /\ q.pkg = None
            \/ q.step \in {"symlink", "rename", "remove"} /\ q.pkg = p
  <2>1. CASE Ends(i)
    <3>1. Done \in InstallerState /\ Done.step = "idle" /\ Done.pkg = None
      BY DEF Done, InstallerState
    <3> QED
      BY <2>1, <3>1 DEF Ends
  <2>2. ASSUME NEW s \in {"symlink", "rename", "remove"}, Goto(i, s)
        PROVE  \E q \in InstallerState : /\ installer' = [installer EXCEPT ![i] = q]
                                         /\ q.step = s /\ q.pkg = p
    BY <1>2, <2>2, Goes
  <2> QED
    BY <1>5, <2>1, <2>2
<1>7. BuildOf[p] \notin disturbed' => CalmStep(i, BuildOf[p], q)
  BY <1>1, <1>3, <1>6 DEF CalmStep
<1> QED
  BY <1>1, <1>2, <1>3, <1>4, <1>6, <1>7, StepKeepsRoot

LEMMA StopInstallInv ==
  ASSUME RootInv, NEW i \in Installer, StopInstall(i)
  PROVE  /\ RootInv' /\ UNCHANGED <<tree, current>> /\ BuildAt(i) \in Build
         /\ disturbed' \in {disturbed, disturbed \cup {BuildAt(i)}}
<1>1. Active(i) /\ UNCHANGED <<tree, current, link>>
  BY DEF StopInstall, At, Active
<1>2. PICK p \in Sound : p = installer[i].pkg
  BY <1>1, ActivePackage
<1>3. /\ BuildAt(i) = BuildOf[p] /\ BuildOf[p] \in Build
      /\ tree' \in [Build -> Tree \cup {NoTree}]
      /\ disturbed' = disturbed \cup (IF Copying(i) THEN {BuildOf[p]} ELSE {})
  BY <1>1, <1>2, ActivePackage DEF StopInstall, Copying
<1>4. Done \in InstallerState /\ Done.step = "idle" /\ Done.pkg = None
  BY DEF Done, InstallerState
<1>5. PICK q \in InstallerState : installer' = [installer EXCEPT ![i] = q]
                                  /\ q.step = "idle" /\ q.pkg = None
  BY <1>4 DEF StopInstall, Ends
<1>6. BuildOf[p] \notin disturbed' => CalmStep(i, BuildOf[p], q)
  BY <1>1, <1>3, <1>5 DEF CalmStep
<1>7. RootInv'
  BY <1>1, <1>2, <1>3, <1>5, <1>6, StepKeepsRoot
<1> QED
  BY <1>1, <1>3, <1>7

LEMMA InstallStepInv ==
  ASSUME RootInv, NEW i \in Installer, InstallStep(i)
  PROVE  RootInv'
BY StageInv, StatInv, MoveInv, MakeDirectoryInv, OpenFileInv, WriteFileInv, LinkInv, StopInstallInv
   DEF InstallStep

-----------------------------------------------------------------------------
(* The package that a tree is the whole of. *)
PackageIn(t) ==
    IF \E p \in Package : t = Whole(p) THEN CHOOSE p \in Package : t = Whole(p) ELSE None

(* What the abstract root has for a build. *)
Seen == [b \in Build |-> IF b \in disturbed THEN Spoiled ELSE Installed[b]]

(* A whole tree tells which package it is. *)
LEMMA PackageInWhole ==
  ASSUME NEW p \in Package
  PROVE  PackageIn(Whole(p)) = p
<1>1. ASSUME NEW q \in Package, Whole(p) = Whole(q) PROVE q = p
  <2>1. Whole(p)["binary"] = {p} /\ Whole(q)["binary"] = {q}
    BY DEF Whole, File
  <2> QED
    BY <1>1, <2>1
<1> QED
  BY <1>1 DEF PackageIn

(* The abstract builds are read off the trees, before and after a step. *)
LEMMA InstalledIs ==
  /\ Installed = [b \in Build |-> PackageIn(tree[b])]
  /\ Installed' = [b \in Build |-> PackageIn(tree'[b])]
  /\ Seen = [b \in Build |-> IF b \in disturbed THEN Spoiled ELSE PackageIn(tree[b])]
  /\ Seen' = [b \in Build |-> IF b \in disturbed' THEN Spoiled ELSE PackageIn(tree'[b])]
BY DEF Installed, Seen, PackageIn, Whole

(* A step that puts no build in place is unseen by the abstract root, but  *)
(* for a build that it disturbs.                                           *)
LEMMA Disturbs ==
  ASSUME UNCHANGED <<tree, current>>, NEW b \in Build,
         disturbed' \in {disturbed, disturbed \cup {b}}
  PROVE  [Abstract!VNext]_<<Seen, current>>
<1>1. CASE disturbed' = disturbed
  BY <1>1, InstalledIs
<1>2. CASE disturbed' = disturbed \cup {b}
  <2>1. Seen' = [Seen EXCEPT ![b] = Spoiled]
    BY <1>2, InstalledIs
  <2>2. Abstract!Spoil(b)
    BY <2>1 DEF Abstract!Spoil, Seen
  <2> QED
    BY <2>2 DEF Abstract!VNext
<1> QED
  BY <1>1, <1>2

(* One that puts a build in place is an abstract install, or unseen. *)
LEMMA Installs ==
  ASSUME NEW i \in Installer, Places(i)
  PROVE  [Abstract!VNext]_<<Seen, current>>
<1> DEFINE a == BuildAt(i)
<1>1. /\ a \in Build /\ UNCHANGED <<current, disturbed>>
      /\ \A b \in Build : b # a => tree'[b] = tree[b]
  BY DEF Places
<1>2. CASE a \in disturbed \/ PackageIn(tree'[a]) = PackageIn(tree[a])
  <2>1. Seen' = Seen
    BY <1>1, <1>2, InstalledIs
  <2> QED
    BY <1>1, <2>1
<1>3. CASE a \notin disturbed /\ PackageIn(tree'[a]) # PackageIn(tree[a])
  <2>1. PackageIn(tree[a]) = None
    BY <1>3 DEF Places, PackageIn
  <2>2. PICK p \in Sound : BuildOf[p] = a /\ tree'[a] = Whole(p)
    BY <1>3, <2>1 DEF Places, PackageIn
  <2>3. PackageIn(tree'[a]) = p
    BY <2>2, PackageInWhole, Contents
  <2>4. Seen[a] = None /\ Seen' = [Seen EXCEPT ![a] = p]
    BY <1>1, <1>3, <2>1, <2>3, InstalledIs
  <2>5. Abstract!Install(a, p)
    BY <1>1, <2>4 DEF Abstract!Install, Seen
  <2> QED
    BY <1>1, <2>2, <2>5 DEF Abstract!VNext
<1> QED
  BY <1>2, <1>3

(* Each step of an install is an abstract one, or none. *)
LEMMA InstallStepImplements ==
  ASSUME RootInv, NEW i \in Installer, InstallStep(i)
  PROVE  [Abstract!VNext]_<<Seen, current>>
<1>1. CASE (\E p \in Package : Stage(i, p)) \/ RemoveStaged(i) \/ Symlink(i) \/ RemoveFailed(i)
  <2>1. UNCHANGED <<tree, current, disturbed>>
    BY <1>1 DEF Stage, RemoveStaged, Symlink, RemoveFailed
  <2> QED
    BY <2>1, InstalledIs
<1>2. CASE Stat(i)
  <2>1. UNCHANGED <<tree, current>> /\ disturbed' \in {disturbed, disturbed \cup {BuildAt(i)}}
    BY <1>2 DEF Stat
  <2>2. BuildAt(i) \in Build
    BY <1>2, ActivePackage DEF Stat, At, Active
  <2> QED
    BY <2>1, <2>2, Disturbs
<1>3. CASE StopInstall(i)
  BY <1>3, StopInstallInv, Disturbs
<1>4. CASE Move(i) \/ MakeDirectory(i) \/ OpenFile(i) \/ WriteFile(i)
  BY <1>4, MoveInv, MakeDirectoryInv, OpenFileInv, WriteFileInv, Installs
<1>5. CASE RenameLink(i)
  <2>1. UNCHANGED <<tree, disturbed>> /\ Seen' = Seen
    BY <1>5, InstalledIs DEF RenameLink
  <2>2. CASE link = None
    BY <1>5, <2>1, <2>2 DEF RenameLink
  <2>3. CASE link # None
    <3>1. link \in Build /\ (link \in disturbed \/ IsWhole(link))
      BY <2>3 DEF RootInv, RootTypes
    <3>2. Seen[link] # None
      <4>1. CASE link \in disturbed
        BY <3>1, <4>1, DeploymentAssumption DEF Seen
      <4>2. CASE IsWhole(link) /\ link \notin disturbed
        <5>1. PICK p \in Sound : tree[link] = Whole(p)
          BY <4>2 DEF IsWhole
        <5>2. Seen[link] = p /\ p # None
          BY <3>1, <4>2, <5>1, PackageInWhole, InstalledIs, Contents
        <5> QED
          BY <5>2
      <4> QED
        BY <3>1, <4>1, <4>2
    <3>3. Abstract!Point(link)
      BY <1>5, <2>1, <2>3, <3>2 DEF RenameLink, Abstract!Point, Seen
    <3> QED
      BY <3>1, <3>3 DEF Abstract!VNext
  <2> QED
    BY <2>2, <2>3
<1> QED
  BY <1>1, <1>2, <1>3, <1>4, <1>5 DEF InstallStep

(* Updates leave the root alone, and the root's names say nothing of them. *)
LEMMA RootUnchanged ==
  ASSUME RootInv, UNCHANGED root
  PROVE  RootInv' /\ UNCHANGED <<Seen, current>>
<1>1. RootInv'
  BY DEF root, RootInv, RootTypes, Apart, Working, Knows, Active, Placing, Copying, BuildAt, IsWhole
<1> QED
  BY <1>1, InstalledIs DEF root

(* Updates of the program do not touch the versioned root. *)
LEMMA UpdateStepKeepsRoot ==
  ASSUME (\E u \in Updater : UpdateStep(u)) \/ UNCHANGED vars
  PROVE  UNCHANGED root
BY DEF UpdateStep, Obtain, OpenIncoming, WriteIncoming, RenameProgram, StopUpdate, vars

(* A build that no second install met while it was being put in place, and *)
(* whose copy did not stop, is absent, whole, or the partial copy of one   *)
(* command, and the links name it only when it is whole, wherever any      *)
(* number of installs are (InstallCodex).                                  *)
THEOREM RootInvariant == Spec => []RootInv
<1>1. Init => RootInv
  BY InitRootInv
<1>2. RootInv /\ [Next]_vars => RootInv'
  BY InstallStepInv, UpdateStepKeepsRoot, RootUnchanged DEF Next
<1> QED
  BY <1>1, <1>2, PTL DEF Spec

(* At every moment of any installs, with links renamed and files copied    *)
(* under the eyes of running harnesses and commands killed anywhere: a     *)
(* build appears whole and verified and never changes afterwards, and      *)
(* `current` moves only to one that is there; what becomes of a build is   *)
(* out of this only from the step on at which a second install of it meets *)
(* the first, or at which a copy to it stops (InstallCodex,                *)
(* replaceSymlink).                                                        *)
THEOREM RootIsVersioned == Spec => ImplementsVersionedRoot
<1>1. Init => Seen = [b \in Build |-> None] /\ current = None
  <2>1. Init => \A b \in Build : PackageIn(tree[b]) = None
    BY Contents DEF Init, PackageIn
  <2> QED
    BY <2>1, InstalledIs DEF Init
<1>2. Init => Abstract!VInit
  BY <1>1 DEF Abstract!VInit, Seen
<1>3. RootInv /\ [Next]_vars => [Abstract!VNext]_<<Seen, current>>
  BY InstallStepImplements, UpdateStepKeepsRoot, RootUnchanged DEF Next
<1> QED
  BY <1>2, <1>3, RootInvariant, PTL DEF Spec, ImplementsVersionedRoot, Abstract!VSpec, Seen

(* Hence `current` never names a half-extracted build, as                  *)
(* codexpkg.go:86-89 has it, but for one at which two installs of the same *)
(* build met or a copy stopped.                                            *)
THEOREM CurrentStaysComplete == Spec => []UndisturbedIsComplete
<1>1. RootInv => UndisturbedIsComplete
  <2> SUFFICES ASSUME RootInv, current \notin disturbed, current # None
               PROVE  Installed[current] # None
    BY DEF UndisturbedIsComplete, CurrentIsComplete
  <2>1. PICK p \in Sound : tree[current] = Whole(p)
    BY DEF RootInv, IsWhole
  <2>2. current \in Build
    BY DEF RootInv, RootTypes
  <2> QED
    BY <2>1, <2>2, PackageInWhole, InstalledIs, Contents
<1> QED
  BY <1>1, RootInvariant, PTL

-----------------------------------------------------------------------------
(* rca update, by any number of commands. *)
UpdaterState ==
    [step: {"idle", "open", "write", "rename"}, release: Release \cup {None},
     inode: Inode \cup {None}]

SelfTypes ==
    /\ program \in ran /\ ran \in SUBSET Inode /\ shared \in SUBSET Inode
    /\ incoming \in (Inode \cup {None}) \ ran
    /\ content \in [Inode -> SUBSET Release]
    /\ updater \in [Updater -> UpdaterState]
    /\ \A u \in Updater :
          /\ updater[u].step # "idle" => updater[u].release \in Release
          /\ updater[u].step # "write" => updater[u].inode = None

(* What a file that ran holds; and an rca.incoming that no two updates     *)
(* opened is that of the only one between its open and its rename.         *)
SelfInv ==
    /\ SelfTypes
    /\ \A n \in ran \ shared :
          /\ \E r \in Release : content[n] = {r}
          /\ \A u \in Updater : updater[u].inode # n
    /\ incoming # None /\ incoming \notin shared =>
          \A u \in Replacing :
             /\ Replacing = {u}
             /\ updater[u].step = "write" => /\ updater[u].inode = incoming
                                             /\ content[incoming] = {}
             /\ updater[u].step = "rename" => content[incoming] = {updater[u].release}

(* SelfInv holds in the beginning. *)
LEMMA InitSelfInv == Init => SelfInv
<1> SUFFICES ASSUME Init PROVE SelfInv
  OBVIOUS
<1>1. program \in Inode /\ None \notin Inode /\ FirstRelease \in Release
  BY DeploymentAssumption DEF Init
<1>2. content \in [Inode -> SUBSET Release] /\ content[program] = {FirstRelease}
  BY <1>1 DEF Init
<1>3. /\ updater \in [Updater -> UpdaterState]
      /\ \A u \in Updater : updater[u].step = "idle" /\ updater[u].inode = None
  BY DEF Init, Over, UpdaterState
<1>4. SelfTypes
  BY <1>1, <1>2, <1>3 DEF SelfTypes, Init
<1> QED
  BY <1>1, <1>2, <1>3, <1>4 DEF SelfInv, Init

(* A step of one update, to its state q. *)
LEMMA Stepped ==
  ASSUME SelfTypes, NEW u \in Updater, NEW q \in UpdaterState,
         updater' = [updater EXCEPT ![u] = q]
  PROVE  /\ updater' \in [Updater -> UpdaterState] /\ updater'[u] = q
         /\ \A v \in Updater : v # u => updater'[v] = updater[v]
         /\ Replacing' = IF q.step \in {"write", "rename"} THEN Replacing \cup {u}
                         ELSE Replacing \ {u}
         /\ Replacing \subseteq Updater
<1>1. /\ updater' \in [Updater -> UpdaterState] /\ updater'[u] = q
      /\ \A v \in Updater : v # u => updater'[v] = updater[v]
  BY DEF SelfTypes
<1> QED
  BY <1>1 DEF Replacing

LEMMA ObtainInv ==
  ASSUME SelfInv, NEW u \in Updater, NEW r \in Release, Obtain(u, r)
  PROVE  SelfInv'
<1> DEFINE q == [step |-> "open", release |-> r, inode |-> None]
<1>1. q \in UpdaterState /\ q.step = "open" /\ q.release = r /\ q.inode = None
  BY DEF UpdaterState
<1>2. /\ updater' = [updater EXCEPT ![u] = q]
      /\ UNCHANGED <<program, incoming, content, ran, shared>>
  BY DEF Obtain
<1> HIDE DEF q
<1>3. /\ updater' \in [Updater -> UpdaterState] /\ updater'[u] = q
      /\ \A v \in Updater : v # u => updater'[v] = updater[v]
      /\ Replacing' = Replacing \ {u} /\ u \notin Replacing /\ Replacing \subseteq Updater
  <2>1. SelfTypes /\ updater[u].step = "idle"
    BY DEF SelfInv, Obtain
  <2>2. /\ updater' \in [Updater -> UpdaterState] /\ updater'[u] = q
        /\ Replacing' = Replacing \ {u} /\ Replacing \subseteq Updater
        /\ \A v \in Updater : v # u => updater'[v] = updater[v]
    BY <1>1, <1>2, <2>1, Stepped
  <2> QED
    BY <2>1, <2>2 DEF Replacing
<1>4. SelfTypes'
  BY <1>1, <1>2, <1>3 DEF SelfInv, SelfTypes
<1>5. \A n \in ran : n # None
  BY DeploymentAssumption DEF SelfInv, SelfTypes
<1> QED
  BY <1>1, <1>2, <1>3, <1>4, <1>5 DEF SelfInv

LEMMA OpenIncomingInv ==
  ASSUME SelfInv, NEW u \in Updater, OpenIncoming(u)
  PROVE  SelfInv'
<1>1. PICK n \in IF incoming # None THEN {incoming} ELSE Inode \ ran :
         /\ incoming' = n /\ content' = [content EXCEPT ![n] = {}]
         /\ updater' = [updater EXCEPT ![u].step = "write", ![u].inode = n]
         /\ shared' = IF Replacing \ {u} = {} THEN shared \ {n} ELSE shared \cup {n}
  BY DEF OpenIncoming
<1>2. /\ n \in Inode \ ran /\ n # None /\ UNCHANGED <<program, ran>>
      /\ updater[u].step = "open" /\ updater[u] \in UpdaterState
      /\ updater[u].release \in Release
  BY <1>1, DeploymentAssumption DEF OpenIncoming, SelfInv, SelfTypes
<1> DEFINE q == [step |-> "write", release |-> updater[u].release, inode |-> n]
           p == [step |-> "write", release |-> updater[u].release, inode |-> updater[u].inode]
<1>3. q \in UpdaterState
  BY <1>2 DEF UpdaterState
<1>4. updater' = [updater EXCEPT ![u] = q]
  <2>1. updater' = [updater EXCEPT ![u] = [updater[u] EXCEPT !.step = "write", !.inode = n]]
    BY <1>1 DEF SelfInv, SelfTypes
  <2>2. [updater[u] EXCEPT !.step = "write"] = p
    BY <1>2 DEF UpdaterState
  <2>3. [p EXCEPT !.inode = n] = q
    OBVIOUS
  <2> QED
    BY <2>1, <2>2, <2>3
<1>5. q.step = "write" /\ q.inode = n /\ q.release \in Release
  BY <1>2
<1> HIDE DEF q
<1>6. /\ updater' \in [Updater -> UpdaterState] /\ updater'[u] = q
      /\ \A v \in Updater : v # u => updater'[v] = updater[v]
      /\ Replacing' = Replacing \cup {u}
  BY <1>3, <1>4, <1>5, Stepped DEF SelfInv
<1>7. /\ content' \in [Inode -> SUBSET Release] /\ content'[n] = {}
      /\ \A m \in Inode : m # n => content'[m] = content[m]
  BY <1>1, <1>2 DEF SelfInv, SelfTypes
<1>8. SelfTypes'
  BY <1>1, <1>2, <1>5, <1>6, <1>7 DEF SelfInv, SelfTypes
<1>9. ASSUME NEW m \in ran' \ shared'
      PROVE  /\ \E r \in Release : content'[m] = {r}
             /\ \A v \in Updater : updater'[v].inode # m
  <2>1. m \in ran \ shared /\ m # n /\ m \in Inode
    BY <1>1, <1>2, <1>9 DEF SelfInv, SelfTypes
  <2> QED
    BY <1>5, <1>6, <1>7, <2>1 DEF SelfInv
<1>10. ASSUME incoming' \notin shared', NEW v \in Replacing'
       PROVE  /\ Replacing' = {v}
              /\ updater'[v].step = "write" => /\ updater'[v].inode = incoming'
                                               /\ content'[incoming'] = {}
              /\ updater'[v].step = "rename" => content'[incoming'] = {updater'[v].release}
  <2>1. Replacing' = {u}
    BY <1>1, <1>6, <1>10
  <2>2. v = u /\ updater'[v] = q
    BY <1>6, <1>10, <2>1
  <2> QED
    BY <1>1, <1>5, <1>7, <2>1, <2>2
<1> QED
  BY <1>8, <1>9, <1>10 DEF SelfInv

LEMMA WriteIncomingInv ==
  ASSUME SelfInv, NEW u \in Updater, WriteIncoming(u)
  PROVE  SelfInv'
<1> DEFINE m == updater[u].inode
<1>1. /\ updater[u].step = "write" /\ updater[u] \in UpdaterState /\ u \in Replacing
      /\ updater[u].release \in Release /\ UNCHANGED <<program, incoming, ran, shared>>
  BY DEF WriteIncoming, SelfInv, SelfTypes, Replacing
<1>2. PICK W \in SUBSET Release :
         /\ content' = [content EXCEPT ![m] = @ \cup W]
         /\ W = {updater[u].release} \/ \E v \in Updater \ {u} : updater[v].inode = m
  <2>1. PICK W \in {{updater[u].release}, {}} :
           /\ content' = [content EXCEPT ![m] = @ \cup W]
           /\ W = {updater[u].release} \/ \E v \in Updater \ {u} : updater[v].inode = m
    BY DEF WriteIncoming
  <2>2. W \in SUBSET Release
    BY <1>1, <2>1
  <2> QED
    BY <2>1, <2>2
<1> DEFINE q == [step |-> "rename", release |-> updater[u].release, inode |-> None]
           p == [step |-> "rename", release |-> updater[u].release, inode |-> updater[u].inode]
<1>3. q \in UpdaterState
  BY <1>1 DEF UpdaterState
<1>4. updater' = [updater EXCEPT ![u] = q]
  <2>1. updater' = [updater EXCEPT ![u] = [updater[u] EXCEPT !.step = "rename", !.inode = None]]
    BY DEF WriteIncoming, SelfInv, SelfTypes
  <2>2. [updater[u] EXCEPT !.step = "rename"] = p
    BY <1>1 DEF UpdaterState
  <2>3. [p EXCEPT !.inode = None] = q
    OBVIOUS
  <2> QED
    BY <2>1, <2>2, <2>3
<1>5. q.step = "rename" /\ q.inode = None /\ q.release = updater[u].release
  OBVIOUS
<1> HIDE DEF q
<1>6. /\ updater' \in [Updater -> UpdaterState] /\ updater'[u] = q
      /\ \A v \in Updater : v # u => updater'[v] = updater[v]
      /\ Replacing' = Replacing
  <2>1. SelfTypes
    BY DEF SelfInv
  <2>2. Replacing' = Replacing \cup {u}
    BY <1>3, <1>4, <1>5, <2>1, Stepped
  <2>3. /\ updater' \in [Updater -> UpdaterState] /\ updater'[u] = q
        /\ \A v \in Updater : v # u => updater'[v] = updater[v]
    BY <1>3, <1>4, <2>1, Stepped
  <2>4. Replacing \cup {u} = Replacing
    BY <1>1
  <2> QED
    BY <2>2, <2>3, <2>4
<1>7. /\ content' \in [Inode -> SUBSET Release]
      /\ \A k \in Inode : k # m => content'[k] = content[k]
      /\ m \in Inode => content'[m] = content[m] \cup W
  BY <1>2 DEF SelfInv, SelfTypes
<1>8. SelfTypes'
  BY <1>1, <1>5, <1>6, <1>7 DEF SelfInv, SelfTypes
<1>9. ASSUME NEW k \in ran' \ shared'
      PROVE  /\ \E r \in Release : content'[k] = {r}
             /\ \A v \in Updater : updater'[v].inode # k
  <2>1. k \in ran \ shared /\ k \in Inode /\ k # None /\ m # k
    BY <1>1, DeploymentAssumption DEF SelfInv, SelfTypes
  <2> QED
    BY <1>5, <1>6, <1>7, <2>1 DEF SelfInv
<1>10. ASSUME incoming' # None, incoming' \notin shared', NEW v \in Replacing'
       PROVE  /\ Replacing' = {v}
              /\ updater'[v].step = "write" => /\ updater'[v].inode = incoming'
                                               /\ content'[incoming'] = {}
              /\ updater'[v].step = "rename" => content'[incoming'] = {updater'[v].release}
  <2>1. Replacing = {u} /\ m = incoming /\ content[incoming] = {} /\ v = u /\ incoming \in Inode
    BY <1>1, <1>6, <1>10 DEF SelfInv, SelfTypes
  <2>2. \A w \in Updater \ {u} : updater[w].inode # m
    <3>1. \A w \in Updater \ {u} : updater[w].step # "write"
      BY <2>1 DEF Replacing
    <3> QED
      BY <2>1, <3>1, DeploymentAssumption DEF SelfInv, SelfTypes
  <2>3. content'[incoming'] = {updater[u].release}
    BY <1>1, <1>2, <1>7, <2>1, <2>2
  <2> QED
    BY <1>5, <1>6, <2>1, <2>3
<1> QED
  BY <1>8, <1>9, <1>10 DEF SelfInv

LEMMA EndUpdateInv ==
  ASSUME SelfInv, NEW u \in Updater, RenameProgram(u) \/ StopUpdate(u)
  PROVE  SelfInv'
<1>1. Over \in UpdaterState /\ Over.step = "idle" /\ Over.inode = None
  BY DEF Over, UpdaterState
<1>2. updater' = [updater EXCEPT ![u] = Over] /\ UNCHANGED <<content, shared>>
  BY DEF RenameProgram, StopUpdate
<1>3. /\ updater' \in [Updater -> UpdaterState] /\ updater'[u] = Over
      /\ \A v \in Updater : v # u => updater'[v] = updater[v]
      /\ Replacing' = Replacing \ {u} /\ Replacing \subseteq Updater
  BY <1>1, <1>2, Stepped DEF SelfInv
<1>4. \/ UNCHANGED <<program, incoming, ran>>
      \/ /\ program' = incoming /\ incoming' = None /\ incoming # None
         /\ ran' = ran \cup {incoming} /\ updater[u].step = "rename" /\ u \in Replacing
  BY DEF RenameProgram, StopUpdate, Replacing
<1>5. SelfTypes'
  BY <1>1, <1>2, <1>3, <1>4, DeploymentAssumption DEF SelfInv, SelfTypes
<1>6. ASSUME NEW n \in ran' \ shared'
      PROVE  /\ \E r \in Release : content'[n] = {r}
             /\ \A v \in Updater : updater'[v].inode # n
  <2>1. n \in Inode /\ n # None /\ n \notin shared
    BY <1>2, <1>5, <1>6, DeploymentAssumption DEF SelfTypes
  <2>2. CASE n \in ran
    BY <1>1, <1>2, <1>3, <2>1, <2>2 DEF SelfInv
  <2>3. CASE n \notin ran
    <3>1. n = incoming /\ updater[u].step = "rename" /\ u \in Replacing
      BY <1>4, <1>6, <2>3
    <3>2. Replacing = {u} /\ content[n] = {updater[u].release}
      BY <2>1, <3>1 DEF SelfInv
    <3>3. \A v \in Updater : updater[v].inode = None
      <4>1. \A v \in Updater : updater[v].step # "write"
        BY <3>1, <3>2 DEF Replacing
      <4> QED
        BY <4>1 DEF SelfInv, SelfTypes
    <3>4. updater[u].release \in Release
      BY <3>1 DEF SelfInv, SelfTypes
    <3> QED
      BY <1>1, <1>2, <1>3, <2>1, <3>2, <3>3, <3>4
  <2> QED
    BY <2>2, <2>3
<1>7. ASSUME incoming' # None, incoming' \notin shared', NEW v \in Replacing'
      PROVE  /\ Replacing' = {v}
             /\ updater'[v].step = "write" => /\ updater'[v].inode = incoming'
                                              /\ content'[incoming'] = {}
             /\ updater'[v].step = "rename" => content'[incoming'] = {updater'[v].release}
  <2>1. v \in Replacing /\ v # u /\ incoming' = incoming /\ incoming \notin shared
    BY <1>2, <1>3, <1>4, <1>7
  <2> QED
    BY <1>2, <1>3, <1>7, <2>1 DEF SelfInv
<1> QED
  BY <1>5, <1>6, <1>7 DEF SelfInv

(* At every moment of any number of updates at once, and after those that  *)
(* were killed, a file that is or was at the path of rca is the whole of   *)
(* one release and nobody writes to it (selfupdate.go:14-17), unless it    *)
(* was opened as rca.incoming while another update was between its open    *)
(* and its rename.                                                         *)
THEOREM ProgramStaysWhole == Spec => []ProgramIsWhole
<1>1. Init => SelfInv
  BY InitSelfInv
<1>2. SelfInv /\ [Next]_vars => SelfInv'
  <2> SUFFICES ASSUME SelfInv, [Next]_vars PROVE SelfInv'
    OBVIOUS
  <2>1. CASE \E u \in Updater : UpdateStep(u)
    BY <2>1, ObtainInv, OpenIncomingInv, WriteIncomingInv, EndUpdateInv DEF UpdateStep
  <2>2. CASE (\E i \in Installer : InstallStep(i)) \/ UNCHANGED vars
    <3>1. UNCHANGED self
      BY <2>2 DEF InstallStep, Stage, Stat, Move, MakeDirectory, OpenFile, WriteFile,
                  RemoveStaged, Symlink, RenameLink, RemoveFailed, StopInstall, vars
    <3> QED
      BY <3>1 DEF self, SelfInv, SelfTypes, Replacing
  <2> QED
    BY <2>1, <2>2 DEF Next
<1>3. SelfInv => ProgramIsWhole
  <2>1. \A n \in ran \ shared : (\E r \in Release : content[n] = {r}) => Cardinality(content[n]) = 1
    BY FS_Singleton
  <2> QED
    BY <2>1 DEF SelfInv, ProgramIsWhole
<1> QED
  BY <1>1, <1>2, <1>3, PTL DEF Spec
=============================================================================
