----------------------------- MODULE Deployment -----------------------------
(***************************************************************************)
(* The commands that replace programs under a running system: `rca codex   *)
(* install`, which keeps versioned builds and a `current` link             *)
(* (deploy/codexpkg.go), and `rca update`, which renames a staged binary   *)
(* over its own (deploy/selfupdate.go).  Each step is what one system call *)
(* does to the shared directories; a command may fail or be killed between *)
(* any two, and is then simply run again.                                  *)
(***************************************************************************)
EXTENDS Naturals, FiniteSets

CONSTANTS
    Installer,      \* commands `rca codex install`
    Package,        \* packages they install
    BuildOf,        \* built_from, shortened, of each package
    Unsound,        \* packages whose binary or manifest is refused
    CrossDevice,    \* those whose temporary directory is on another device
    Updater,        \* commands `rca update`
    Release,        \* releases they install
    FirstRelease,   \* the one installed before
    Inode,          \* files the updates create: a bound on their number
    None,
    Spoiled         \* a build at which commands met, or a copy ended early

Build == {BuildOf[p] : p \in Package}
Sound == Package \ Unsound
File  == {"binary", "manifest"}

(* A content is the set of packages, or releases, whose bytes have been    *)
(* written since the file was truncated: {} is a part of one, and two are  *)
(* a mixture.                                                              *)
Tree   == UNION {[S -> SUBSET Package] : S \in SUBSET File}
NoTree == None

ASSUME DeploymentAssumption ==
    /\ BuildOf \in [Package -> Build] /\ Unsound \subseteq Package
    /\ FirstRelease \in Release
    /\ CrossDevice \subseteq Installer
    /\ Inode # {}
    /\ None \notin Package \cup Build \cup Tree \cup Release \cup Inode \cup File
    /\ Spoiled \notin Package \cup {None}

VARIABLES
    tree,       \* <root>/<build>: NoTree, or the content of each file in it
    current,    \* <root>/current: the build it points to
    link,       \* <root>/current.incoming
    installer,  \* where each install is, its package, the file it copies
    program,    \* the inode at the path of rca
    incoming,   \* the inode at rca.incoming
    content,    \* what each inode holds
    updater,    \* where each update is, its release, the inode it writes
    disturbed,  \* history: builds at which commands met or a copy stopped
    ran,        \* history: the inodes that are or were at the path of rca
    shared      \* history: those that were opened while another update ran

root == <<tree, current, link, installer, disturbed>>
self == <<program, incoming, content, updater, ran, shared>>
vars == <<root, self>>

Done == [step |-> "idle", pkg |-> None, file |-> None]
Over == [step |-> "idle", release |-> None, inode |-> None]

Init ==
    /\ tree = [b \in Build |-> NoTree]
    /\ current = None /\ link = None
    /\ installer = [i \in Installer |-> Done]
    /\ program = CHOOSE n \in Inode : TRUE
    /\ incoming = None
    /\ content = [n \in Inode |-> IF n = program THEN {FirstRelease} ELSE {}]
    /\ updater = [u \in Updater |-> Over]
    /\ disturbed = {}
    /\ ran = {program} /\ shared = {}

-----------------------------------------------------------------------------
(* rca codex install *)

At(i, step) == installer[i].step = step
BuildAt(i)  == BuildOf[installer[i].pkg]
Goto(i, step) == installer' = [installer EXCEPT ![i].step = step]
Ends(i)       == installer' = [installer EXCEPT ![i] = Done]

(* The commands that have found no build at i's target, and put it there. *)
Placing(i) == installer[i].step \in {"move", "mkdir", "open", "write"}
Rivals(i)  == {j \in Installer \ {i} : Placing(j) /\ BuildAt(j) = BuildAt(i)}

(* Faulty variant: the binary is not compared with its manifest. *)
StageUnverified(i, p) ==
    /\ At(i, "idle")
    /\ installer' = [installer EXCEPT ![i] = [step |-> "stat", pkg |-> p, file |-> None]]
    /\ UNCHANGED <<tree, current, link, disturbed, self>>

(* The package is copied, extracted or downloaded to a private directory   *)
(* and verified there.                                                     *)
Stage(i, p) ==
    /\ At(i, "idle") /\ p \in Sound
    /\ installer' = [installer EXCEPT ![i] = [step |-> "stat", pkg |-> p, file |-> None]]
    /\ UNCHANGED <<tree, current, link, disturbed, self>>

(* Whatever is at the target is taken for an installed build, one that is  *)
(* still being copied too; and nothing keeps two commands from finding     *)
(* none.                                                                   *)
Stat(i) ==
    /\ At(i, "stat")
    /\ Goto(i, IF tree[BuildAt(i)] = NoTree THEN "move" ELSE "unlink")
    /\ disturbed' = disturbed \cup (IF Rivals(i) = {} THEN {} ELSE {BuildAt(i)})
    /\ UNCHANGED <<tree, current, link, self>>

(* os.Rename replaces no directory and crosses no device; a copy is next.  *)
Move(i) ==
    /\ At(i, "move")
    /\ IF tree[BuildAt(i)] = NoTree /\ i \notin CrossDevice
       THEN /\ tree' = [tree EXCEPT ![BuildAt(i)] = [f \in File |-> {installer[i].pkg}]]
            /\ Goto(i, "unlink")
       ELSE /\ Goto(i, "mkdir")
            /\ UNCHANGED tree
    /\ UNCHANGED <<current, link, disturbed, self>>

(* copyTree: the directory, then each file, truncated and written. *)
MakeDirectory(i) ==
    /\ At(i, "mkdir")
    /\ tree' = [tree EXCEPT ![BuildAt(i)] = IF @ = NoTree THEN [f \in {} |-> {}] ELSE @]
    /\ installer' = [installer EXCEPT ![i].step = "open", ![i].file = "binary"]
    /\ UNCHANGED <<current, link, disturbed, self>>

OpenFile(i) ==
    /\ At(i, "open")
    /\ tree' = [tree EXCEPT ![BuildAt(i)] =
           [f \in DOMAIN @ \cup {installer[i].file} |->
               IF f = installer[i].file THEN {} ELSE @[f]]]
    /\ Goto(i, "write")
    /\ UNCHANGED <<current, link, disturbed, self>>

(* Two copies of one build write the same file: one that was truncated     *)
(* under its writer has a hole.                                            *)
WriteFile(i) ==
    LET q == installer[i]
        met == \E j \in Installer \ {i} :
                     At(j, "write") /\ BuildAt(j) = BuildAt(i) /\ installer[j].file = q.file
    IN  /\ At(i, "write")
        /\ \E written \in {{q.pkg}} \cup (IF met THEN {{}} ELSE {}) :
               tree' = [tree EXCEPT ![BuildAt(i)][q.file] = @ \cup written]
        /\ installer' = [installer EXCEPT ![i] =
               IF q.file = "binary" THEN [@ EXCEPT !.step = "open", !.file = "manifest"]
               ELSE [@ EXCEPT !.step = "unlink"]]
        /\ UNCHANGED <<current, link, disturbed, self>>

(* replaceSymlink. *)
RemoveStaged(i) ==
    /\ At(i, "unlink")
    /\ link' = None
    /\ Goto(i, "symlink")
    /\ UNCHANGED <<tree, current, disturbed, self>>

Symlink(i) ==
    /\ At(i, "symlink")
    /\ IF link = None
       THEN link' = BuildAt(i) /\ Goto(i, "rename")
       ELSE UNCHANGED link /\ Ends(i)
    /\ UNCHANGED <<tree, current, disturbed, self>>

(* The rename takes whatever is staged, another command's link included.   *)
RenameLink(i) ==
    /\ At(i, "rename")
    /\ IF link # None
       THEN current' = link /\ link' = None /\ Ends(i)
       ELSE UNCHANGED <<current, link>> /\ Goto(i, "remove")
    /\ UNCHANGED <<tree, disturbed, self>>

RemoveFailed(i) ==
    /\ At(i, "remove")
    /\ link' = None
    /\ Ends(i)
    /\ UNCHANGED <<tree, current, disturbed, self>>

(* Killed, or a call failed: nothing in the root is taken back, half of a  *)
(* copy neither.                                                           *)
StopInstall(i) ==
    /\ ~At(i, "idle")
    /\ disturbed' = disturbed \cup
           (IF installer[i].step \in {"open", "write"} THEN {BuildAt(i)} ELSE {})
    /\ Ends(i)
    /\ UNCHANGED <<tree, current, link, self>>

-----------------------------------------------------------------------------
(* rca update *)

(* Downloaded, compared with the published checksum and run once. *)
Obtain(u, r) ==
    /\ updater[u].step = "idle"
    /\ updater' = [updater EXCEPT ![u] = [step |-> "open", release |-> r, inode |-> None]]
    /\ UNCHANGED <<program, incoming, content, ran, shared, root>>

(* The updates that have opened rca.incoming and not yet renamed it. *)
Replacing == {u \in Updater : updater[u].step \in {"write", "rename"}}

(* Faulty variant: the new binary is written over the running one. *)
OpenProgram(u) ==
    /\ updater[u].step = "open"
    /\ incoming' = program
    /\ content' = [content EXCEPT ![program] = {}]
    /\ updater' = [updater EXCEPT ![u].step = "write", ![u].inode = program]
    /\ UNCHANGED <<program, ran, shared, root>>

(* copyFile: an rca.incoming that is there already is truncated, whoever   *)
(* is writing to it; a file that runs is not given out again.              *)
OpenIncoming(u) ==
    /\ updater[u].step = "open"
    /\ \E n \in IF incoming # None THEN {incoming} ELSE Inode \ ran :
           /\ incoming' = n
           /\ content' = [content EXCEPT ![n] = {}]
           /\ updater' = [updater EXCEPT ![u].step = "write", ![u].inode = n]
           /\ shared' = IF Replacing \ {u} = {} THEN shared \ {n} ELSE shared \cup {n}
    /\ UNCHANGED <<program, ran, root>>

WriteIncoming(u) ==
    LET q == updater[u]
        met == \E v \in Updater \ {u} : updater[v].inode = q.inode
    IN  /\ q.step = "write"
        /\ \E written \in {{q.release}} \cup (IF met THEN {{}} ELSE {}) :
               content' = [content EXCEPT ![q.inode] = @ \cup written]
        /\ updater' = [updater EXCEPT ![u].step = "rename", ![u].inode = None]
        /\ UNCHANGED <<program, incoming, ran, shared, root>>

RenameProgram(u) ==
    /\ updater[u].step = "rename"
    /\ IF incoming # None
       THEN program' = incoming /\ incoming' = None /\ ran' = ran \cup {incoming}
       ELSE UNCHANGED <<program, incoming, ran>>
    /\ updater' = [updater EXCEPT ![u] = Over]
    /\ UNCHANGED <<content, shared, root>>

(* Killed, or the copy failed: rca.incoming stays where it is. *)
StopUpdate(u) ==
    /\ updater[u].step # "idle"
    /\ updater' = [updater EXCEPT ![u] = Over]
    /\ UNCHANGED <<program, incoming, content, ran, shared, root>>

InstallStep(i) ==
    \/ \E p \in Package : Stage(i, p)
    \/ Stat(i) \/ Move(i) \/ MakeDirectory(i) \/ OpenFile(i) \/ WriteFile(i)
    \/ RemoveStaged(i) \/ Symlink(i) \/ RenameLink(i) \/ RemoveFailed(i) \/ StopInstall(i)

UpdateStep(u) ==
    \/ \E r \in Release : Obtain(u, r)
    \/ OpenIncoming(u) \/ WriteIncoming(u) \/ RenameProgram(u) \/ StopUpdate(u)

Next ==
    \/ \E i \in Installer : InstallStep(i)
    \/ \E u \in Updater : UpdateStep(u)

Spec == Init /\ [][Next]_vars
-----------------------------------------------------------------------------
(* Properties *)

(* The package whose files, all of them and nothing else, are in a build. *)
Installed ==
    [b \in Build |->
        IF \E p \in Package : tree[b] = [f \in File |-> {p}]
        THEN CHOOSE p \in Package : tree[b] = [f \in File |-> {p}]
        ELSE None]

(* codexpkg.go:86-89: "a half-extracted package is never the one a harness *)
(* resolves".                                                              *)
CurrentIsComplete == current # None => Installed[current] # None

(* As far as the code keeps it: the half-extracted build that current may  *)
(* name is one at which two installs met or a copy stopped, no other.      *)
UndisturbedIsComplete == current \notin disturbed => CurrentIsComplete

(* Builds appear whole and verified, never change afterwards, and current  *)
(* is never without one once it has one; a build is out of this only from  *)
(* the moment at which a second install of it begins while one puts it in  *)
(* place, or a copy to it stops.                                           *)
Abstract == INSTANCE VersionedRoot
    WITH builds <- [b \in Build |-> IF b \in disturbed THEN Spoiled ELSE Installed[b]]
ImplementsVersionedRoot == Abstract!VSpec

(* Nobody writes to an inode that is or was running, and each holds the    *)
(* whole of one release (selfupdate.go:14-17), however many updates there  *)
(* are and wherever they stop, but for one that was opened while another   *)
(* update was between its own open and its rename: rca.incoming is a fixed *)
(* name.                                                                   *)
ProgramIsWhole ==
    \A n \in ran \ shared :
        /\ Cardinality(content[n]) = 1
        /\ \A u \in Updater : updater[u].inode # n
=============================================================================
