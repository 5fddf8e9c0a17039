----------------------------- MODULE MemoryView -----------------------------
(***************************************************************************)
(* What a model sees of the store's memory: internal/trustedstate/         *)
(* native_memory.go.  The live resources of four domains make one tree of  *)
(* files.  memory.list and memory.search walk it page by page, each page   *)
(* computed from a snapshot of its own and bound to the first one by the   *)
(* cursor, while commits go on in between.                                 *)
(***************************************************************************)
EXTENDS Integers, FiniteSets, SequencesExt, FiniteSetsExt, TLC

CONSTANTS
    Resource,   \* the canonical resources of the memory domains
    PathOf,     \* memoryPath: a resource's path, a sequence of names
    Hidden,     \* the names that begin with a dot
    Document,   \* contents: sequences of lines
    Written,    \* Written[r]: the documents commits put into r
    Initial,    \* the memories the journal may hold at the start
    Query,      \* list and search requests, without their cursors
    PageBytes,  \* NativePageBytes
    MaxCommits, \* bound on commits
    None

(* What searches ask for, and a line: those of them that occur in it, and  *)
(* its length.                                                             *)
Term == UNION {q.terms : q \in Query}
Line == [terms : SUBSET Term, size : Nat]

(* MemorySearch refuses an empty query, and what is not a window.          *)
ASSUME ViewAssumption ==
    /\ IsFiniteSet(Resource)
    /\ PathOf \in [Resource -> Seq(Nat) \ {<<>>}]
    /\ Document \subseteq Seq(Line) /\ None \notin Document /\ None \notin Query
    /\ \A q \in Query :
          /\ q.kind \in {"list", "search"} /\ q.max \in Nat \ {0}
          /\ q.kind = "search" =>
                /\ q.terms # {} /\ q.window \in Nat /\ q.context \in Nat
                /\ q.mode \in {"any", "all_on_same_line", "all_within_lines"}
    /\ Written \in [Resource -> SUBSET Document]
    /\ Initial \subseteq [Resource -> Document \cup {None}]
    /\ PageBytes \in Nat /\ MaxCommits \in Nat

VARIABLES
    native,     \* the document of each resource, None when absent or deleted
    sequence,   \* of the last journal record
    walk        \* a reader's walk: [status, query, base, cursor, got]

vars == <<native, sequence, walk>>

-----------------------------------------------------------------------------
(* The elements of s that are to be kept, in their order: SelectSeq, in a  *)
(* form that can be reasoned about.                                        *)
Pick(s, kept) ==
    LET picked[i \in 0..Len(s)] ==
            IF i = 0 THEN <<>>
            ELSE IF kept[i] THEN Append(picked[i - 1], s[i]) ELSE picked[i - 1]
    IN  picked[Len(s)]

-----------------------------------------------------------------------------
(* The tree of files *)

Live == {r \in Resource : native[r] # None}
Paths == {PathOf[r] : r \in Live}
Snapshot == [p \in Paths |-> native[CHOOSE r \in Live : PathOf[r] = p]]

(* Faulty variant: paths must differ, but a file may be a directory too. *)
Distinct(live) == \A r, s \in live : r # s => PathOf[r] # PathOf[s]

(* validMemoryPaths: no two live resources share a path, and no file is    *)
(* another's parent directory.                                             *)
Legible(live) ==
    \A r, s \in live : r # s => ~IsPrefix(PathOf[r], PathOf[s])

SumSize(s) ==
    LET sum[i \in 0..Len(s)] == IF i = 0 THEN 0 ELSE sum[i - 1] + s[i].size
    IN  sum[Len(s)]

IsHidden(p) == \E i \in DOMAIN p : p[i] \in Hidden

(* The order of the names, for a deterministic walk. *)
Before(p, q) ==
    \/ IsStrictPrefix(p, q)
    \/ \E i \in (DOMAIN p) \cap (DOMAIN q) :
          p[i] < q[i] /\ SubSeq(p, 1, i - 1) = SubSeq(q, 1, i - 1)

Order ==
    LET all == UNION {{SubSeq(PathOf[r], 1, n) : n \in 1..Len(PathOf[r])} : r \in Resource}
    IN  [i \in 1..Cardinality(all) |->
            CHOOSE p \in all : Cardinality({x \in all : Before(x, p)}) = i - 1]

Sorted(paths) == Pick(Order, [i \in DOMAIN Order |-> Order[i] \in paths])

-----------------------------------------------------------------------------
(* memory.list: the entries directly below the scope. *)

Entries(files, scope) ==
    IF scope \in DOMAIN files
    THEN {scope}
    ELSE {SubSeq(p, 1, Len(scope) + 1) :
             p \in {x \in DOMAIN files : IsStrictPrefix(scope, x) /\ ~IsHidden(x)}}

ListAll(files, q) ==
    LET paths == Sorted(Entries(files, q.scope))
    IN  [i \in DOMAIN paths |->
            [path |-> paths[i], dir |-> paths[i] \notin DOMAIN files, size |-> Len(paths[i])]]

-----------------------------------------------------------------------------
(* memory.search: matches of one document.  The bits of the code's flags   *)
(* are sets of terms; it refuses more than 64 of them.                     *)

Flags(doc, terms) == [i \in DOMAIN doc |-> doc[i].terms \cap terms]

(* ends: the farthest of the next lines, from i on, of each term, which    *)
(* the scan backwards keeps; one past the last line if a term has none.    *)
WindowEnd(flags, terms, i) ==
    Max({i} \cup {Min({j \in i..Len(flags) : t \in flags[j]} \cup {Len(flags) + 1}) :
                     t \in terms})

(* The window that begins with line i: to the first line by which all the  *)
(* terms have occurred, or line i alone.                                   *)
Window(doc, q, i) ==
    LET flags == Flags(doc, q.terms)
    IN  IF q.mode = "all_within_lines"
        THEN [from |-> i, to |-> WindowEnd(flags, q.terms, i), terms |-> q.terms]
        ELSE [from |-> i, to |-> i, terms |-> flags[i]]

IsWindow(doc, q, w) ==
    /\ Flags(doc, q.terms)[w.from] # {}
    /\ q.mode = "all_within_lines" => w.to <= Len(doc) /\ w.to - w.from + 1 <= q.window
    /\ q.mode = "any" \/ w.terms = q.terms

(* The windows of a document, by their first lines. *)
Windows(doc, q) ==
    LET all == [i \in DOMAIN doc |-> Window(doc, q, i)]
    IN  Pick(all, [i \in DOMAIN doc |-> IsWindow(doc, q, all[i])])

(* Faulty variant: a window equal in its end to the next one is kept. *)
RejectLonger(w, k) == k < Len(w) /\ w[k + 1].to < w[k].to

(* A window is dropped when it contains the one after it. *)
HoldsNext(w, k) == k < Len(w) /\ w[k + 1].to <= w[k].to

Matches(doc, q) ==
    LET w == Windows(doc, q)
        minimal == Pick(w, [k \in DOMAIN w |->
                               q.mode = "all_within_lines" => ~HoldsNext(w, k)])
        Match(x) ==
            LET body == SubSeq(doc, Max({1, x.from - q.context}),
                                    Min({Len(doc), x.to + q.context}))
            IN  [window |-> x, body |-> body, size |-> SumSize(body) + Len(body) - 1]
    IN  [k \in DOMAIN minimal |-> Match(minimal[k])]

(* Matches does not depend on the state: a table of it, for TLC. *)
MatchesOf == [q \in {x \in Query : x.kind = "search"} |->
                 [doc \in Document |-> Matches(doc, q)]]

SearchAll(files, q) ==
    LET At(p, m) == [k \in DOMAIN m |-> [path |-> p] @@ m[k]]
        found == Sorted({p \in DOMAIN files : IsPrefix(q.scope, p) /\ ~IsHidden(p)})
        all[i \in 0..Len(found)] ==
            IF i = 0 THEN <<>> ELSE all[i - 1] \o At(found[i], MatchesOf[q][files[found[i]]])
    IN  all[Len(found)]

-----------------------------------------------------------------------------
(* One page *)

All(files, q) == IF q.kind = "list" THEN ListAll(files, q) ELSE SearchAll(files, q)

NotFound(files, q) ==
    /\ q.scope # <<>>
    /\ \A p \in DOMAIN files : IsPrefix(q.scope, p) =>
          IsHidden(p) /\ ~(q.kind = "list" /\ p = q.scope)

(* How many of the results after the first start fit. *)
Taken(all, start, q) ==
    Max({n \in 0..Min({q.max, Len(all) - start}) :
            SumSize(SubSeq(all, start + 1, start + n)) <= PageBytes})

(* Faulty variant: a match of any size ends the page. *)
NeverTooLarge(all, start, q) == FALSE

(* search_match_too_large: the page has room and the next match never      *)
(* will.  (A path is never longer than a page: 1024 bytes of 32 KiB.)      *)
TooLarge(all, start, q) ==
    LET n == Taken(all, start, q)
    IN  /\ n < q.max /\ start + n < Len(all)
        /\ all[start + n + 1].size > PageBytes

(* Faulty variant: a cursor is good for any snapshot. *)
AcceptsAnySnapshot(cursor, q) == cursor.query = q

(* cursorStart: a cursor belongs to one commit and one query. *)
Accepts(cursor, q) == cursor.sequence = sequence /\ cursor.query = q

Ended(status) == walk' = [walk EXCEPT !.status = status]

Page(q, base, got, start) ==
    \E files \in {Snapshot} : \E all \in {All(files, q)} : \E n \in {Taken(all, start, q)} :
        IF TooLarge(all, start, q)
        THEN walk' = [status |-> "too_large", query |-> q, base |-> base,
                      cursor |-> None, got |-> got]
        ELSE walk' = [status |-> IF start + n < Len(all) THEN "walking" ELSE "done",
                      query  |-> q, base |-> base, got |-> got \o SubSeq(all, start + 1, start + n),
                      cursor |-> [sequence |-> sequence, query |-> q, index |-> start + n]]

(* memory.list and memory.search without a cursor. *)
FirstPage(q) ==
    /\ walk.status # "walking"
    /\ IF NotFound(Snapshot, q)
       THEN Ended("not_found")
       ELSE Page(q, Snapshot, <<>>, 0)
    /\ UNCHANGED <<native, sequence>>

(* With the cursor of the page before, and perhaps other arguments. *)
NextPage(q) ==
    /\ walk.status = "walking"
    /\ IF Accepts(walk.cursor, q)
       THEN Page(q, walk.base, walk.got, walk.cursor.index)
       ELSE Ended("expired")
    /\ UNCHANGED <<native, sequence>>

(* memory.read, with the sequence of a page: lines from offset on, as far  *)
(* as the page goes; None for an error.                                    *)
MemoryRead(p, offset, lines, expected) ==
    IF expected # sequence \/ p \notin Paths \/ offset > Len(Snapshot[p]) + 1
    THEN None
    ELSE LET doc   == Snapshot[p]
             last  == Min({Len(doc), offset + lines - 1})
             bytes == SumSize(SubSeq(doc, offset, last)) + last - offset + 1
         IN  [content   |-> SubSeq(doc, offset, last),
              bytes     |-> Min({bytes, PageBytes}),
              truncated |-> last < Len(doc) \/ bytes > PageBytes]

-----------------------------------------------------------------------------
(* A transaction on the memory: written or deleted as a whole, or rejected *)
(* by validMemoryPaths, which is a record of the journal as well.          *)
Transact(new) ==
    /\ native' = IF Legible({r \in Resource : new[r] # None}) THEN new ELSE native
    /\ sequence < MaxCommits
    /\ sequence' = sequence + 1
    /\ UNCHANGED walk

Commit ==
    \/ \E r \in Resource : \E d \in Written[r] : Transact([native EXCEPT ![r] = d])
    \/ \E R \in SUBSET Live :
          Transact([r \in Resource |-> IF r \in R THEN None ELSE native[r]])

Init ==
    /\ native \in {m \in Initial : Legible({r \in Resource : m[r] # None})}
    /\ sequence = 0
    /\ walk = [status |-> "none", query |-> None, base |-> <<>>, cursor |-> None, got |-> <<>>]

Next == Commit \/ \E q \in Query : FirstPage(q) \/ NextPage(q)

Spec == Init /\ [][Next]_vars

(* A reader goes on until it has the last page; commits are bounded.       *)
FairSpec == Spec /\ WF_vars(NextPage(walk.query))

-----------------------------------------------------------------------------
(* Properties *)

(* The types, and: the files of the live resources are never ambiguous, so *)
(* that memorySnapshot never fails (validMemoryPaths).                     *)
TypeOK ==
    /\ \A r \in Live : native[r] \in Document
    /\ \A r, s \in Live : r # s => ~IsPrefix(PathOf[r], PathOf[s])
    /\ sequence \in 0..MaxCommits
    /\ walk.status \in {"none", "walking", "done", "expired", "too_large", "not_found"}
    /\ walk.query \in Query \cup {None}
    /\ walk.status = "walking" => walk.cursor.index = Len(walk.got)

Covers(doc, q, a, b) == q.terms \subseteq UNION {doc[i].terms : i \in a..b}

(* What a match is, from line a to line b of a document. *)
Hit(doc, q, a, b) ==
    CASE q.mode = "any" -> a = b /\ doc[a].terms \cap q.terms # {}
      [] q.mode = "all_on_same_line" -> a = b /\ Covers(doc, q, a, b)
      [] q.mode = "all_within_lines" ->
           /\ a <= b /\ b - a < q.window /\ Covers(doc, q, a, b)
           /\ ~Covers(doc, q, a + 1, b) /\ ~Covers(doc, q, a, b - 1)

(* memory.search finds what it is defined to find, whatever the document:  *)
(* with all_within_lines the shortest windows that hold every term, each   *)
(* once and in order; the scan finds them without trying each pair of      *)
(* lines (MemorySearch: "end indices are nondecreasing").                  *)
SearchFindsMinimalWindows ==
    \A p \in Paths, q \in Query \cap {walk.query} : q.kind = "search" =>
        LET doc     == Snapshot[p]
            matches == MatchesOf[q][doc]
            found   == [k \in DOMAIN matches |-> matches[k].window]
        IN  /\ {<<w.from, w.to>> : w \in Range(found)}
                 = {x \in (DOMAIN doc) \X (DOMAIN doc) : Hit(doc, q, x[1], x[2])}
            /\ \A k \in 1..(Len(found) - 1) : found[k].from < found[k + 1].from

(* What a reader collects is one snapshot's answer to one query: a part of *)
(* it page after page, the whole when the last page has come, nothing lost *)
(* and nothing twice; and what it reads under the sequence of its pages is *)
(* of the same snapshot (cursorStart, MemoryRead's expected_sequence).     *)
WalkIsOneSnapshot ==
    walk.query # None =>
        /\ LET all == All(walk.base, walk.query)
           IN  /\ IsPrefix(walk.got, all)
               /\ walk.status = "done" => walk.got = all
        /\ walk.status \in {"walking", "done"} =>
              \A p \in DOMAIN walk.base :
                 LET answer == MemoryRead(p, 1, Len(walk.base[p]), walk.cursor.sequence)
                 IN  answer = None \/ answer.content = walk.base[p]

(* A reader that goes on gets to the end of its walk, or is told why not:  *)
(* every page makes progress (MemoryList, MemorySearch).                   *)
WalkEnds == walk.status = "walking" ~> walk.status # "walking"
=============================================================================
