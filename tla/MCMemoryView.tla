---------------------------- MODULE MCMemoryView ----------------------------
(* Constants for the run of MemoryView. *)
EXTENDS MemoryView, TLC

CONSTANTS note, index, twin, memory

MCLine(terms) == [terms |-> terms, size |-> IF terms = {} THEN 3 ELSE 1]
MCLines == {MCLine({}), MCLine({1}), MCLine({2}), MCLine({1, 2})}
Short == <<MCLine({1})>>

(* The notes directory is <<1, 1>>; twin is an extension of a note's path, *)
(* index a file where the notes' directory should be; memory is hidden     *)
(* from no one and holds any document of four lines, none with two terms   *)
(* at once, or of two lines.                                               *)
MCPathOf == note :> <<1, 1, 2>> @@ twin :> <<1, 1, 2>> @@ index :> <<1, 1>> @@ memory :> <<2>>

MCDocument == {<<>>} \cup UNION {[1..n -> MCLines] : n \in 1..2}
                   \cup UNION {[1..n -> MCLines \ {MCLine({1, 2})}] : n \in 3..4}
MCWritten == note :> {Short} @@ twin :> {Short} @@ index :> {Short} @@ memory :> {Short, <<MCLine({}), MCLine({1, 2})>>}

MCInitial ==
    {note :> n @@ twin :> None @@ index :> None @@ memory :> d :
        n \in {None, Short}, d \in MCDocument}

MCList(scope, max) == [kind |-> "list", scope |-> scope, max |-> max, terms |-> {},
                       mode |-> "any", window |-> 0, context |-> 0]
MCSearch(scope, max, terms, mode, window, context) ==
    [kind |-> "search", scope |-> scope, max |-> max, terms |-> terms,
     mode |-> mode, window |-> window, context |-> context]

MCQuery ==
    {MCList(<<>>, 1), MCList(<<1, 1>>, 2), MCSearch(<<>>, 1, {1, 2}, "any", 0, 0),
     MCSearch(<<>>, 3, {1, 2}, "all_on_same_line", 0, 1),
     MCSearch(<<>>, 2, {1, 2}, "all_within_lines", 3, 0),
     MCSearch(<<2>>, 2, {1, 2}, "all_within_lines", 4, 1)}

(* TLC evaluates the table of matches once, here. *)
MCMatch ==
    [window : [from : Nat, to : Nat, terms : SUBSET Term], body : Seq(Line), size : Nat]
ASSUME MatchesOf \in [{q \in Query : q.kind = "search"} -> [Document -> Seq(MCMatch)]]
=============================================================================
