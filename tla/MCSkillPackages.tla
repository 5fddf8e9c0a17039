--------------------------- MODULE MCSkillPackages ---------------------------
(* Constants for the run of SkillPackages. *)
EXTENDS SkillPackages, TLC

CONSTANTS p1, p2, f, g, bad, host, other, c1, c2

Ask(id, op, auth, pkg, enabled, files) ==
    [id |-> id, op |-> op, auth |-> auth, pkg |-> pkg, enabled |-> enabled,
     files |-> files, bundle |-> <<>>]

Ensure(id, bundle) ==
    [id |-> id, op |-> "ensure", auth |-> host, pkg |-> p1, enabled |-> TRUE,
     files |-> f, bundle |-> bundle]

(* Versions of a bundle: from v1, v2 changes a package and v3 drops the    *)
(* other.  The installer switches, replaces and deletes a bundled package, *)
(* another one creates a package a bundle wants or tries to take it over,  *)
(* and a v1 skill of that name is imported.                                *)
MCRequest ==
    {Ensure("v1", p1 :> f @@ p2 :> f), Ensure("v2", p1 :> g @@ p2 :> f),
     Ensure("v3", p1 :> f),
     Ask("off", "enable", host, p1, FALSE, f),
     Ask("put", "replace", host, p1, TRUE, g),
     Ask("del", "delete", host, p1, TRUE, f),
     Ask("bad", "replace", host, p1, TRUE, bad),
     Ask("own", "replace", other, p2, TRUE, g),
     Ask("imp", "import", host, p2, TRUE, f)}

MCLegacy == p1 :> {} @@ p2 :> {f}

MCCallers == Permutations({c1, c2})
=============================================================================
