----------------------------- MODULE MCCatalog -----------------------------
(* A database with a schema whose directory is also that of a nested        *)
(* database, two drawers of which one extends the other's name by a dot, and *)
(* a tenant whose records lie elsewhere.                                     *)
EXTENDS Catalog
CONSTANTS a, b, l, t, w, wx, t1, t2
MCDatabases == {<<a>>}
MCNested == {<<a>>, <<a, b>>}
MCLocations == {<<l>>}
MCDotted == [x \in Drawers |-> IF x = w THEN Drawers \ {w} ELSE {}]
MCFlatOf == [x \in Drawers |-> IF x = w THEN {} ELSE {<<w, wx>>}]
MCStart ==
  {EmptyRegistry,
   [databases |-> {<<a>>}, schemas |-> {<<<<a>>, b>>}, drawers |-> {},
    routes |-> {[tenant |-> t, database |-> <<a>>, location |-> <<l>>]}]}
MCThreads == Permutations(Threads)
MCTenantOf == [x \in Drawers |-> {}]
=============================================================================
