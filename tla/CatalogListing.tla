--------------------------- MODULE CatalogListing ---------------------------
(* What the status commands list: the catalog's names, or, when the catalog *)
(* is empty, the names found by walking the storage root.  A directory is a *)
(* sequence of segments below the root; a drawer's data file is the          *)
(* sequence of its directory and its stem.  Sizes and record counts are left *)
(* out.                                                                      *)
EXTENDS Naturals, Sequences, FiniteSets

CONSTANTS
    FlatOf,     \* stem -> {<<schema, drawer>>}: what a dot in it separates
    TenantOf    \* stem -> {tenant}: what its last underscore separates

Up(path) == SubSeq(path, 1, Len(path) - 1)
Leaf(path) == path[Len(path)]
IsUnder(path, dir) ==
  Len(dir) <= Len(path) /\ SubSeq(path, 1, Len(dir)) = dir

EmptyRegistry ==
  [databases |-> {}, schemas |-> {}, drawers |-> {}, routes |-> {}]
IsEmpty(reg) == reg = EmptyRegistry

\* A drawer's entry stands for its schema and its database even where these
\* have no key of their own.
ContainsDatabase(reg, d) ==
  d \in reg.databases \/ \E n \in reg.drawers : n[1] = d
ContainsSchema(reg, d, s) ==
  <<d, s>> \in reg.schemas \/ \E n \in reg.drawers : n[1] = d /\ n[2] = s
ContainsDrawer(reg, n) == n \in reg.drawers

DatabaseNames(reg) == reg.databases \cup {n[1] : n \in reg.drawers}
SchemaNames(reg, d) ==
  {p[2] : p \in {q \in reg.schemas : q[1] = d}}
    \cup {n[2] : n \in {m \in reg.drawers : m[1] = d}}
DrawerEntries(reg, d, s) ==
  {n[3] : n \in {m \in reg.drawers : m[1] = d /\ m[2] = s}}
TenantIds(reg) == {r.tenant : r \in reg.routes}
TenantRoute(reg, t) == {r \in reg.routes : r.tenant = t}

-----------------------------------------------------------------------------
ChildDirectories(dirs, dir) ==
  {p \in dirs : Len(p) = Len(dir) + 1 /\ IsUnder(p, dir)}
StemsIn(files, dir) == {Leaf(f) : f \in {g \in files : Up(g) = dir}}
HasDrawerFiles(files, dir) == StemsIn(files, dir) # {}

HasDatabaseLayout(dirs, files, dir) ==
  \/ HasDrawerFiles(files, dir)
  \/ \E p \in ChildDirectories(dirs, dir) : HasDrawerFiles(files, p)

PrefixTenants(files, dir) == UNION {TenantOf[w] : w \in StemsIn(files, dir)}
FlatSchemas(files, dir) ==
  {p[1] : p \in UNION {FlatOf[w] : w \in StemsIn(files, dir)}}

\* A first segment is a tenant when drawers lie in its own directory or three
\* levels down; a second one when drawers lie in its directory.
DiscoverTenants(dirs, files) ==
  LET top == ChildDirectories(dirs, <<>>)
      Below(P) == UNION {ChildDirectories(dirs, p) : p \in P}
      second == Below(top)
      third == Below(second)
      Full(P) == {p \in P : HasDrawerFiles(files, p)}
  IN {Leaf(p) : p \in Full(top) \cup Full(second)}
       \cup {p[1] : p \in Full(third)}
       \cup UNION {PrefixTenants(files, p) :
                     p \in {<<>>} \cup Full(top) \cup Full(second)
                             \cup Full(third)}

\* A first-level directory that looks like a database hides the databases
\* below it.
DiscoverDatabases(dirs, files) ==
  LET top == ChildDirectories(dirs, <<>>)
      Is(p) == HasDatabaseLayout(dirs, files, p)
      nested == UNION {ChildDirectories(dirs, p) : p \in {q \in top : ~Is(q)}}
  IN (IF HasDrawerFiles(files, <<>>) THEN {<<>>} ELSE {})
       \cup {p \in top \cup nested : Is(p)}

DiscoverSchemas(dirs, files, d) ==
  {Leaf(p) : p \in {q \in ChildDirectories(dirs, d) :
                      HasDrawerFiles(files, q)}}
    \cup FlatSchemas(files, d)

DrawersInDirectory(files, dir) == StemsIn(files, dir)
FlatDrawers(files, d, s) ==
  {p[2] : p \in {q \in UNION {FlatOf[w] : w \in StemsIn(files, d)} :
                   q[1] = s}}
DiscoverDrawers(files, d, s) ==
  DrawersInDirectory(files, Append(d, s)) \cup FlatDrawers(files, d, s)

-----------------------------------------------------------------------------
\* A database name with two segments names its tenant; one with a single
\* segment is itself listed as a tenant while no tenant has a route.
ShowTenants(reg, dirs, files) ==
  IF IsEmpty(reg) THEN DiscoverTenants(dirs, files)
  ELSE TenantIds(reg)
         \cup {d[1] : d \in {e \in DatabaseNames(reg) :
                               Len(e) > 1 \/ TenantIds(reg) = {}}}

ShowDatabases(reg, dirs, files) ==
  IF IsEmpty(reg) THEN DiscoverDatabases(dirs, files) ELSE DatabaseNames(reg)

ShowSchemas(reg, dirs, files, d) ==
  IF IsEmpty(reg) THEN DiscoverSchemas(dirs, files, d)
  ELSE SchemaNames(reg, d)

BugShowDrawers(reg, files, d, s) ==  \* the walk alone
  DiscoverDrawers(files, d, s)

ShowDrawers(reg, files, d, s) ==
  DiscoverDrawers(files, d, s)
    \cup (IF IsEmpty(reg) THEN {} ELSE DrawerEntries(reg, d, s))

ListDrawerNames(files) == files
=============================================================================
