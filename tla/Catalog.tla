------------------------------ MODULE Catalog ------------------------------
(* The catalog of databases, schemas, drawers and tenant routes, the         *)
(* directories and files it describes, and the engine's open handles.        *)
(*                                                                           *)
(* Threads create and drop structures, insert records through the five ways  *)
(* a command reaches a drawer, back up and restore, while the process may     *)
(* stop and open again.  A file is an inode linked at a path: whoever opened  *)
(* it keeps the inode when a drop or a restore unlinks it, and goes on        *)
(* reading and writing it.  A drawer's three files are one inode, and a       *)
(* logged operation and its commit are one entry of the log (TransactionWal   *)
(* and DrawerStorage model what is inside).                                   *)
EXTENDS CatalogListing, TLC

CONSTANTS
    Databases,      \* names, as sequences of segments
    Schemas, Drawers, Tenants,
    Locations,      \* directories routes may name
    Wal,            \* the name of a directory's log
    Dotted,         \* drawer -> drawers whose stem extends it by a dot
    Threads, Records,
    Kinds,          \* the ways of writing used: "schema", "tenant", ...
    Ddl,            \* the structural operations used
    CacheLimit,     \* drawers a database keeps open
    StartCatalogs,  \* catalogs an earlier process may have left
    Inodes, MaxDdl, MaxStops, MaxEmpty


VARIABLES
    up,             \* the engine is open
    registry,       \* the catalog in memory
    catalogFile,    \* the catalog on disk, or "torn"
    fs,             \* dirs, file: path -> inode, content: inode -> records
    eng,            \* journal, open databases, handles
    pc,             \* what each thread is doing
    archive,        \* the backup in the caller's hands
    acked,          \* records whose command succeeded
    target,         \* record -> where its command was sent
    excused,        \* records a drop, a restore or a re-creation concerned
    cut,            \* files unlinked or emptied while a handle was open
    steps           \* structural operations and stops so far

vars == <<up, registry, catalogFile, fs, eng, pc, archive, acked, target,
          excused, cut, steps>>

-----------------------------------------------------------------------------
(* Paths *)
SchemaPath(d, s) == Append(d, s)
DrawerPath(n) == Append(SchemaPath(n[1], n[2]), n[3])
TenantSchemaPath(location, s) == Append(location, s)
LogOf(dir) == Append(dir, Wal)

Names == Databases \X Schemas \X Drawers
SchemaDirs == {SchemaPath(d, s) : d \in Databases, s \in Schemas}
TenantDirs == {TenantSchemaPath(l, s) : l \in Locations, s \in Schemas}
DataDirs == Databases \cup SchemaDirs \cup TenantDirs
DirsOf(path) == {SubSeq(path, 1, i) : i \in 0 .. Len(path)}
Dirs == UNION {DirsOf(p) : p \in {<<>>} \cup Locations \cup DataDirs}
Files == {Append(d, w) : d \in DataDirs, w \in Drawers}
Logs == {LogOf(d) : d \in DataDirs \cup {<<>>}}
Cores == {<<>>} \cup DataDirs
HandleIds == {h \in Cores \X Files : IsUnder(h[2], h[1])}

\* A file is below the directories above its own.
Below(p, dir) == IsUnder(Up(p), dir)
Relative(path, p) == SubSeq(p, Len(path) + 1, Len(p))

Idle == [phase |-> "idle"]
Closed == [inode |-> 0, view |-> {}]

\* The catalog of each route's database has that database; a path component
\* that is a reserved or an empty name never gets this far.
Registries ==
  [databases : SUBSET Databases,
   schemas : SUBSET (Databases \X Schemas),
   drawers : SUBSET Names,
   routes : SUBSET [tenant : Tenants, database : Databases,
                    location : Locations]]

\* A directory below one that is named like a database is named like a schema;
\* a drawer is not named like the log.
ASSUME CatalogAssumption ==
  /\ \A p \in Databases \cup Locations : p \in Seq({p[i] : i \in DOMAIN p})
  /\ <<>> \notin Databases /\ Wal \notin Drawers
  /\ \A p \in Dirs : Len(p) = 2 /\ <<p[1]>> \in Databases => p[2] \in Schemas
  /\ StartCatalogs \subseteq Registries
  /\ IsFiniteSet(Records) /\ Records \subseteq Nat
  /\ IsFiniteSet(Inodes) /\ 0 \notin Inodes
  /\ CacheLimit \in Nat \ {0}

-----------------------------------------------------------------------------
(* The file system and the engine, as functions of <<fs, eng>> *)
LinkedFiles(f) == {p \in Files : f.file[p] # 0}
InUse(f, e) ==
  {f.file[p] : p \in Files \cup Logs}
    \cup {e.handle[h].inode : h \in HandleIds}
    \cup {e.journal[d] : d \in Cores}
FreshInode(f, e) ==
  CHOOSE i \in Inodes \ InUse(f, e) : TRUE
CanAllocate(f, e, n) == Cardinality(Inodes \ InUse(f, e)) >= n

EnsureDir(f, dir) == [f EXCEPT !.dirs = @ \cup DirsOf(dir)]

\* OpenOptions::create: the file at the path, made when there is none.
OpenOrCreate(f, e, path) ==
  IF f.file[path] # 0 THEN f
  ELSE LET i == FreshInode(f, e)
       IN [f EXCEPT !.file[path] = i, !.content[i] = {}]

BugRemoveTree(f, dir) ==  \* leaves the directory's files linked
  [f EXCEPT !.dirs = {p \in @ : ~IsUnder(p, dir)}]
RemoveTree(f, dir) ==
  [f EXCEPT !.dirs = {p \in @ : ~IsUnder(p, dir)},
            !.file = [p \in DOMAIN @ |-> IF Below(p, dir) THEN 0 ELSE @[p]]]
RemoveFiles(f, F) ==
  [f EXCEPT !.file = [p \in DOMAIN @ |-> IF p \in F THEN 0 ELSE @[p]]]

\* Dropping drawer w removes every drawer file whose name starts with "w.".
DrawerFiles(path) ==
  {path} \cup {Append(Up(path), w) : w \in Dotted[Leaf(path)]}

\* A state of disk and engine, or the error of the call that led to it, which
\* the operations after it pass on.
State(f, e) == [fs |-> f, eng |-> e, ok |-> TRUE]
Failed(s) == [s EXCEPT !.ok = FALSE]

\* The journal of a directory is one per engine and keeps its file open.
OpenJournal(s, dir) ==
  IF s.eng.journal[dir] # 0 THEN s
  ELSE LET f == OpenOrCreate(EnsureDir(s.fs, dir), s.eng, LogOf(dir))
       IN [s EXCEPT !.fs = f, !.eng.journal[dir] = f.file[LogOf(dir)]]

\* Loading one drawer may close others of its database.
Victims(e, core, path) ==
  {h \in HandleIds : h[1] = core /\ h[2] # path /\ e.handle[h].inode # 0}
EvictLru(e, core, path) ==
  LET V == Victims(e, core, path)
      gone == IF Cardinality(V) < CacheLimit THEN {}
              ELSE {CHOOSE h \in V : TRUE}
  IN [e EXCEPT !.handle = [h \in HandleIds |->
                             IF h \in gone THEN Closed ELSE @[h]]]

\* Drawer::open creates the files but not their directory.
LoadDrawer(s, core, path) ==
  LET h == <<core, path>>
      f == OpenOrCreate(s.fs, s.eng, path)
      opened == [s.eng EXCEPT !.handle[h] =
                   [inode |-> f.file[path],
                    view |-> f.content[f.file[path]]]]
  IN IF ~s.ok \/ s.eng.handle[h].inode # 0 THEN s
     ELSE IF Up(path) \notin s.fs.dirs THEN Failed(s)
     ELSE State(f, EvictLru(opened, core, path))

\* A handle inserts into its inode and remembers what it has seen itself.
Insert(s, core, path, recs) ==
  LET i == s.eng.handle[<<core, path>>].inode
  IN IF ~s.ok THEN s
     ELSE [s EXCEPT !.fs.content[i] = @ \cup recs,
                    !.eng.handle[<<core, path>>].view = @ \cup recs]

LogRecords(f, dir) ==
  IF f.file[LogOf(dir)] = 0 THEN {} ELSE f.content[f.file[LogOf(dir)]]

CutLog(s, dir) ==
  IF ~s.ok \/ s.fs.file[LogOf(dir)] = 0 THEN s
  ELSE [s EXCEPT !.fs.content[s.fs.file[LogOf(dir)]] = {}]

\* The log names a drawer by what it is called in the log's own database.
ReplayedPath(core, r) == core \o Relative(target[r].core, target[r].file)
ReplayedPaths(f, core) == {ReplayedPath(core, r) : r \in LogRecords(f, core)}

\* Recovery applies the log linked at the directory, through the database
\* being opened, and cuts it.  An operation that fails fails the opening.
Recover(s, core) ==
  LET paths == ReplayedPaths(s.fs, core)
      OfPath(p) == {r \in LogRecords(s.fs, core) : ReplayedPath(core, r) = p}
      Replay[P \in SUBSET paths] ==
        IF P = {} THEN s
        ELSE LET p == CHOOSE q \in P : TRUE
             IN Insert(LoadDrawer(Replay[P \ {p}], core, p), core, p,
                       OfPath(p))
  IN CutLog(Replay[paths], core)

CloseCore(e, core) ==
  [e EXCEPT !.handle = [h \in HandleIds |->
                          IF h[1] = core THEN Closed ELSE @[h]]]

OpenDatabase(s, core) ==
  Recover([s EXCEPT !.fs = EnsureDir(@, core)], core)

\* The database cached for the route, opened and recovered if there is none;
\* a failed opening caches nothing.
DatabaseForRoute(s, core) ==
  IF core \in s.eng.open THEN s
  ELSE LET o == OpenDatabase(s, core)
       IN IF o.ok THEN [o EXCEPT !.eng.open = @ \cup {core}]
          ELSE [o EXCEPT !.eng = CloseCore(@, core)]

\* A tenant's command opens a database of its own and drops it afterwards.
FreshDatabase(s, core) ==
  OpenDatabase([s EXCEPT !.eng = CloseCore(@, core)], core)

-----------------------------------------------------------------------------
(* The catalog's own operations *)
RegisterDatabase(reg, d) == [reg EXCEPT !.databases = @ \cup {d}]
RegisterSchema(reg, d, s) ==
  [RegisterDatabase(reg, d) EXCEPT !.schemas = @ \cup {<<d, s>>}]
RegisterDrawer(reg, n) ==
  [RegisterSchema(reg, n[1], n[2]) EXCEPT !.drawers = @ \cup {n}]
RegisterTenantRoute(reg, route) ==
  [RegisterDatabase(reg, route.database) EXCEPT
     !.routes = {r \in @ : r.tenant # route.tenant} \cup {route}]

UnregisterDatabase(reg, d) ==
  [databases |-> reg.databases \ {d},
   schemas |-> {p \in reg.schemas : p[1] # d},
   drawers |-> {n \in reg.drawers : n[1] # d},
   routes |-> {r \in reg.routes : r.database # d}]
UnregisterSchema(reg, d, s) ==
  [reg EXCEPT !.schemas = @ \ {<<d, s>>},
              !.drawers = {n \in @ : n[1] # d \/ n[2] # s}]
UnregisterDrawer(reg, n) == [reg EXCEPT !.drawers = @ \ {n}]

BugPersistToRoot(reg) ==  \* changes the catalog in memory alone
  registry' = reg /\ UNCHANGED catalogFile

\* The change and the rewriting of the file happen under one lock; only a
\* stop while the file is written in place tears it.
PersistToRoot(reg) ==
  /\ registry' = reg
  /\ catalogFile' = [whole |-> TRUE, reg |-> reg]

-----------------------------------------------------------------------------
(* Writing a record *)
ImplicitDrawer(reg, n) ==
  ContainsSchema(reg, n[1], n[2]) /\ ~ContainsDrawer(reg, n)

\* A scoped command needs a registered drawer, except an upsert into a
\* registered schema and any command while the catalog is empty.
ValidAgainstRegistry(reg, n) ==
  IsEmpty(reg) \/ ContainsDrawer(reg, n) \/ ImplicitDrawer(reg, n)

CataloguedName(reg, n) ==
  IF ContainsDrawer(reg, n) \/ ImplicitDrawer(reg, n) THEN n ELSE <<>>

Destination(k, core, path, n) ==
  [kind |-> k, core |-> core, file |-> path,
   name |-> IF n = <<>> THEN n ELSE CataloguedName(registry, n),
   implicit |-> n # <<>> /\ ImplicitDrawer(registry, n)]

\* Schema scope and coordinate: the database of the schema's directory.
SchemaScope ==
  {Destination("schema", SchemaPath(n[1], n[2]), DrawerPath(n), n) :
     n \in {m \in Names : ValidAgainstRegistry(registry, m)}}

\* A tenant's directory is where its route says, the names are its route's.
TenantScope ==
  UNION {LET core == TenantSchemaPath(r.location, n[2])
         IN IF ValidAgainstRegistry(registry, n) /\ r.database = n[1]
            THEN {Destination("tenant", core, Append(core, n[3]), n)}
            ELSE {} : r \in registry.routes, n \in Names}

\* A database scope and a namespace are one segment and are not looked up.
Single == {d \in Databases : Len(d) = 1}
DatabaseScope ==
  {Destination("database", d, Append(d, w), <<>>) :
     d \in Single, w \in Drawers}
DrawerNamespace ==
  {Destination("namespace", <<>>, Append(d, w), <<>>) :
     d \in Single, w \in Drawers}

\* A name with slashes given to the engine itself: the root database, and a
\* drawer of a registered schema is registered with it.
QualifiedDrawer ==
  {Destination("qualified", <<>>, DrawerPath(n), n) : n \in Names}

Destinations ==
  {d \in SchemaScope \cup TenantScope \cup DatabaseScope
           \cup DrawerNamespace \cup QualifiedDrawer : d.kind \in Kinds}

NoTarget == [file |-> <<>>, name |-> <<>>, core |-> <<>>]
Unwritten == {r \in Records : target[r] = NoTarget}

BeginWrite(t) ==
  /\ up /\ pc[t] = Idle
  /\ Unwritten # {}
  /\ LET r == CHOOSE x \in Unwritten : \A y \in Unwritten : x <= y
     IN \E d \in Destinations :
          /\ (IsEmpty(registry) => Cardinality(Records \ Unwritten) < MaxEmpty)
          /\ pc' = [pc EXCEPT ![t] = [phase |-> "run", rec |-> r, to |-> d]]
          /\ target' = [target EXCEPT ![r] = [file |-> d.file,
                                              name |-> d.name,
                                              core |-> d.core]]
  /\ UNCHANGED <<up, registry, catalogFile, fs, eng, archive, acked, excused,
                 cut, steps>>

\* The command is logged, the database found or opened, the operation logged
\* and applied, and the log cut when a threshold is reached.
DatabaseOf(s, d) ==
  IF d.kind = "tenant" THEN FreshDatabase(s, d.core)
  ELSE DatabaseForRoute(s, d.core)

LogOperation(s, core, r) ==
  IF ~s.ok THEN s
  ELSE [s EXCEPT !.fs.content[s.eng.journal[core]] = @ \cup {r}]

FlushCheckpoint(s, core) ==
  IF ~s.ok THEN s
  ELSE CutLog([s EXCEPT !.fs = OpenOrCreate(EnsureDir(@, core), s.eng,
                                            LogOf(core))], core)

ReleaseDatabase(s, d) ==
  IF d.kind = "tenant" THEN [s EXCEPT !.eng = CloseCore(@, d.core)] ELSE s

Written(s, d, r) ==
  LogOperation(Insert(s, d.core, d.file, {r}), d.core, r)

ExecuteInDatabase(s, d, r, checkpoint) ==
  LET loaded == LoadDrawer(DatabaseOf(OpenJournal(s, d.core), d),
                           d.core, d.file)
  IN ReleaseDatabase(
       IF checkpoint THEN FlushCheckpoint(Written(loaded, d, r), d.core)
       ELSE Written(loaded, d, r), d)

RunWrite(t) ==
  /\ up /\ pc[t].phase = "run"
  /\ CanAllocate(fs, eng, 3 + Cardinality(ReplayedPaths(fs, pc[t].to.core)))
  /\ LET r == pc[t].rec
         d == pc[t].to
     IN /\ \E s \in {ExecuteInDatabase(State(fs, eng), d, r, checkpoint) :
                       checkpoint \in BOOLEAN} :
             /\ fs' = s.fs /\ eng' = s.eng
             /\ pc' = [pc EXCEPT ![t] = IF s.ok THEN [@ EXCEPT !.phase = "ack"]
                                        ELSE Idle]
        /\ excused' = IF d.file \in cut THEN excused \cup {r} ELSE excused
  /\ UNCHANGED <<up, registry, catalogFile, archive, acked, target, cut,
                 steps>>

\* Only now is the drawer of an implicit upsert registered.
AckWrite(t) ==
  /\ up /\ pc[t].phase = "ack"
  /\ LET d == pc[t].to
     IN IF d.implicit /\ ~ContainsDrawer(registry, d.name)
        THEN PersistToRoot(RegisterDrawer(registry, d.name))
        ELSE UNCHANGED <<registry, catalogFile>>
  /\ acked' = acked \cup {pc[t].rec}
  /\ pc' = [pc EXCEPT ![t] = Idle]
  /\ UNCHANGED <<up, fs, eng, archive, target, excused, cut, steps>>

-----------------------------------------------------------------------------
(* Creating and dropping structures *)
Concerned(F) == {r \in Records : target[r].file \in F}
Opened(F) == {p \in F : \E h \in HandleIds :
                          h[2] = p /\ eng.handle[h].inode # 0}
FilesUnder(dir) == {p \in Files : Below(p, dir)}

Request(what, path, name, route) ==
  [what |-> what, path |-> path, name |-> name, route |-> route]
NoRoute == <<>>

\* A schema needs its database and a drawer its schema; the answer is given
\* before anything is created, and not looked at again.
CreateRequests ==
  {Request("database", d, <<d>>, NoRoute) : d \in Databases}
    \cup {Request("schema", SchemaPath(d, s), <<d, s>>, NoRoute) :
            d \in {e \in Databases : ContainsDatabase(registry, e)},
            s \in Schemas}
    \cup {Request("drawer", DrawerPath(n), n, NoRoute) :
            n \in {m \in Names : ContainsSchema(registry, m[1], m[2])}}
    \cup {Request("route", l, <<>>,
                  [tenant |-> t, database |-> d, location |-> l]) :
            t \in Tenants, d \in Databases, l \in Locations}

BeginStructural(t, phase, requests) ==
  /\ up /\ pc[t] = Idle
  /\ steps < MaxDdl
  /\ \E q \in {r \in requests : r.what \in Ddl} :
       pc' = [pc EXCEPT ![t] = [phase |-> phase, q |-> q]]
  /\ steps' = steps + 1
  /\ UNCHANGED <<up, registry, catalogFile, fs, eng, archive, acked, target,
                 excused, cut>>

BeginCreate(t) == BeginStructural(t, "create", CreateRequests)

\* create_dir_all, and for a drawer a look whether its files exist.
CreateStorage(t) ==
  /\ up /\ pc[t].phase = "create"
  /\ LET q == pc[t].q
     IN IF q.what = "drawer"
        THEN /\ fs' = EnsureDir(fs, Up(q.path))
             /\ pc' = [pc EXCEPT ![t] =
                         [phase |-> "files", q |-> q,
                          missing |-> fs.file[q.path] = 0]]
        ELSE /\ fs' = EnsureDir(fs, q.path)
             /\ pc' = [pc EXCEPT ![t] = [phase |-> "register", q |-> q]]
  /\ UNCHANGED <<up, registry, catalogFile, eng, archive, acked, target,
                 excused, cut, steps>>

\* File::create empties a file that has come into being since.
CreateFiles(t) ==
  /\ up /\ pc[t].phase = "files"
  /\ CanAllocate(fs, eng, 1)
  /\ LET q == pc[t].q
         f == OpenOrCreate(fs, eng, q.path)
     IN IF pc[t].missing /\ Up(q.path) \notin fs.dirs
        THEN /\ pc' = [pc EXCEPT ![t] = Idle]
             /\ UNCHANGED <<fs, excused, cut>>
        ELSE /\ pc' = [pc EXCEPT ![t] = [phase |-> "register", q |-> q]]
             /\ fs' = IF pc[t].missing
                      THEN [f EXCEPT !.content[f.file[q.path]] = {}] ELSE fs
             /\ LET emptied == IF pc[t].missing /\ fs.file[q.path] # 0
                               THEN {q.path} ELSE {}
                IN /\ excused' = excused \cup Concerned(emptied)
                   /\ cut' = cut \cup Opened(emptied)
  /\ UNCHANGED <<up, registry, catalogFile, eng, archive, acked, target,
                 steps>>

Registered(reg, q) ==
  CASE q.what = "database" -> RegisterDatabase(reg, q.path)
    [] q.what = "schema" -> RegisterSchema(reg, q.name[1], q.name[2])
    [] q.what = "drawer" -> RegisterDrawer(reg, q.name)
    [] q.what = "route" -> RegisterTenantRoute(reg, q.route)

Register(t) ==
  /\ up /\ pc[t].phase = "register"
  /\ PersistToRoot(Registered(registry, pc[t].q))
  /\ pc' = [pc EXCEPT ![t] = Idle]
  /\ UNCHANGED <<up, fs, eng, archive, acked, target, excused, cut, steps>>

\* A drop asks for nothing to exist.  The storage goes first.
DropRequests ==
  {Request("database", d, <<d>>, NoRoute) : d \in Databases}
    \cup {Request("schema", SchemaPath(d, s), <<d, s>>, NoRoute) :
            d \in Databases, s \in Schemas}
    \cup {Request("drawer", DrawerPath(n), n, NoRoute) : n \in Names}

BeginDrop(t) == BeginStructural(t, "drop", DropRequests)

RemovedFiles(q) ==
  IF q.what = "drawer" THEN DrawerFiles(q.path) \cap Files
  ELSE FilesUnder(q.path)

RemoveStorage(t) ==
  /\ up /\ pc[t].phase = "drop"
  /\ LET q == pc[t].q
         F == RemovedFiles(q)
     IN /\ fs' = IF q.what = "drawer" THEN RemoveFiles(fs, F)
                 ELSE RemoveTree(fs, q.path)
        /\ excused' = excused \cup Concerned(F)
        /\ cut' = cut \cup Opened(F)
  /\ pc' = [pc EXCEPT ![t] = [@ EXCEPT !.phase = "unregister"]]
  /\ UNCHANGED <<up, registry, catalogFile, eng, archive, acked, target,
                 steps>>

Unregistered(reg, q) ==
  CASE q.what = "database" -> UnregisterDatabase(reg, q.path)
    [] q.what = "schema" -> UnregisterSchema(reg, q.name[1], q.name[2])
    [] q.what = "drawer" -> UnregisterDrawer(reg, q.name)

\* Routes a database loses make its tenants' records unreachable too.
Unregister(t) ==
  /\ up /\ pc[t].phase = "unregister"
  /\ LET q == pc[t].q
         gone(n) == n # <<>> /\ \A i \in DOMAIN q.name : n[i] = q.name[i]
     IN /\ PersistToRoot(Unregistered(registry, q))
        /\ excused' = excused \cup {r \in Records : gone(target[r].name)}
  /\ pc' = [pc EXCEPT ![t] = Idle]
  /\ UNCHANGED <<up, fs, eng, archive, acked, target, cut, steps>>

-----------------------------------------------------------------------------
(* Backup and restore *)
\* A path of one, two or three segments is a database, a schema or a drawer.
BackupScope(path) == Len(path)
Segments ==
  {p \in Dirs : Len(p) \in 1 .. 2 /\ <<p[1]>> \in Databases}
    \cup {p \in Files : Len(p) = 3 /\ <<p[1]>> \in Databases}

\* A drawer's archive has that drawer alone; the others everything below the
\* directory, its logs as they are.
BackupFiles(path) ==
  LET linked == {p \in Files \cup Logs : fs.file[p] # 0}
  IN IF BackupScope(path) = 3 THEN linked \cap {path} \cap Files
     ELSE {p \in linked : Below(p, path)}

BeginBackup(t) ==
  /\ up /\ pc[t] = Idle
  /\ "restore" \in Ddl /\ steps < MaxDdl
  /\ \E path \in Segments :
       LET F == BackupFiles(path)
       IN /\ F # {}
          /\ pc' = [pc EXCEPT ![t] = [phase |-> "backup", path |-> path,
                                      todo |-> F, got |-> {}]]
  /\ steps' = steps + 1
  /\ UNCHANGED <<up, registry, catalogFile, fs, eng, archive, acked, target,
                 excused, cut>>

\* One drawer after the other, by its path and while others write: a drawer
\* gone by then is archived empty, a log gone by then fails the backup.
BackupFile(t) ==
  /\ up /\ pc[t].phase = "backup"
  /\ \E p \in pc[t].todo :
       LET recs == IF fs.file[p] = 0 THEN {} ELSE fs.content[fs.file[p]]
           got == pc[t].got
                    \cup {[rel |-> Relative(pc[t].path, p), recs |-> recs]}
       IN IF p \in Logs /\ fs.file[p] = 0
          THEN /\ pc' = [pc EXCEPT ![t] = Idle]
               /\ UNCHANGED archive
          ELSE IF pc[t].todo = {p}
               THEN /\ pc' = [pc EXCEPT ![t] = Idle]
                    /\ archive' = [scope |-> BackupScope(pc[t].path),
                                   files |-> got]
               ELSE /\ pc' = [pc EXCEPT ![t].todo = @ \ {p},
                                        ![t].got = got]
                    /\ UNCHANGED archive
  /\ UNCHANGED <<up, registry, catalogFile, fs, eng, acked, target, excused,
                 cut, steps>>

\* The archive's scope must be the destination's.
Restorable(path) ==
  /\ archive.scope = BackupScope(path)
  /\ \A x \in archive.files : path \o x.rel \in Files \cup Logs

BeginRestore(t) ==
  /\ up /\ pc[t] = Idle
  /\ "restore" \in Ddl /\ steps < MaxDdl
  /\ \E path \in Segments :
       /\ Restorable(path)
       /\ pc' = [pc EXCEPT ![t] = [phase |-> "clear", path |-> path,
                                    files |-> archive.files]]
  /\ steps' = steps + 1
  /\ UNCHANGED <<up, registry, catalogFile, fs, eng, archive, acked, target,
                 excused, cut>>

ClearedFiles(path) ==
  IF BackupScope(path) = 3 THEN {path} ELSE FilesUnder(path)

ClearRestoreTarget(t) ==
  /\ up /\ pc[t].phase = "clear"
  /\ LET path == pc[t].path
         F == ClearedFiles(path)
     IN /\ fs' = IF BackupScope(path) = 3 THEN RemoveFiles(fs, F)
                 ELSE RemoveTree(fs, path)
        /\ excused' = excused \cup Concerned(F)
        /\ cut' = cut \cup Opened(F)
  /\ pc' = [pc EXCEPT ![t] = [@ EXCEPT !.phase = "write"]]
  /\ UNCHANGED <<up, registry, catalogFile, eng, archive, acked, target,
                 steps>>

\* fs::write over whatever is at each path, no handle told.
WriteRestored(t) ==
  /\ up /\ pc[t].phase = "write"
  /\ CanAllocate(fs, eng, Cardinality(pc[t].files))
  /\ LET path == pc[t].path
         Put[X \in SUBSET pc[t].files] ==
           IF X = {} THEN fs
           ELSE LET x == CHOOSE y \in X : TRUE
                    p == path \o x.rel
                    f == OpenOrCreate(EnsureDir(Put[X \ {x}], Up(p)), eng, p)
                IN [f EXCEPT !.content[f.file[p]] = x.recs]
         F == {path \o x.rel : x \in pc[t].files} \cap Files
     IN /\ fs' = Put[pc[t].files]
        /\ excused' = excused \cup Concerned(F)
        /\ cut' = cut \cup Opened(F)
  /\ pc' = [pc EXCEPT ![t] = [@ EXCEPT !.phase = "catalog"]]
  /\ UNCHANGED <<up, registry, catalogFile, eng, archive, acked, target,
                 steps>>

\* Every directory of a restored database becomes a schema, every drawer file
\* of a restored schema a drawer.
RestoredBays(path) == {Leaf(p) : p \in ChildDirectories(fs.dirs, path)}
RestoredDrawers(dir) == StemsIn(LinkedFiles(fs), dir)
RestoredCatalog(path) ==
  LET d == <<path[1]>>
      bays == IF Len(path) = 1 THEN RestoredBays(path) ELSE {path[2]}
      drawers(b) == IF Len(path) = 3 THEN {path[3]}
                    ELSE RestoredDrawers(Append(d, b))
  IN [registry EXCEPT
        !.databases = @ \cup {d},
        !.schemas = @ \cup {<<d, b>> : b \in bays},
        !.drawers = @ \cup UNION {{<<d, b, w>> : w \in drawers(b)} :
                                    b \in bays}]

RegisterRestored(t) ==
  /\ up /\ pc[t].phase = "catalog"
  /\ PersistToRoot(RestoredCatalog(pc[t].path))
  /\ pc' = [pc EXCEPT ![t] = Idle]
  /\ UNCHANGED <<up, fs, eng, archive, acked, target, excused, cut, steps>>

-----------------------------------------------------------------------------
(* The process *)
NoEngine ==
  [journal |-> [d \in Cores |-> 0], open |-> {<<>>},
   handle |-> [h \in HandleIds |-> Closed]]

Persisting(t) ==
  pc[t].phase \in {"register", "unregister", "catalog"}
    \/ (pc[t].phase = "ack" /\ pc[t].to.implicit)

\* A stop forgets memory; one inside fs::write leaves a catalog nobody reads.
Stop ==
  /\ up /\ steps < MaxDdl + MaxStops
  /\ up' = FALSE
  /\ steps' = steps + 1
  /\ \/ UNCHANGED catalogFile
     \/ /\ \E t \in Threads : Persisting(t)
        /\ catalogFile' = [catalogFile EXCEPT !.whole = FALSE]
  /\ pc' = [t \in Threads |-> Idle]
  /\ eng' = NoEngine
  /\ cut' = {}
  /\ UNCHANGED <<registry, fs, archive, acked, target, excused>>

\* Opening loads the catalog, then recovers the root's database; either may
\* refuse.
OpenEngine ==
  /\ ~up /\ catalogFile.whole
  /\ CanAllocate(fs, NoEngine, Cardinality(ReplayedPaths(fs, <<>>)))
  /\ LET s == OpenDatabase(State(fs, NoEngine), <<>>)
     IN /\ fs' = s.fs
        /\ up' = s.ok
        /\ eng' = IF s.ok THEN s.eng ELSE eng
  /\ registry' = catalogFile.reg
  /\ UNCHANGED <<catalogFile, pc, archive, acked, target, excused, cut, steps>>

StartDirs(reg) ==
  {<<>>} \cup (UNION {DirsOf(SchemaPath(p[1], p[2])) : p \in reg.schemas})
    \cup (UNION {DirsOf(r.location) : r \in reg.routes})

Init ==
  /\ up = TRUE
  /\ registry \in StartCatalogs
  /\ catalogFile = [whole |-> TRUE, reg |-> registry]
  /\ fs = [dirs |-> StartDirs(registry), file |-> [p \in Files \cup Logs |-> 0],
           content |-> [i \in Inodes |-> {}]]
  /\ eng = NoEngine
  /\ pc = [t \in Threads |-> Idle]
  /\ archive = [scope |-> 0, files |-> {}]
  /\ acked = {} /\ excused = {} /\ cut = {}
  /\ target = [r \in Records |-> NoTarget]
  /\ steps = 0

Next ==
  \/ \E t \in Threads :
       \/ BeginWrite(t) \/ RunWrite(t) \/ AckWrite(t)
       \/ BeginCreate(t) \/ CreateStorage(t) \/ CreateFiles(t) \/ Register(t)
       \/ BeginDrop(t) \/ RemoveStorage(t) \/ Unregister(t)
       \/ BeginBackup(t) \/ BackupFile(t)
       \/ BeginRestore(t) \/ ClearRestoreTarget(t) \/ WriteRestored(t)
       \/ RegisterRestored(t)
  \/ Stop
  \/ OpenEngine

Spec == Init /\ [][Next]_vars

-----------------------------------------------------------------------------
(* Properties *)

\* The catalog and the disk stay within their domains, a journal and a handle
\* hold an inode of their own file's making, and no two paths share an inode.
TypeOK ==
  /\ up \in BOOLEAN
  /\ registry \in Registries /\ catalogFile.reg \in Registries
  /\ fs.dirs \subseteq Dirs
  /\ \A p \in Files \cup Logs :
       fs.file[p] # 0 => /\ fs.file[p] \in Inodes
                         /\ Up(p) \in fs.dirs
                         /\ fs.content[fs.file[p]] \subseteq Records
  /\ \A p, q \in Files \cup Logs :
       p # q /\ fs.file[p] # 0 => fs.file[p] # fs.file[q]
  /\ \A h \in HandleIds :
       eng.handle[h].view # {} => eng.handle[h].inode \in Inodes
  /\ acked \cup excused \subseteq Records /\ cut \subseteq Files

OnDisk(r) ==
  LET i == fs.file[target[r].file] IN i # 0 /\ r \in fs.content[i]

\* A record whose command succeeded, and which no drop, restore or
\* re-creation concerned, is in its linked file at any moment of any thread's
\* drop, restore or stop (lifecycle.rs, backup.rs), and the catalog that the
\* next opening will read names its drawer.
AckedSurvive ==
  \A r \in acked \ excused :
    /\ OnDisk(r)
    /\ target[r].name # <<>> /\ catalogFile.whole
         => target[r].name \in catalogFile.reg.drawers

\* Such a record's drawer is listed (discovery.rs): by the catalog when it was
\* written under a catalogued name, else, while the catalog is empty, by the
\* walk of the directories; and its file is among the engine's drawer names.
AckedListed ==
  up => \A r \in acked \ excused :
    LET n == target[r].name
        F == LinkedFiles(fs)
    IN /\ target[r].file \in ListDrawerNames(F)
       /\ n # <<>> =>
            /\ n[1] \in ShowDatabases(registry, fs.dirs, F)
            /\ n[2] \in ShowSchemas(registry, fs.dirs, F, n[1])
            /\ n[3] \in ShowDrawers(registry, F, n[1], n[2])
            /\ ShowTenants(registry, fs.dirs, F) # {}
       /\ IsEmpty(registry) =>
            \E d \in ShowDatabases(registry, fs.dirs, F) :
              Below(target[r].file, d)

\* What a doc says of recovery ("automatic", API.md:854): a storage root whose
\* catalog is whole can be opened again.
AlwaysReopens ==
  catalogFile.whole => OpenDatabase(State(fs, NoEngine), <<>>).ok
=============================================================================
