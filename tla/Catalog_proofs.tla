-------------------------- MODULE Catalog_proofs --------------------------
(***************************************************************************)
(* Proofs about Catalog: its types, that an acknowledged record stays on   *)
(* the disk and in the catalog through creates, drops, backups, restores,  *)
(* stops and recoveries, and that its drawer is listed.                    *)
(***************************************************************************)
EXTENDS Catalog, FiniteSetTheorems, WellFoundedInduction, TLAPS

-----------------------------------------------------------------------------
(* Files and engine.                                                       *)

Given == UNION {{p[i] : i \in DOMAIN p} : p \in Databases \cup Locations}
Segment == Given \cup Schemas \cup Drawers \cup {Wal}
Paths == Files \cup Logs

FileSystem ==
  [dirs : SUBSET Dirs, file : [Paths -> Inodes \cup {0}],
   content : [Inodes -> SUBSET Records]]
Engine ==
  [journal : [Cores -> Inodes \cup {0}], open : SUBSET Cores,
   handle : [HandleIds -> [inode : Inodes \cup {0}, view : SUBSET Records]]]

(* Inode i is linked at path p, or somebody opened it there.                *)
UsedFor(f, e, i, p) ==
  \/ f.file[p] = i
  \/ \E h \in HandleIds : h[2] = p /\ e.handle[h].inode = i
  \/ \E d \in Cores : LogOf(d) = p /\ e.journal[d] = i
OneUse(f, e) ==
  \A i \in Inodes : \A p, q \in Paths :
    UsedFor(f, e, i, p) /\ UsedFor(f, e, i, q) => p = q

(* A linked file's directory is there, with the directories above it.      *)
InPlace(f) ==
  /\ \A p \in Paths : f.file[p] # 0 => Up(p) \in f.dirs
  /\ \A d \in f.dirs : DirsOf(d) \subseteq f.dirs

(* A handle is on the file that is linked, unless that was unlinked.        *)
Handled(f, e) ==
  /\ \A h \in HandleIds :
       e.handle[h].inode # 0 /\ h[2] \notin cut => f.file[h[2]] = e.handle[h].inode
  /\ \A h \in HandleIds : e.handle[h].inode = 0 => e.handle[h].view = {}

(* The log of the root has operations on the root's drawers, any other log  *)
(* operations on drawers of its own directory or of the one it is a copy    *)
(* of.                                                                     *)
Portable(r) ==
  /\ target[r] # NoTarget
  /\ \E w \in Drawers : Relative(target[r].core, target[r].file) = <<w>>
Loggable(d, r) ==
  IF d = <<>> THEN target[r] # NoTarget /\ target[r].core = <<>> ELSE Portable(r)
Logged(f) == \A d \in Cores : \A r \in LogRecords(f, d) : Loggable(d, r)

Sound(f, e) ==
  /\ f \in FileSystem /\ e \in Engine
  /\ OneUse(f, e) /\ InPlace(f) /\ Handled(f, e) /\ Logged(f)

-----------------------------------------------------------------------------
(* Threads, archives and records.                                          *)

Routes == [tenant : Tenants, database : Databases, location : Locations]
Destined(d) ==
  /\ d.core \in Cores /\ d.file \in Files
  /\ IF d.core = <<>> THEN TRUE ELSE \E w \in Drawers : d.file = Append(d.core, w)
  /\ d.name \in Names \cup {<<>>}
Target(d) == [file |-> d.file, name |-> d.name, core |-> d.core]
TargetInv ==
  /\ DOMAIN target = Records
  /\ \A r \in Records : target[r] # NoTarget =>
       Destined(target[r]) /\ target[r] = Target(target[r])

Requested(q) ==
  \/ q.what = "database" /\ q.path \in Databases /\ q.name = <<q.path>>
  \/ q.what = "schema" /\ \E d \in Databases, s \in Schemas :
       q.path = SchemaPath(d, s) /\ q.name = <<d, s>>
  \/ q.what = "drawer" /\ q.name \in Names /\ q.path = DrawerPath(q.name)
  \/ q.what = "route" /\ q.path \in Locations /\ q.route \in Routes

\* What a backup or a restore may be of.
Structural(path) ==
  /\ Len(path) \in 1 .. 3 /\ <<path[1]>> \in Databases
  /\ IF Len(path) = 3 THEN path \in Files ELSE path \in Dirs

\* A log in an archive has operations any directory can replay.
IsLog(rel) == rel # <<>> /\ Leaf(rel) = Wal
Archived(scope, X) ==
  /\ IsFiniteSet(X)
  /\ \A x \in X :
       /\ x.rel \in Seq(Segment) /\ x.recs \subseteq Records
       /\ x.rel = <<>> => scope = 3
       /\ IsLog(x.rel) => \A r \in x.recs : Portable(r)
Restored(path, X) ==
  /\ IsFiniteSet(X)
  /\ \A x \in X :
       /\ path \o x.rel \in Paths /\ x.recs \subseteq Records
       /\ path \o x.rel \in Logs =>
            Up(path \o x.rel) # <<>> /\ \A r \in x.recs : Portable(r)

Busy(t) == pc[t].phase # "idle"
ThreadInv(t) ==
  \/ pc[t] = Idle
  \/ /\ pc[t].phase \in {"run", "ack"}
     /\ pc[t] = [phase |-> pc[t].phase, rec |-> pc[t].rec, to |-> pc[t].to]
     /\ pc[t].rec \in Records /\ Destined(pc[t].to)
     /\ target[pc[t].rec] = Target(pc[t].to)
     /\ pc[t].to.implicit => pc[t].to.name # <<>>
     /\ pc[t].to.implicit \in BOOLEAN
  \/ /\ pc[t].phase \in {"create", "register"}
     /\ pc[t] = [phase |-> pc[t].phase, q |-> pc[t].q]
     /\ Requested(pc[t].q)
  \/ /\ pc[t].phase = "files"
     /\ pc[t] = [phase |-> "files", q |-> pc[t].q, missing |-> pc[t].missing]
     /\ Requested(pc[t].q) /\ pc[t].q.what = "drawer"
     /\ pc[t].missing \in BOOLEAN
  \/ /\ pc[t].phase \in {"drop", "unregister"}
     /\ pc[t] = [phase |-> pc[t].phase, q |-> pc[t].q]
     /\ Requested(pc[t].q) /\ pc[t].q.what # "route"
  \/ /\ pc[t].phase = "backup"
     /\ pc[t] = [phase |-> "backup", path |-> pc[t].path, todo |-> pc[t].todo, got |-> pc[t].got]
     /\ Structural(pc[t].path)
     /\ \A p \in pc[t].todo :
          /\ p \in Paths
          /\ IF Len(pc[t].path) = 3 THEN p = pc[t].path /\ p \in Files
             ELSE Below(p, pc[t].path)
     /\ Archived(Len(pc[t].path), pc[t].got)
  \/ /\ pc[t].phase \in {"clear", "write", "catalog"}
     /\ pc[t] = [phase |-> pc[t].phase, path |-> pc[t].path, files |-> pc[t].files]
     /\ Structural(pc[t].path)
     /\ Restored(pc[t].path, pc[t].files)

TypeInv ==
  /\ up \in BOOLEAN /\ (~up => eng = NoEngine)
  /\ registry \in Registries
  /\ catalogFile = [whole |-> catalogFile.whole, reg |-> registry]
  /\ catalogFile.whole \in BOOLEAN /\ (up => catalogFile.whole)
  /\ DOMAIN pc = Threads /\ \A t \in Threads : ThreadInv(t)
  /\ archive = [scope |-> archive.scope, files |-> archive.files]
  /\ Archived(archive.scope, archive.files)
  /\ acked \subseteq Records /\ excused \subseteq Records /\ cut \subseteq Files
  /\ TargetInv

(* Records that are to last: acknowledged ones and those about to be.       *)
Answered(r) ==
  \/ r \in acked
  \/ \E t \in Threads : pc[t].phase = "ack" /\ pc[t].rec = r
SavedInv ==
  \A r \in Records \ excused : Answered(r) =>
    /\ target[r] # NoTarget
    /\ fs.file[target[r].file] # 0
    /\ r \in fs.content[fs.file[target[r].file]]

(* Their drawers are in the catalog, but for one that is registered last.   *)
Catalogued(r) ==
  \/ r \in acked
  \/ \E t \in Threads : pc[t].phase \in {"run", "ack"} /\ pc[t].rec = r /\ ~pc[t].to.implicit
NamedInv ==
  \A r \in Records \ excused : Catalogued(r) /\ target[r].name # <<>> =>
    target[r].name \in registry.drawers

(* Where the walk of the directories looks: a record without a name in the  *)
(* catalog is in or below the directory of a database.                     *)
PlaceInv ==
  \A r \in Records : target[r] # NoTarget /\ target[r].name = <<>> =>
    \E d \in Databases :
      Up(target[r].file) = d \/ \E s \in Schemas : Up(target[r].file) = SchemaPath(d, s)

Inv ==
  /\ TypeInv /\ Sound(fs, eng) /\ SavedInv /\ NamedInv /\ PlaceInv

-----------------------------------------------------------------------------
(* Paths.                                                                  *)

LEMMA SequenceFacts ==
  ASSUME NEW S, NEW p \in Seq(S), NEW x \in S
  PROVE  /\ Append(p, x) \in Seq(S) /\ Len(Append(p, x)) = Len(p) + 1
         /\ Append(p, x)[Len(p) + 1] = x
         /\ Append(p, x) # <<>>
         /\ SubSeq(p, 1, Len(p)) = p
         /\ SubSeq(Append(p, x), 1, Len(p)) = p
         /\ Len(p) \in Nat /\ <<>> \in Seq(S) /\ Len(<<>>) = 0
<1>1. /\ Append(p, x) \in Seq(S) /\ Len(Append(p, x)) = Len(p) + 1 /\ Len(p) \in Nat
      /\ Append(p, x)[Len(p) + 1] = x /\ \A i \in 1 .. Len(p) : Append(p, x)[i] = p[i]
  OBVIOUS
<1>2. Append(p, x) # <<>>
  BY <1>1
<1>3. SubSeq(p, 1, Len(p)) = p
  OBVIOUS
<1>4. SubSeq(Append(p, x), 1, Len(p)) = p
  <2>1. SubSeq(Append(p, x), 1, Len(p)) = [i \in 1 .. Len(p) |-> Append(p, x)[i]]
    BY <1>1
  <2>2. p = [i \in 1 .. Len(p) |-> p[i]]
    OBVIOUS
  <2>3. QED
    BY <1>1, <2>1, <2>2
<1>5. QED
  BY <1>1, <1>2, <1>3, <1>4

LEMMA NamedPaths ==
  /\ \A p \in Databases \cup Locations : p \in Seq(Segment)
  /\ Schemas \subseteq Segment /\ Drawers \subseteq Segment /\ Wal \in Segment
<1>1. ASSUME NEW p \in Databases \cup Locations
      PROVE  p \in Seq(Segment)
  <2>1. p \in Seq({p[i] : i \in DOMAIN p})
    BY CatalogAssumption
  <2>2. {p[i] : i \in DOMAIN p} \subseteq Segment
    BY DEF Segment, Given
  <2>3. QED
    BY <2>1, <2>2
<1>2. Schemas \subseteq Segment /\ Drawers \subseteq Segment /\ Wal \in Segment
  BY DEF Segment
<1>3. QED
  BY <1>1, <1>2

LEMMA DataPaths ==
  /\ \A d \in Cores : d \in Seq(Segment)
  /\ DataDirs \subseteq Cores /\ <<>> \in Cores
  /\ Cores \subseteq Dirs /\ Locations \subseteq Dirs
<1>1. \A d \in Databases, s \in Schemas : SchemaPath(d, s) \in Seq(Segment)
  BY NamedPaths, SequenceFacts DEF SchemaPath
<1>2. \A d \in Locations, s \in Schemas : TenantSchemaPath(d, s) \in Seq(Segment)
  BY NamedPaths, SequenceFacts DEF TenantSchemaPath
<1>3. ASSUME NEW d \in Cores
      PROVE  d \in Seq(Segment)
  <2>1. CASE d = <<>>
    BY <2>1
  <2>2. CASE d \in Databases
    BY <2>2, NamedPaths
  <2>3. CASE d \in SchemaDirs
    BY <2>3, <1>1 DEF SchemaDirs
  <2>4. CASE d \in TenantDirs
    BY <2>4, <1>2 DEF TenantDirs
  <2>5. QED
    BY <2>1, <2>2, <2>3, <2>4 DEF Cores, DataDirs
<1>4. ASSUME NEW d \in Cores \cup Locations
      PROVE  d \in Dirs
  <2>1. d \in Seq(Segment) /\ d \in {<<>>} \cup Locations \cup DataDirs
    BY <1>3, NamedPaths DEF Cores
  <2>2. Len(d) \in 0 .. Len(d) /\ SubSeq(d, 1, Len(d)) = d
    BY <2>1
  <2>3. d \in DirsOf(d)
    BY <2>2 DEF DirsOf
  <2>4. QED
    BY <2>1, <2>3 DEF Dirs
<1>5. QED
  BY <1>3, <1>4 DEF Cores

(* A file has a directory and a name.                                      *)
LEMMA FileParts ==
  ASSUME NEW d \in Cores, NEW w \in Drawers \cup {Wal}
  PROVE  /\ Up(Append(d, w)) = d /\ Leaf(Append(d, w)) = w
         /\ Append(d, w) \in Seq(Segment) /\ Append(d, w) # <<>>
         /\ Len(Append(d, w)) = Len(d) + 1 /\ Len(d) \in Nat
<1>1. d \in Seq(Segment) /\ w \in Segment
  BY DataPaths, NamedPaths
<1>2. QED
  BY <1>1, SequenceFacts DEF Up, Leaf

LEMMA FilePaths ==
  /\ \A p \in Files : \E d \in DataDirs, w \in Drawers : p = Append(d, w)
  /\ \A p \in Files : Up(p) \in DataDirs /\ Leaf(p) \in Drawers
  /\ \A p \in Logs : Up(p) \in Cores /\ Leaf(p) = Wal /\ p = LogOf(Up(p))
  /\ \A d \in Cores : LogOf(d) \in Logs /\ Up(LogOf(d)) = d
  /\ \A p \in Paths : p \in Seq(Segment) /\ p # <<>> /\ Up(p) \in Cores
                      /\ Up(p) \in Seq(Segment) /\ Len(p) = Len(Up(p)) + 1
                      /\ Len(Up(p)) \in Nat
  /\ Files \cap Logs = {}
<1>1. ASSUME NEW p \in Files
      PROVE  /\ \E d \in DataDirs, w \in Drawers : p = Append(d, w)
             /\ Up(p) \in DataDirs /\ Leaf(p) \in Drawers
             /\ p \in Seq(Segment) /\ p # <<>> /\ Up(p) \in Cores
             /\ Len(p) = Len(Up(p)) + 1 /\ Len(Up(p)) \in Nat
  <2>1. PICK d \in DataDirs, w \in Drawers : p = Append(d, w)
    BY DEF Files
  <2>2. d \in Cores
    BY DEF Cores
  <2>3. QED
    BY <2>1, <2>2, FileParts
<1>2. ASSUME NEW d \in Cores
      PROVE  LogOf(d) \in Logs /\ Up(LogOf(d)) = d
  BY FileParts DEF Logs, LogOf, Cores
<1>3. ASSUME NEW p \in Logs
      PROVE  /\ Up(p) \in Cores /\ Leaf(p) = Wal /\ p = LogOf(Up(p))
             /\ p \in Seq(Segment) /\ p # <<>>
             /\ Len(p) = Len(Up(p)) + 1 /\ Len(Up(p)) \in Nat
  <2>1. PICK d \in Cores : p = LogOf(d)
    BY DEF Logs, Cores
  <2>2. QED
    BY <2>1, FileParts DEF LogOf
<1>4. Files \cap Logs = {}
  BY <1>1, <1>3, CatalogAssumption
<1>5. QED
  BY <1>1, <1>2, <1>3, <1>4, DataPaths DEF Paths

(* A directory and all above it are directories.                           *)
LEMMA DirsOfCores ==
  ASSUME NEW d \in Cores \cup Locations
  PROVE  DirsOf(d) \subseteq Dirs /\ d \in DirsOf(d)
<1>1. d \in Seq(Segment) /\ d \in {<<>>} \cup Locations \cup DataDirs
  BY DataPaths, NamedPaths DEF Cores
<1>2. Len(d) \in 0 .. Len(d) /\ SubSeq(d, 1, Len(d)) = d
  BY <1>1
<1>3. d \in DirsOf(d)
  BY <1>2 DEF DirsOf
<1>4. QED
  BY <1>1, <1>3 DEF Dirs

LEMMA DirPaths == Dirs \subseteq Seq(Segment)
<1>1. SUFFICES ASSUME NEW d \in {<<>>} \cup Locations \cup DataDirs, NEW i \in 0 .. Len(d)
               PROVE  SubSeq(d, 1, i) \in Seq(Segment)
  BY DEF Dirs, DirsOf
<1>2. d \in Seq(Segment)
  BY DataPaths, NamedPaths DEF Cores
<1>3. QED
  BY <1>2

(* What is above a directory that is above another is above that one too.  *)
LEMMA DirsNest ==
  ASSUME NEW d \in Seq(Segment), NEW p \in DirsOf(d)
  PROVE  /\ DirsOf(p) \subseteq DirsOf(d)
         /\ \A c \in Seq(Segment) : IsUnder(p, c) => IsUnder(d, c)
<1>1. PICK i \in 0 .. Len(d) : p = SubSeq(d, 1, i)
  BY DEF DirsOf
<1>2. p \in Seq(Segment) /\ Len(p) = i /\ Len(d) \in Nat
  BY <1>1
<1>3. ASSUME NEW j \in 0 .. i
      PROVE  SubSeq(p, 1, j) = SubSeq(d, 1, j)
  <2>1. /\ SubSeq(p, 1, j) = [k \in 1 .. j |-> p[k]]
        /\ SubSeq(d, 1, j) = [k \in 1 .. j |-> d[k]]
        /\ \A k \in 1 .. j : p[k] = d[k]
    BY <1>1, <1>2
  <2>2. QED
    BY <2>1
<1>4. DirsOf(p) \subseteq DirsOf(d)
  <2>1. ASSUME NEW j \in 0 .. Len(p)
        PROVE  SubSeq(p, 1, j) \in DirsOf(d)
    <3>1. j \in 0 .. Len(d) /\ SubSeq(p, 1, j) = SubSeq(d, 1, j)
      BY <1>2, <1>3
    <3>2. QED
      BY <3>1 DEF DirsOf
  <2>2. QED
    BY <2>1 DEF DirsOf
<1>5. ASSUME NEW c \in Seq(Segment), IsUnder(p, c)
      PROVE  IsUnder(d, c)
  <2>1. Len(c) \in 0 .. i /\ SubSeq(p, 1, Len(c)) = c
    BY <1>2, <1>5 DEF IsUnder
  <2>2. QED
    BY <1>2, <1>3, <2>1 DEF IsUnder
<1>6. QED
  BY <1>4, <1>5

(* Handles are on files below their databases.                             *)
LEMMA HandlePaths ==
  /\ \A h \in HandleIds : h[1] \in Cores /\ h[2] \in Files
  /\ \A d \in DataDirs, w \in Drawers :
       Append(d, w) \in Files /\ <<d, Append(d, w)>> \in HandleIds
  /\ \A p \in Files : <<<<>>, p>> \in HandleIds
<1>1. \A h \in HandleIds : h[1] \in Cores /\ h[2] \in Files
  BY DEF HandleIds
<1>2. ASSUME NEW d \in DataDirs, NEW w \in Drawers
      PROVE  Append(d, w) \in Files /\ <<d, Append(d, w)>> \in HandleIds
  <2>1. Append(d, w) \in Files /\ d \in Cores
    BY DEF Files, Cores
  <2>2. d \in Seq(Segment) /\ w \in Segment
    BY <2>1, DataPaths, NamedPaths
  <2>3. IsUnder(Append(d, w), d)
    BY <2>2, SequenceFacts DEF IsUnder
  <2>4. QED
    BY <2>1, <2>3 DEF HandleIds
<1>3. ASSUME NEW p \in Files
      PROVE  <<<<>>, p>> \in HandleIds
  <2>1. p \in Seq(Segment) /\ <<>> \in Cores
    BY FilePaths DEF Cores, Paths
  <2>2. Len(<<>>) <= Len(p) /\ SubSeq(p, 1, 0) = <<>>
    BY <2>1
  <2>3. IsUnder(p, <<>>)
    BY <2>2 DEF IsUnder
  <2>4. QED
    BY <2>1, <2>3 DEF HandleIds
<1>4. QED
  BY <1>1, <1>2, <1>3

-----------------------------------------------------------------------------
(* What a call does to disk and engine.                                    *)

(* g keeps what f has, outside the files F.                                *)
Keeps(f, g, F) ==
  \A p \in Files \ F : f.file[p] # 0 =>
    g.file[p] = f.file[p] /\ f.content[f.file[p]] \subseteq g.content[f.file[p]]

Room(f, e, n) == Cardinality(Inodes \ InUse(f, e)) >= n

(* The new state, made with at most n more inodes.                         *)
Uses(f, e, g, k, n) ==
  \E N \in SUBSET Inodes :
    /\ IsFiniteSet(N) /\ Cardinality(N) <= n
    /\ Inodes \cap InUse(g, k) \subseteq InUse(f, e) \cup N

LEMMA FewInodes ==
  ASSUME NEW f, NEW e, NEW g, NEW k, NEW n \in Nat, NEW m \in Nat,
         Room(f, e, n + m), Uses(f, e, g, k, n)
  PROVE  Room(g, k, m)
<1>1. PICK N \in SUBSET Inodes : IsFiniteSet(N) /\ Cardinality(N) <= n
                                 /\ Inodes \cap InUse(g, k) \subseteq InUse(f, e) \cup N
  BY DEF Uses
<1> DEFINE A == Inodes \ InUse(f, e)
           B == Inodes \ InUse(g, k)
<1>2. IsFiniteSet(A) /\ IsFiniteSet(B)
  BY CatalogAssumption, FS_Subset
<1>3. A \ N \subseteq B
  BY <1>1
<1>4. IsFiniteSet(A \ N) /\ Cardinality(A \ N) = Cardinality(A) - Cardinality(A \cap N)
  BY <1>2, FS_Difference
<1>5. Cardinality(A \cap N) <= Cardinality(N) /\ IsFiniteSet(A \cap N)
  BY <1>1, <1>2, FS_Intersection
<1>6. Cardinality(A \ N) <= Cardinality(B)
  BY <1>2, <1>3, FS_Subset
<1>7. /\ Cardinality(A) \in Nat /\ Cardinality(A \ N) \in Nat /\ Cardinality(A \cap N) \in Nat
      /\ Cardinality(N) \in Nat /\ Cardinality(B) \in Nat
  BY <1>1, <1>2, <1>4, <1>5, FS_CardinalityType
<1>8. Cardinality(A) >= n + m
  BY DEF Room
<1> HIDE DEF A, B
<1>9. Cardinality(B) >= m
  BY <1>1, <1>4, <1>5, <1>6, <1>7, <1>8
<1>10. QED
  BY <1>9 DEF Room, B

LEMMA UsesSame ==
  ASSUME NEW f, NEW e, NEW g, NEW k, NEW n \in Nat, Inodes \cap InUse(g, k) \subseteq InUse(f, e)
  PROVE  Uses(f, e, g, k, n)
<1>1. IsFiniteSet({}) /\ Cardinality({}) = 0 /\ {} \in SUBSET Inodes
  BY FS_EmptySet
<1>2. QED
  BY <1>1 DEF Uses

LEMMA UsesOne ==
  ASSUME NEW f, NEW e, NEW g, NEW k, NEW n \in Nat \ {0}, NEW i \in Inodes,
         Inodes \cap InUse(g, k) \subseteq InUse(f, e) \cup {i}
  PROVE  Uses(f, e, g, k, n)
<1>1. IsFiniteSet({i}) /\ Cardinality({i}) = 1 /\ {i} \in SUBSET Inodes
  BY FS_Singleton
<1>2. QED
  BY <1>1 DEF Uses

LEMMA UsesBoth ==
  ASSUME NEW f, NEW e, NEW g, NEW k, NEW h, NEW l, NEW n \in Nat, NEW m \in Nat,
         Uses(f, e, g, k, n), Uses(g, k, h, l, m)
  PROVE  Uses(f, e, h, l, n + m)
<1>1. PICK N \in SUBSET Inodes : IsFiniteSet(N) /\ Cardinality(N) <= n
                                 /\ Inodes \cap InUse(g, k) \subseteq InUse(f, e) \cup N
  BY DEF Uses
<1>2. PICK M \in SUBSET Inodes : IsFiniteSet(M) /\ Cardinality(M) <= m
                                 /\ Inodes \cap InUse(h, l) \subseteq InUse(g, k) \cup M
  BY DEF Uses
<1>3. /\ IsFiniteSet(N \cup M)
      /\ Cardinality(N \cup M) = Cardinality(N) + Cardinality(M) - Cardinality(N \cap M)
  BY <1>1, <1>2, FS_Union
<1>4. /\ Cardinality(N) \in Nat /\ Cardinality(M) \in Nat /\ Cardinality(N \cap M) \in Nat
  BY <1>1, <1>2, FS_CardinalityType, FS_Intersection
<1>5. Cardinality(N \cup M) <= n + m
  BY <1>1, <1>2, <1>3, <1>4
<1>6. Inodes \cap InUse(h, l) \subseteq InUse(f, e) \cup (N \cup M) /\ N \cup M \in SUBSET Inodes
  BY <1>1, <1>2
<1>7. QED
  BY <1>3, <1>5, <1>6 DEF Uses

LEMMA KeepsBoth ==
  ASSUME NEW f \in FileSystem, NEW g \in FileSystem, NEW h, NEW F, NEW G,
         Keeps(f, g, F), Keeps(g, h, G)
  PROVE  Keeps(f, h, F \cup G)
<1>1. \A p \in Files : f.file[p] \in Inodes \cup {0} /\ 0 \notin Inodes
  BY CatalogAssumption DEF FileSystem, Paths
<1>2. QED
  BY <1>1 DEF Keeps

LEMMA FreshIsFree ==
  ASSUME NEW f, NEW e, Room(f, e, 1)
  PROVE  FreshInode(f, e) \in Inodes \ InUse(f, e)
<1>1. IsFiniteSet(Inodes \ InUse(f, e))
  BY CatalogAssumption, FS_Subset
<1>2. Inodes \ InUse(f, e) # {}
  BY FS_EmptySet DEF Room
<1>3. QED
  BY <1>2 DEF FreshInode

LEMMA FileValues ==
  ASSUME NEW f \in FileSystem, NEW e \in Engine
  PROVE  /\ \A p \in Paths : f.file[p] \in Inodes \cup {0}
         /\ DOMAIN f.file = Paths /\ DOMAIN f.content = Inodes
         /\ \A i \in Inodes : f.content[i] \subseteq Records
         /\ f.dirs \subseteq Dirs
         /\ \A h \in HandleIds : /\ e.handle[h].inode \in Inodes \cup {0}
                                 /\ e.handle[h].view \subseteq Records
         /\ \A d \in Cores : e.journal[d] \in Inodes \cup {0}
         /\ e.open \subseteq Cores
BY DEF FileSystem, Engine

(* An inode that is not in use is used for no path.                        *)
LEMMA InUseIs ==
  ASSUME NEW f \in FileSystem, NEW e \in Engine, NEW i \in Inodes
  PROVE  i \in InUse(f, e) <=> \E p \in Paths : UsedFor(f, e, i, p)
<1>1. ASSUME i \in InUse(f, e)
      PROVE  \E p \in Paths : UsedFor(f, e, i, p)
  <2>1. CASE i \in {f.file[p] : p \in Files \cup Logs}
    BY <2>1 DEF UsedFor, Paths
  <2>2. CASE i \in {e.handle[h].inode : h \in HandleIds}
    BY <2>2, HandlePaths DEF UsedFor, Paths
  <2>3. CASE i \in {e.journal[d] : d \in Cores}
    BY <2>3, FilePaths DEF UsedFor, Paths
  <2>4. QED
    BY <1>1, <2>1, <2>2, <2>3 DEF InUse
<1>2. ASSUME NEW p \in Paths, UsedFor(f, e, i, p)
      PROVE  i \in InUse(f, e)
  BY <1>2 DEF UsedFor, InUse, Paths
<1>3. QED
  BY <1>1, <1>2

-----------------------------------------------------------------------------
(* The parts of a call.                                                    *)

(* All a call may do to a sound disk and engine.                           *)
Outcome(f, e, g, k, n) ==
  /\ Sound(g, k) /\ Keeps(f, g, {}) /\ Uses(f, e, g, k, n)

LEMMA OutcomeSame ==
  ASSUME NEW f, NEW e, Sound(f, e), NEW n \in Nat
  PROVE  Outcome(f, e, f, e, n)
<1>1. Uses(f, e, f, e, n)
  BY UsesSame
<1>2. QED
  BY <1>1 DEF Outcome, Keeps

LEMMA OutcomeBoth ==
  ASSUME NEW f, NEW e, NEW g, NEW k, NEW h, NEW l, NEW n \in Nat, NEW m \in Nat,
         Sound(f, e), Outcome(f, e, g, k, n), Outcome(g, k, h, l, m)
  PROVE  Outcome(f, e, h, l, n + m)
<1>1. Uses(f, e, h, l, n + m)
  BY UsesBoth DEF Outcome
<1>2. f \in FileSystem /\ g \in FileSystem /\ Keeps(f, g, {}) /\ Keeps(g, h, {})
  BY DEF Outcome, Sound
<1>3. Keeps(f, h, {} \cup {})
  BY <1>2, KeepsBoth
<1>4. {} \cup {} = {}
  OBVIOUS
<1>5. QED
  BY <1>1, <1>3, <1>4 DEF Outcome

LEMMA EnsureDirSound ==
  ASSUME NEW f, NEW e, Sound(f, e), NEW d \in Cores \cup Locations
  PROVE  /\ Outcome(f, e, EnsureDir(f, d), e, 0)
         /\ d \in EnsureDir(f, d).dirs
         /\ EnsureDir(f, d).file = f.file /\ EnsureDir(f, d).content = f.content
<1> DEFINE g == EnsureDir(f, d)
<1>1. f \in FileSystem /\ e \in Engine
  BY DEF Sound
<1>2. DirsOf(d) \subseteq Dirs /\ d \in DirsOf(d)
  BY DirsOfCores
<1>3. /\ g = [f EXCEPT !.dirs = f.dirs \cup DirsOf(d)]
      /\ g.file = f.file /\ g.content = f.content /\ g.dirs = f.dirs \cup DirsOf(d)
      /\ g \in FileSystem
  BY <1>1, <1>2 DEF EnsureDir, FileSystem
<1> HIDE DEF g
<1>4. OneUse(g, e) /\ InPlace(g) /\ Handled(g, e) /\ Logged(g)
  <2>1. OneUse(f, e) /\ InPlace(f) /\ Handled(f, e) /\ Logged(f)
    BY DEF Sound
  <2>2. OneUse(g, e) /\ Handled(g, e) /\ Logged(g)
    BY <1>3, <2>1 DEF OneUse, UsedFor, Handled, Logged, LogRecords
  <2>3. d \in Seq(Segment)
    BY DataPaths, NamedPaths
  <2>4. \A p \in g.dirs : DirsOf(p) \subseteq g.dirs
    BY <1>3, <2>1, <2>3, DirsNest DEF InPlace
  <2>5. InPlace(g)
    BY <1>3, <2>1, <2>4 DEF InPlace
  <2>6. QED
    BY <2>2, <2>5
<1>5. InUse(g, e) = InUse(f, e)
  BY <1>3 DEF InUse
<1>6. Keeps(f, g, {})
  BY <1>3 DEF Keeps
<1>7. QED
  BY <1>1, <1>2, <1>3, <1>4, <1>5, <1>6, UsesSame DEF Outcome, Sound, g

(* A new file is empty, and nobody has it open.                            *)
LEMMA CreateSound ==
  ASSUME NEW f, NEW e, Sound(f, e), NEW p \in Paths, Up(p) \in f.dirs, Room(f, e, 1)
  PROVE  LET g == OpenOrCreate(f, e, p)
         IN  /\ Outcome(f, e, g, e, 1)
             /\ g.file[p] \in Inodes /\ g.dirs = f.dirs
             /\ \A q \in Paths : q # p => g.file[q] = f.file[q]
             /\ f.file[p] # 0 => g = f
             /\ f.file[p] = 0 => g.content[g.file[p]] = {}
             /\ \A i \in Inodes : f.file[p] # 0 \/ i # g.file[p] => g.content[i] = f.content[i]
<1> DEFINE g == OpenOrCreate(f, e, p)
<1>1. f \in FileSystem /\ e \in Engine
  BY DEF Sound
<1>2. CASE f.file[p] # 0
  <2>1. g = f
    BY <1>2 DEF OpenOrCreate
  <2>2. f.file[p] \in Inodes
    BY <1>1, <1>2, FileValues
  <2>3. QED
    BY <1>2, <2>1, <2>2, OutcomeSame
<1>3. CASE f.file[p] = 0
  <2>1. PICK i : i = FreshInode(f, e)
    OBVIOUS
  <2>2. i \in Inodes /\ i \notin InUse(f, e) /\ i # 0
    BY <2>1, FreshIsFree, CatalogAssumption
  <2>3. g = [f EXCEPT !.file[p] = i, !.content[i] = {}]
    BY <1>3, <2>1 DEF OpenOrCreate
  <2>4. /\ g \in FileSystem /\ g.dirs = f.dirs
        /\ g.file = [f.file EXCEPT ![p] = i] /\ g.content = [f.content EXCEPT ![i] = {}]
    <3>1. /\ [f.file EXCEPT ![p] = i] \in [Paths -> Inodes \cup {0}]
          /\ [f.content EXCEPT ![i] = {}] \in [Inodes -> SUBSET Records]
      BY <1>1, <2>2 DEF FileSystem
    <3>2. g = [dirs |-> f.dirs, file |-> [f.file EXCEPT ![p] = i],
               content |-> [f.content EXCEPT ![i] = {}]]
      BY <1>1, <2>3 DEF FileSystem
    <3> HIDE DEF g
    <3>3. QED
      BY <1>1, <3>1, <3>2 DEF FileSystem
  <2>5. /\ g.file[p] = i /\ \A q \in Paths : q # p => g.file[q] = f.file[q]
        /\ g.content[i] = {} /\ \A j \in Inodes : j # i => g.content[j] = f.content[j]
    BY <1>1, <2>2, <2>4, FileValues
  <2> HIDE DEF g
  <2>6. \A q \in Paths : ~UsedFor(f, e, i, q)
    BY <1>1, <2>2, InUseIs
  <2>7. OneUse(g, e)
    <3>1. ASSUME NEW j \in Inodes, NEW q \in Paths, UsedFor(g, e, j, q)
          PROVE  IF j = i THEN q = p ELSE UsedFor(f, e, j, q)
      BY <2>5, <2>6, <3>1 DEF UsedFor
    <3>2. QED
      BY <3>1 DEF OneUse, Sound
  <2>8. InPlace(g)
    BY <2>4, <2>5 DEF InPlace, Sound
  <2>9. Handled(g, e)
    <3>1. ASSUME NEW h \in HandleIds, e.handle[h].inode # 0, h[2] \notin cut
          PROVE  g.file[h[2]] = e.handle[h].inode
      <4>1. f.file[h[2]] = e.handle[h].inode /\ h[2] \in Paths /\ h[2] \in Files
        BY <3>1, HandlePaths DEF Handled, Sound, Paths
      <4>2. h[2] # p
        BY <1>3, <3>1, <4>1
      <4>3. QED
        BY <2>5, <4>1, <4>2
    <3>2. QED
      BY <3>1 DEF Handled, Sound
  <2>10. Logged(g)
    <3>1. ASSUME NEW d \in Cores
          PROVE  LogRecords(g, d) \subseteq LogRecords(f, d)
      <4>1. LogOf(d) \in Paths
        BY FilePaths DEF Paths
      <4>2. CASE LogOf(d) = p
        BY <2>2, <2>5, <4>2 DEF LogRecords
      <4>3. CASE LogOf(d) # p
        <5>1. g.file[LogOf(d)] = f.file[LogOf(d)]
          BY <2>5, <4>1, <4>3
        <5>2. CASE f.file[LogOf(d)] # 0
          <6>1. f.file[LogOf(d)] \in Inodes /\ f.file[LogOf(d)] # i
            BY <1>1, <2>6, <4>1, <5>2, FileValues DEF UsedFor
          <6>2. QED
            BY <2>5, <5>1, <6>1 DEF LogRecords
        <5>3. QED
          BY <5>1, <5>2 DEF LogRecords
      <4>4. QED
        BY <4>2, <4>3
    <3>2. QED
      BY <3>1 DEF Logged, Sound
  <2>11. Keeps(f, g, {})
    <3>1. ASSUME NEW q \in Files, f.file[q] # 0
          PROVE  g.file[q] = f.file[q] /\ f.content[f.file[q]] \subseteq g.content[f.file[q]]
      <4>1. q \in Paths /\ q # p /\ f.file[q] \in Inodes
        BY <1>1, <1>3, <3>1, FileValues DEF Paths
      <4>2. f.file[q] # i
        BY <2>6, <4>1 DEF UsedFor
      <4>3. QED
        BY <2>5, <4>1, <4>2
    <3>2. QED
      BY <3>1 DEF Keeps
  <2>12. InUse(g, e) \subseteq InUse(f, e) \cup {i}
    BY <2>5 DEF InUse, Paths
  <2>13. Uses(f, e, g, e, 1)
    BY <2>2, <2>12, UsesOne
  <2>14. QED
    BY <1>1, <1>3, <2>2, <2>4, <2>5, <2>7, <2>8, <2>9, <2>10, <2>11, <2>13 DEF Outcome, Sound, g
<1>4. QED
  BY <1>2, <1>3

LEMMA CloseSound ==
  ASSUME NEW f, NEW e, Sound(f, e), NEW k \in Engine, k.journal = e.journal,
         \A h \in HandleIds : k.handle[h] = e.handle[h] \/ k.handle[h] = Closed
  PROVE  Outcome(f, e, f, k, 0)
<1>1. f \in FileSystem /\ e \in Engine /\ 0 \notin Inodes
  BY CatalogAssumption DEF Sound
<1>2. \A h \in HandleIds : k.handle[h].inode # 0 => k.handle[h] = e.handle[h]
  BY DEF Closed
<1>3. ASSUME NEW i \in Inodes, NEW p \in Paths, UsedFor(f, k, i, p)
      PROVE  UsedFor(f, e, i, p)
  BY <1>1, <1>2, <1>3 DEF UsedFor
<1>4. OneUse(f, k)
  BY <1>3 DEF OneUse, Sound
<1>5. Handled(f, k)
  <2>1. \A h \in HandleIds : k.handle[h].inode = 0 => k.handle[h].view = {}
    BY DEF Handled, Sound, Closed
  <2>2. QED
    BY <1>2, <2>1 DEF Handled, Sound
<1>6. InUse(f, k) \subseteq InUse(f, e) \cup {0}
  BY DEF InUse, Closed
<1>7. Inodes \cap InUse(f, k) \subseteq InUse(f, e)
  BY <1>1, <1>6
<1>8. QED
  BY <1>1, <1>4, <1>5, <1>7, UsesSame DEF Outcome, Sound, Keeps

(* A handle that has just been opened, and a file with something else in   *)
(* it.                                                                     *)
OnFile(f, e, h) ==
  [e EXCEPT !.handle[h] = [inode |-> f.file[h[2]], view |-> f.content[f.file[h[2]]]]]
Filled(f, i, c) == [f EXCEPT !.content[i] = c]

LEMMA OpenHandleSound ==
  ASSUME NEW f, NEW e, Sound(f, e), NEW h \in HandleIds, f.file[h[2]] # 0,
         e.handle[h].inode = 0,
         NEW k, k = OnFile(f, e, h)
  PROVE  /\ Outcome(f, e, f, k, 0) /\ k.handle[h].inode # 0
         /\ k.journal = e.journal /\ k.open = e.open
<1>1. f \in FileSystem /\ e \in Engine /\ h[2] \in Files /\ h[2] \in Paths
  BY HandlePaths DEF Sound, Paths
<1>2. PICK i : i = f.file[h[2]]
  OBVIOUS
<1>3. i \in Inodes /\ f.content[i] \subseteq Records
  BY <1>1, <1>2, FileValues
<1>4. /\ k.journal = e.journal /\ k.open = e.open
      /\ k.handle = [e.handle EXCEPT ![h] = [inode |-> i, view |-> f.content[i]]]
      /\ k = [journal |-> k.journal, open |-> k.open, handle |-> k.handle]
  BY <1>1, <1>2 DEF Engine, OnFile
<1>5. /\ k.handle[h] = [inode |-> i, view |-> f.content[i]]
      /\ \A j \in HandleIds : j # h => k.handle[j] = e.handle[j]
      /\ k.handle \in [HandleIds -> [inode : Inodes \cup {0}, view : SUBSET Records]]
  BY <1>1, <1>3, <1>4 DEF Engine
<1>6. k \in Engine
  BY <1>1, <1>4, <1>5 DEF Engine
<1>7. k.handle[h].inode = i /\ i # 0
  BY <1>2, <1>5
<1>8. ASSUME NEW j \in Inodes, NEW p \in Paths, UsedFor(f, k, j, p)
      PROVE  UsedFor(f, e, j, p)
  BY <1>1, <1>2, <1>4, <1>5, <1>7, <1>8 DEF UsedFor
<1>9. OneUse(f, k)
  BY <1>8 DEF OneUse, Sound
<1>10. Handled(f, k)
  BY <1>2, <1>5, <1>7 DEF Handled, Sound
<1>11. Inodes \cap InUse(f, k) \subseteq InUse(f, e)
  BY <1>1, <1>6, <1>8, InUseIs
<1>12. QED
  BY <1>1, <1>4, <1>6, <1>7, <1>9, <1>10, <1>11, UsesSame DEF Outcome, Sound, Keeps

(* What an inode holds may change.                                         *)
LEMMA FilledSound ==
  ASSUME NEW f, NEW e, Sound(f, e), NEW i \in Inodes, NEW c \in SUBSET Records,
         \A d \in Cores : f.file[LogOf(d)] = i => \A r \in c : Loggable(d, r),
         NEW g, g = Filled(f, i, c)
  PROVE  /\ Sound(g, e) /\ Uses(f, e, g, e, 0)
         /\ g.file = f.file /\ g.dirs = f.dirs
         /\ g.content[i] = c /\ \A j \in Inodes : j # i => g.content[j] = f.content[j]
<1>1. f \in FileSystem /\ e \in Engine
  BY DEF Sound
<1>2. /\ g.file = f.file /\ g.dirs = f.dirs /\ g.content = [f.content EXCEPT ![i] = c]
      /\ g = [dirs |-> g.dirs, file |-> g.file, content |-> g.content]
  BY <1>1 DEF FileSystem, Filled
<1>3. /\ g.content[i] = c /\ \A j \in Inodes : j # i => g.content[j] = f.content[j]
      /\ g.content \in [Inodes -> SUBSET Records]
  BY <1>1, <1>2 DEF FileSystem
<1>4. g \in FileSystem
  BY <1>1, <1>2, <1>3 DEF FileSystem
<1>5. OneUse(g, e) /\ InPlace(g) /\ Handled(g, e)
  BY <1>2 DEF OneUse, UsedFor, InPlace, Handled, Sound
<1>6. Logged(g)
  <2>1. ASSUME NEW d \in Cores, NEW r \in LogRecords(g, d)
        PROVE  Loggable(d, r)
    <3>1. f.file[LogOf(d)] \in Inodes /\ r \in g.content[f.file[LogOf(d)]]
      <4>1. LogOf(d) \in Paths
        BY FilePaths DEF Paths
      <4>2. QED
        BY <1>1, <1>2, <2>1, <4>1, FileValues DEF LogRecords
    <3>2. CASE f.file[LogOf(d)] = i
      BY <1>3, <3>1, <3>2
    <3>3. CASE f.file[LogOf(d)] # i
      <4>1. r \in LogRecords(f, d)
        BY <1>3, <3>1, <3>3, CatalogAssumption DEF LogRecords
      <4>2. QED
        BY <4>1 DEF Logged, Sound
    <3>4. QED
      BY <3>2, <3>3
  <2>2. QED
    BY <2>1 DEF Logged
<1>7. InUse(g, e) = InUse(f, e)
  BY <1>2 DEF InUse
<1>8. QED
  BY <1>1, <1>2, <1>3, <1>4, <1>5, <1>6, <1>7, UsesSame DEF Sound

(* In a drawer, to more.                                                   *)
LEMMA ContentSound ==
  ASSUME NEW f, NEW e, Sound(f, e), NEW i \in Inodes, NEW c \in SUBSET Records,
         f.content[i] \subseteq c \/ \A p \in Files : f.file[p] # i,
         \A d \in Cores : f.file[LogOf(d)] = i => \A r \in c : Loggable(d, r),
         NEW g, g = Filled(f, i, c)
  PROVE  /\ Outcome(f, e, g, e, 0)
         /\ g.file = f.file /\ g.dirs = f.dirs
         /\ g.content[i] = c /\ \A j \in Inodes : j # i => g.content[j] = f.content[j]
<1>1. /\ Sound(g, e) /\ Uses(f, e, g, e, 0) /\ g.file = f.file /\ g.dirs = f.dirs
      /\ g.content[i] = c /\ \A j \in Inodes : j # i => g.content[j] = f.content[j]
  BY FilledSound
<1>2. f \in FileSystem /\ e \in Engine
  BY DEF Sound
<1>3. Keeps(f, g, {})
  <2>1. ASSUME NEW p \in Files, f.file[p] # 0
        PROVE  f.content[f.file[p]] \subseteq g.content[f.file[p]]
    <3>1. f.file[p] \in Inodes
      BY <1>2, <2>1, FileValues DEF Paths
    <3>2. QED
      BY <1>1, <3>1
  <2>2. QED
    BY <1>1, <2>1 DEF Keeps
<1>4. QED
  BY <1>1, <1>3 DEF Outcome

(* In the file at p, to anything that may be there.                        *)
LEMMA ReplaceSound ==
  ASSUME NEW f, NEW e, Sound(f, e), NEW p \in Paths, NEW i \in Inodes, f.file[p] = i,
         NEW c \in SUBSET Records, p \in Logs => \A r \in c : Loggable(Up(p), r),
         NEW g, g = Filled(f, i, c)
  PROVE  Sound(g, e) /\ Uses(f, e, g, e, 0) /\ Keeps(f, g, {p})
<1>1. f \in FileSystem /\ e \in Engine /\ UsedFor(f, e, i, p)
  BY DEF Sound, UsedFor
<1>2. ASSUME NEW q \in Paths, f.file[q] = i
      PROVE  q = p
  <2>1. UsedFor(f, e, i, q)
    BY <1>2 DEF UsedFor
  <2>2. QED
    BY <1>1, <2>1 DEF OneUse, Sound
<1>3. ASSUME NEW d \in Cores, f.file[LogOf(d)] = i, NEW r \in c
      PROVE  Loggable(d, r)
  <2>1. LogOf(d) \in Logs /\ LogOf(d) \in Paths /\ Up(LogOf(d)) = d
    BY FilePaths DEF Paths
  <2>2. LogOf(d) = p
    BY <1>2, <1>3, <2>1
  <2>3. QED
    BY <2>1, <2>2
<1>4. /\ Sound(g, e) /\ Uses(f, e, g, e, 0) /\ g.file = f.file
      /\ \A j \in Inodes : j # i => g.content[j] = f.content[j]
  BY <1>3, FilledSound
<1>5. ASSUME NEW q \in Files \ {p}, f.file[q] # 0
      PROVE  g.file[q] = f.file[q] /\ f.content[f.file[q]] \subseteq g.content[f.file[q]]
  <2>1. q \in Paths /\ f.file[q] \in Inodes /\ f.file[q] # i
    BY <1>1, <1>2, <1>5, FileValues DEF Paths
  <2>2. QED
    BY <1>4, <2>1
<1>6. QED
  BY <1>4, <1>5 DEF Keeps


-----------------------------------------------------------------------------
(* Calls.                                                                  *)

Call == [fs : FileSystem, eng : Engine, ok : BOOLEAN]
Made(s, c, n) == c \in Call /\ Outcome(s.fs, s.eng, c.fs, c.eng, n)
SoundCall(s) == s \in Call /\ Sound(s.fs, s.eng)

LEMMA MadeBoth ==
  ASSUME NEW s, NEW c, NEW k, NEW n \in Nat, NEW m \in Nat,
         SoundCall(s), Made(s, c, n), Made(c, k, m)
  PROVE  Made(s, k, n + m)
BY OutcomeBoth DEF Made, SoundCall

LEMMA MadeSame ==
  ASSUME NEW s, SoundCall(s), NEW n \in Nat
  PROVE  Made(s, s, n)
BY OutcomeSame DEF Made, SoundCall

LEMMA MadeSound ==
  ASSUME NEW s, NEW c, NEW n, Made(s, c, n)
  PROVE  SoundCall(c)
BY DEF Made, SoundCall, Outcome

LEMMA MadeRoom ==
  ASSUME NEW s, NEW c, NEW n \in Nat, NEW m \in Nat, Made(s, c, n), Room(s.fs, s.eng, n + m)
  PROVE  Room(c.fs, c.eng, m)
BY FewInodes DEF Made, Outcome

LEMMA MadeMore ==
  ASSUME NEW s, NEW c, NEW n \in Nat, NEW m \in Nat, Made(s, c, n), n <= m
  PROVE  Made(s, c, m)
<1>1. Uses(s.fs, s.eng, c.fs, c.eng, m)
  <2>1. PICK N \in SUBSET Inodes :
          /\ IsFiniteSet(N) /\ Cardinality(N) <= n
          /\ Inodes \cap InUse(c.fs, c.eng) \subseteq InUse(s.fs, s.eng) \cup N
    BY DEF Made, Outcome, Uses
  <2>2. Cardinality(N) \in Nat
    BY <2>1, FS_CardinalityType
  <2>3. Cardinality(N) <= m
    BY <2>1, <2>2
  <2>4. QED
    BY <2>1, <2>3 DEF Uses
<1>2. QED
  BY <1>1 DEF Made, Outcome

LEMMA EvictLruIs ==
  ASSUME NEW e \in Engine, NEW core \in Cores, NEW path,
         <<core, path>> \in HandleIds
  PROVE  /\ EvictLru(e, core, path) \in Engine
         /\ EvictLru(e, core, path).journal = e.journal
         /\ EvictLru(e, core, path).open = e.open
         /\ \A h \in HandleIds : \/ EvictLru(e, core, path).handle[h] = e.handle[h]
                                 \/ EvictLru(e, core, path).handle[h] = Closed
         /\ EvictLru(e, core, path).handle[<<core, path>>] = e.handle[<<core, path>>]
<1>1. PICK V : V = Victims(e, core, path)
  OBVIOUS
<1>2. PICK G : G = IF Cardinality(V) < CacheLimit THEN {} ELSE {CHOOSE h \in V : TRUE}
  OBVIOUS
<1>3. EvictLru(e, core, path) =
        [e EXCEPT !.handle = [h \in HandleIds |-> IF h \in G THEN Closed ELSE e.handle[h]]]
  BY <1>1, <1>2 DEF EvictLru
<1>4. <<core, path>> \notin G
  <2>1. <<core, path>> \notin V
    BY <1>1 DEF Victims
  <2>2. CASE V = {}
    <3>1. Cardinality(V) = 0 /\ 0 < CacheLimit
      BY <2>2, FS_EmptySet, CatalogAssumption
    <3>2. QED
      BY <1>2, <3>1
  <2>3. CASE V # {}
    <3>1. (CHOOSE h \in V : TRUE) \in V
      BY <2>3
    <3>2. QED
      BY <1>2, <2>1, <3>1
  <2>4. QED
    BY <2>2, <2>3
<1>5. Closed \in [inode : Inodes \cup {0}, view : SUBSET Records]
  BY DEF Closed
<1> DEFINE H == [h \in HandleIds |-> IF h \in G THEN Closed ELSE e.handle[h]]
<1>6. H \in [HandleIds -> [inode : Inodes \cup {0}, view : SUBSET Records]]
  BY <1>5 DEF Engine
<1>7. EvictLru(e, core, path) = [journal |-> e.journal, open |-> e.open, handle |-> H]
  BY <1>3 DEF Engine
<1>8. EvictLru(e, core, path) \in Engine
  <2> HIDE DEF H
  <2>1. QED
    BY <1>6, <1>7 DEF Engine
<1>9. QED
  BY <1>4, <1>7, <1>8

LEMMA LoadDrawerMade ==
  ASSUME NEW s, SoundCall(s), NEW core \in Cores, NEW path, <<core, path>> \in HandleIds,
         Room(s.fs, s.eng, 1)
  PROVE  LET c == LoadDrawer(s, core, path)
         IN  /\ Made(s, c, 1)
             /\ c.eng.journal = s.eng.journal /\ c.eng.open = s.eng.open
             /\ c.ok => s.ok /\ c.eng.handle[<<core, path>>].inode # 0
<1> DEFINE h == <<core, path>>
           c == LoadDrawer(s, core, path)
<1>1. s \in Call /\ Sound(s.fs, s.eng) /\ s.fs \in FileSystem /\ s.eng \in Engine
  BY DEF SoundCall, Sound
<1>2. path \in Files /\ path \in Paths /\ h[1] = core /\ h[2] = path
  BY HandlePaths DEF Paths
<1>3. CASE ~s.ok \/ s.eng.handle[h].inode # 0
  <2>1. c = s
    BY <1>3 DEF LoadDrawer
  <2>2. QED
    BY <1>3, <2>1, MadeSame
<1>4. CASE ~(~s.ok \/ s.eng.handle[h].inode # 0) /\ Up(path) \notin s.fs.dirs
  <2>1. c = [s EXCEPT !.ok = FALSE]
    BY <1>4 DEF LoadDrawer, Failed
  <2>2. c \in Call /\ c.fs = s.fs /\ c.eng = s.eng /\ ~c.ok
    BY <1>1, <2>1 DEF Call
  <2>3. QED
    BY <1>1, <2>2, OutcomeSame DEF Made
<1>5. CASE ~(~s.ok \/ s.eng.handle[h].inode # 0) /\ Up(path) \in s.fs.dirs
  <2>1. PICK f : f = OpenOrCreate(s.fs, s.eng, path)
    OBVIOUS
  <2>2. Outcome(s.fs, s.eng, f, s.eng, 1) /\ f.file[path] \in Inodes
    BY <1>1, <1>2, <1>5, <2>1, CreateSound
  <2>3. PICK e : e = OnFile(f, s.eng, h)
    OBVIOUS
  <2>4. f.file[h[2]] # 0 /\ s.eng.handle[h].inode = 0 /\ Sound(f, s.eng)
    BY <1>2, <1>5, <2>2, CatalogAssumption DEF Outcome
  <2>5. /\ Outcome(f, s.eng, f, e, 0) /\ e.handle[h].inode # 0
        /\ e.journal = s.eng.journal /\ e.open = s.eng.open
    <3>1. h \in HandleIds
      OBVIOUS
    <3> HIDE DEF h
    <3>2. QED
      BY <2>3, <2>4, <3>1, OpenHandleSound
  <2>6. PICK k : k = EvictLru(e, core, path)
    OBVIOUS
  <2>7. c = State(f, k)
    BY <1>2, <1>5, <2>1, <2>3, <2>6 DEF LoadDrawer, OnFile
  <2>8. Sound(f, e) /\ e \in Engine /\ f \in FileSystem
    BY <2>5 DEF Outcome, Sound
  <2>9. /\ k \in Engine /\ k.journal = e.journal /\ k.open = e.open /\ k.handle[h] = e.handle[h]
        /\ \A j \in HandleIds : k.handle[j] = e.handle[j] \/ k.handle[j] = Closed
    BY <2>6, <2>8, EvictLruIs
  <2>10. Outcome(f, e, f, k, 0)
    BY <2>8, <2>9, CloseSound
  <2>11. Outcome(f, s.eng, f, k, 0 + 0)
    BY <2>4, <2>5, <2>10, OutcomeBoth
  <2>12. Outcome(s.fs, s.eng, f, k, 1 + 0)
    BY <1>1, <2>2, <2>11, OutcomeBoth
  <2>13. c \in Call /\ c.fs = f /\ c.eng = k /\ c.ok
    BY <2>7, <2>8, <2>9 DEF Call, State
  <2>14. QED
    BY <1>5, <2>5, <2>9, <2>12, <2>13 DEF Made
<1>6. QED
  BY <1>3, <1>4, <1>5

LEMMA InsertMade ==
  ASSUME NEW s, SoundCall(s), NEW core \in Cores, NEW path, <<core, path>> \in HandleIds,
         s.ok => s.eng.handle[<<core, path>>].inode # 0, NEW recs \in SUBSET Records
  PROVE  LET c == Insert(s, core, path, recs)
         IN  /\ Made(s, c, 0)
             /\ c.eng.journal = s.eng.journal /\ c.eng.open = s.eng.open /\ c.ok = s.ok
             /\ s.ok => recs \subseteq c.fs.content[s.eng.handle[<<core, path>>].inode]
             /\ c.fs.file = s.fs.file
<1>1. PICK h : h = <<core, path>>
  OBVIOUS
<1>2. PICK c : c = Insert(s, core, path, recs)
  OBVIOUS
<1>3. s \in Call /\ Sound(s.fs, s.eng) /\ s.fs \in FileSystem /\ s.eng \in Engine
  BY DEF SoundCall, Sound
<1>4. CASE ~s.ok
  <2>1. c = s
    BY <1>2, <1>4 DEF Insert
  <2>2. QED
    BY <1>2, <1>4, <2>1, MadeSame
<1>5. CASE s.ok
  <2>1. PICK i : i = s.eng.handle[h].inode
    OBVIOUS
  <2>2. h \in HandleIds /\ h[2] \in Files /\ h[2] \in Paths /\ i \in Inodes
    BY <1>1, <1>3, <1>5, <2>1, HandlePaths, FileValues DEF Paths
  <2>3. PICK f : f = Filled(s.fs, i, s.fs.content[i] \cup recs)
    OBVIOUS
  <2>4. PICK e : e = [s.eng EXCEPT !.handle[h].view = s.eng.handle[h].view \cup recs]
    OBVIOUS
  <2>5. c = [s EXCEPT !.fs = f, !.eng = e]
    BY <1>1, <1>2, <1>5, <2>1, <2>3, <2>4 DEF Insert, Call, Filled
  <2>6. s.fs.content[i] \cup recs \in SUBSET Records
    BY <1>3, <2>2, FileValues
  <2>7. UsedFor(s.fs, s.eng, i, h[2])
    BY <2>1, <2>2 DEF UsedFor
  <2>8. \A d \in Cores : s.fs.file[LogOf(d)] # i
    <3>1. ASSUME NEW d \in Cores, s.fs.file[LogOf(d)] = i
          PROVE  FALSE
      <4>1. LogOf(d) \in Logs /\ LogOf(d) \in Paths
        BY FilePaths DEF Paths
      <4>2. UsedFor(s.fs, s.eng, i, LogOf(d))
        BY <3>1 DEF UsedFor
      <4>3. LogOf(d) = h[2]
        BY <1>3, <2>2, <2>7, <4>1, <4>2 DEF OneUse, Sound
      <4>4. QED
        BY <2>2, <4>1, <4>3, FilePaths
    <3>2. QED
      BY <3>1
  <2>9. /\ Outcome(s.fs, s.eng, f, s.eng, 0) /\ f.file = s.fs.file
        /\ f.content[i] = s.fs.content[i] \cup recs
    BY <1>3, <2>2, <2>3, <2>6, <2>8, ContentSound
  <2>10. /\ e.journal = s.eng.journal /\ e.open = s.eng.open
         /\ e.handle = [s.eng.handle EXCEPT ![h] =
                          [inode |-> i, view |-> s.eng.handle[h].view \cup recs]]
         /\ e = [journal |-> e.journal, open |-> e.open, handle |-> e.handle]
    <3>1. /\ e.journal = s.eng.journal /\ e.open = s.eng.open
          /\ e.handle = [s.eng.handle EXCEPT ![h].view = s.eng.handle[h].view \cup recs]
          /\ e = [journal |-> e.journal, open |-> e.open, handle |-> e.handle]
      BY <1>3, <2>4 DEF Engine
    <3>2. PICK x : x = s.eng.handle[h]
      OBVIOUS
    <3>3. PICK v : v = s.eng.handle[h].view \cup recs
      OBVIOUS
    <3>6. x \in [inode : Inodes \cup {0}, view : SUBSET Records] /\ x.inode = i
      BY <1>3, <2>1, <2>2, <3>2 DEF Engine
    <3>7. [x EXCEPT !.view = v] = [inode |-> i, view |-> v]
      BY <3>6
    <3>4. e.handle = [s.eng.handle EXCEPT
                        ![h] = [s.eng.handle[h] EXCEPT !.view = s.eng.handle[h].view \cup recs]]
      BY <3>1
    <3>5. QED
      BY <3>1, <3>2, <3>3, <3>4, <3>7
  <2>11. [inode |-> i, view |-> s.eng.handle[h].view \cup recs]
           \in [inode : Inodes \cup {0}, view : SUBSET Records]
    BY <1>3, <2>2, FileValues
  <2>12. e \in Engine
    BY <1>3, <2>2, <2>10, <2>11 DEF Engine
  <2>13. \A j \in HandleIds : e.handle[j].inode = s.eng.handle[j].inode
    BY <1>3, <2>1, <2>2, <2>10 DEF Engine
  <2>14. \A j \in HandleIds : j # h => e.handle[j] = s.eng.handle[j]
    BY <1>3, <2>2, <2>10 DEF Engine
  <2>15. Sound(f, s.eng) /\ f \in FileSystem
    BY <2>9 DEF Outcome, Sound
  <2>16. OneUse(f, e)
    BY <2>10, <2>13, <2>15 DEF OneUse, UsedFor, Sound
  <2>17. Handled(f, e)
    BY <2>1, <2>2, <2>13, <2>14, <2>15, CatalogAssumption DEF Handled, Sound
  <2>18. InUse(f, e) = InUse(f, s.eng)
    BY <2>10, <2>13 DEF InUse
  <2>19. Outcome(f, s.eng, f, e, 0)
    BY <2>12, <2>15, <2>16, <2>17, <2>18, UsesSame DEF Outcome, Sound, Keeps
  <2>20. Outcome(s.fs, s.eng, f, e, 0 + 0)
    BY <1>3, <2>9, <2>19, OutcomeBoth
  <2>21. c \in Call /\ c.fs = f /\ c.eng = e /\ c.ok = s.ok
    BY <1>3, <2>5, <2>12, <2>15 DEF Call
  <2>22. QED
    BY <1>1, <1>2, <1>5, <2>1, <2>9, <2>10, <2>20, <2>21 DEF Made
<1>6. QED
  BY <1>4, <1>5

LEMMA OpenJournalMade ==
  ASSUME NEW s, SoundCall(s), NEW d \in Cores, Room(s.fs, s.eng, 1)
  PROVE  LET c == OpenJournal(s, d)
         IN  /\ Made(s, c, 1) /\ c.eng.journal[d] \in Inodes
             /\ c.eng.open = s.eng.open /\ c.ok = s.ok
             /\ LogRecords(c.fs, d) \subseteq LogRecords(s.fs, d)
<1>1. PICK c : c = OpenJournal(s, d)
  OBVIOUS
<1>2. /\ s \in Call /\ Sound(s.fs, s.eng) /\ s.fs \in FileSystem /\ s.eng \in Engine
      /\ LogOf(d) \in Paths /\ Up(LogOf(d)) = d
  BY FilePaths DEF SoundCall, Sound, Paths
<1>3. CASE s.eng.journal[d] # 0
  <2>1. c = s /\ s.eng.journal[d] \in Inodes
    BY <1>1, <1>2, <1>3, FileValues DEF OpenJournal
  <2>2. QED
    BY <1>1, <2>1, MadeSame
<1>4. CASE s.eng.journal[d] = 0
  <2>1. PICK g : g = EnsureDir(s.fs, d)
    OBVIOUS
  <2>2. /\ Outcome(s.fs, s.eng, g, s.eng, 0) /\ d \in g.dirs
        /\ g.file = s.fs.file /\ g.content = s.fs.content
    BY <1>2, <2>1, EnsureDirSound
  <2>3. Room(g, s.eng, 1) /\ Sound(g, s.eng)
    <3>1. Room(s.fs, s.eng, 0 + 1)
      OBVIOUS
    <3>2. QED
      BY <2>2, <3>1, FewInodes DEF Outcome
  <2>4. PICK f : f = OpenOrCreate(g, s.eng, LogOf(d))
    OBVIOUS
  <2>5. /\ Outcome(g, s.eng, f, s.eng, 1) /\ f.file[LogOf(d)] \in Inodes
        /\ g.file[LogOf(d)] # 0 => f = g
        /\ g.file[LogOf(d)] = 0 => f.content[f.file[LogOf(d)]] = {}
    BY <1>2, <2>2, <2>3, <2>4, CreateSound
  <2>6. PICK i : i = f.file[LogOf(d)]
    OBVIOUS
  <2>7. PICK e : e = [s.eng EXCEPT !.journal[d] = i]
    OBVIOUS
  <2>8. c = [s EXCEPT !.fs = f, !.eng = e]
    BY <1>1, <1>4, <2>1, <2>4, <2>6, <2>7 DEF OpenJournal, Call
  <2>9. /\ e.open = s.eng.open /\ e.handle = s.eng.handle
        /\ e.journal = [s.eng.journal EXCEPT ![d] = i]
        /\ e = [journal |-> e.journal, open |-> e.open, handle |-> e.handle]
        /\ i \in Inodes
    BY <1>2, <2>5, <2>6, <2>7 DEF Engine
  <2>10. /\ e.journal[d] = i /\ \A k \in Cores : k # d => e.journal[k] = s.eng.journal[k]
         /\ e.journal \in [Cores -> Inodes \cup {0}]
    BY <1>2, <2>9 DEF Engine
  <2>11. e \in Engine
    BY <1>2, <2>9, <2>10 DEF Engine
  <2>12. Sound(f, s.eng) /\ f \in FileSystem
    BY <2>5 DEF Outcome, Sound
  <2>13. ASSUME NEW j \in Inodes, NEW p \in Paths, UsedFor(f, e, j, p)
         PROVE  UsedFor(f, s.eng, j, p)
    BY <2>6, <2>9, <2>10, <2>13 DEF UsedFor
  <2>14. OneUse(f, e)
    BY <2>12, <2>13 DEF OneUse, Sound
  <2>15. Handled(f, e)
    BY <2>9, <2>12 DEF Handled, Sound
  <2>16. Inodes \cap InUse(f, e) \subseteq InUse(f, s.eng)
    BY <1>2, <2>11, <2>12, <2>13, InUseIs
  <2>17. Outcome(f, s.eng, f, e, 0)
    BY <2>11, <2>12, <2>14, <2>15, <2>16, UsesSame DEF Outcome, Sound, Keeps
  <2>18. Outcome(g, s.eng, f, e, 1 + 0)
    BY <2>3, <2>5, <2>17, OutcomeBoth
  <2>19. Outcome(s.fs, s.eng, f, e, 0 + (1 + 0))
    BY <1>2, <2>2, <2>18, OutcomeBoth
  <2>20. c \in Call /\ c.fs = f /\ c.eng = e /\ c.ok = s.ok
    BY <1>2, <2>8, <2>11, <2>12 DEF Call
  <2>21. LogRecords(f, d) \subseteq LogRecords(s.fs, d)
    BY <2>2, <2>5 DEF LogRecords
  <2>22. QED
    BY <1>1, <2>9, <2>10, <2>19, <2>20, <2>21 DEF Made
<1>5. QED
  BY <1>3, <1>4

LEMMA LogOperationMade ==
  ASSUME NEW s, SoundCall(s), NEW d \in Cores, s.eng.journal[d] \in Inodes,
         NEW r \in Records, Loggable(d, r)
  PROVE  LET c == LogOperation(s, d, r)
         IN  Made(s, c, 0) /\ c.eng = s.eng /\ c.ok = s.ok
<1>1. PICK c : c = LogOperation(s, d, r)
  OBVIOUS
<1>2. s \in Call /\ Sound(s.fs, s.eng) /\ s.fs \in FileSystem /\ s.eng \in Engine
  BY DEF SoundCall, Sound
<1>3. CASE ~s.ok
  <2>1. c = s
    BY <1>1, <1>3 DEF LogOperation
  <2>2. QED
    BY <1>1, <2>1, MadeSame
<1>4. CASE s.ok
  <2>1. PICK i \in Inodes : i = s.eng.journal[d]
    OBVIOUS
  <2>2. PICK f : f = Filled(s.fs, i, s.fs.content[i] \cup {r})
    OBVIOUS
  <2>3. c = [s EXCEPT !.fs = f]
    BY <1>1, <1>4, <2>1, <2>2 DEF LogOperation, Call, Filled
  <2>4. s.fs.content[i] \cup {r} \in SUBSET Records
    BY <1>2, FileValues
  <2>5. ASSUME NEW k \in Cores, s.fs.file[LogOf(k)] = i, NEW x \in s.fs.content[i] \cup {r}
        PROVE  Loggable(k, x)
    <3>1. /\ UsedFor(s.fs, s.eng, i, LogOf(k)) /\ UsedFor(s.fs, s.eng, i, LogOf(d))
          /\ LogOf(k) \in Paths /\ LogOf(d) \in Paths
      BY <2>1, <2>5, FilePaths DEF UsedFor, Paths
    <3>2. LogOf(k) = LogOf(d)
      BY <1>2, <3>1 DEF OneUse, Sound
    <3>3. k = d
      BY <3>2, FilePaths
    <3>4. CASE x = r
      BY <3>3, <3>4
    <3>5. CASE x \in s.fs.content[i]
      <4>1. x \in LogRecords(s.fs, k)
        BY <2>5, <3>5, CatalogAssumption DEF LogRecords
      <4>2. QED
        BY <1>2, <4>1 DEF Logged, Sound
    <3>6. QED
      BY <2>5, <3>4, <3>5
  <2>6. Outcome(s.fs, s.eng, f, s.eng, 0)
    BY <1>2, <2>2, <2>4, <2>5, ContentSound
  <2>7. c \in Call /\ c.fs = f /\ c.eng = s.eng /\ c.ok = s.ok
    BY <1>2, <2>3, <2>6 DEF Call, Outcome, Sound
  <2>8. QED
    BY <1>1, <2>6, <2>7 DEF Made
<1>5. QED
  BY <1>3, <1>4

LEMMA CutLogMade ==
  ASSUME NEW s, SoundCall(s), NEW d \in Cores
  PROVE  LET c == CutLog(s, d)
         IN  Made(s, c, 0) /\ c.eng = s.eng /\ c.ok = s.ok
<1>1. PICK c : c = CutLog(s, d)
  OBVIOUS
<1>2. /\ s \in Call /\ Sound(s.fs, s.eng) /\ s.fs \in FileSystem /\ s.eng \in Engine
      /\ LogOf(d) \in Paths /\ LogOf(d) \in Logs
  BY FilePaths DEF SoundCall, Sound, Paths
<1>3. CASE ~s.ok \/ s.fs.file[LogOf(d)] = 0
  <2>1. c = s
    BY <1>1, <1>3 DEF CutLog
  <2>2. QED
    BY <1>1, <2>1, MadeSame
<1>4. CASE ~(~s.ok \/ s.fs.file[LogOf(d)] = 0)
  <2>1. PICK i \in Inodes : i = s.fs.file[LogOf(d)]
    BY <1>2, <1>4, FileValues
  <2>2. PICK f : f = Filled(s.fs, i, {})
    OBVIOUS
  <2>3. c = [s EXCEPT !.fs = f]
    BY <1>1, <1>4, <2>1, <2>2 DEF CutLog, Call, Filled
  <2>4. ASSUME NEW p \in Files, s.fs.file[p] = i
        PROVE  FALSE
    <3>1. /\ UsedFor(s.fs, s.eng, i, p) /\ UsedFor(s.fs, s.eng, i, LogOf(d)) /\ p \in Paths
      BY <2>1, <2>4 DEF UsedFor, Paths
    <3>2. p = LogOf(d)
      BY <1>2, <3>1 DEF OneUse, Sound
    <3>3. QED
      BY <1>2, <3>2, FilePaths
  <2>5. Outcome(s.fs, s.eng, f, s.eng, 0)
    BY <1>2, <2>2, <2>4, ContentSound
  <2>6. c \in Call /\ c.fs = f /\ c.eng = s.eng /\ c.ok = s.ok
    BY <1>2, <2>3, <2>5 DEF Call, Outcome, Sound
  <2>7. QED
    BY <1>1, <2>5, <2>6 DEF Made
<1>5. QED
  BY <1>3, <1>4

-----------------------------------------------------------------------------
(* Replaying a log.                                                        *)

LEMMA LeastExists ==
  ASSUME NEW S \in SUBSET Nat, S # {}
  PROVE  \E x \in S : \A y \in S : x <= y
<1>1. PICK x \in S : \A y \in S : ~(<<y, x>> \in OpToRel(<, Nat))
  BY WFMin, NatLessThanWellFounded
<1>2. ASSUME NEW y \in S
      PROVE  x <= y
  <2>1. ~(y < x)
    BY <1>1 DEF OpToRel
  <2>2. QED
    BY <2>1
<1>3. QED
  BY <1>2

(* A set without one of its elements has one element fewer.                *)
Some(P) == CHOOSE q \in P : TRUE
LEMMA OneFewer ==
  ASSUME NEW P, IsFiniteSet(P), P # {}
  PROVE  /\ Some(P) \in P /\ IsFiniteSet(P \ {Some(P)})
         /\ Cardinality(P) \in Nat /\ Cardinality(P \ {Some(P)}) \in Nat
         /\ Cardinality(P) = Cardinality(P \ {Some(P)}) + 1
<1>1. Some(P) \in P
  BY DEF Some
<1>2. /\ IsFiniteSet(P \ {Some(P)})
      /\ Cardinality(P \ {Some(P)}) = Cardinality(P) - 1
  BY <1>1, FS_RemoveElement
<1>3. Cardinality(P) \in Nat /\ Cardinality(P \ {Some(P)}) \in Nat
  BY <1>2, FS_CardinalityType
<1>4. QED
  BY <1>1, <1>2, <1>3

(* The log of a database names drawers that the database has handles for.  *)
LEMMA ReplayedHandles ==
  ASSUME NEW f, NEW e, Sound(f, e), TargetInv, NEW core \in Cores
  PROVE  /\ \A r \in LogRecords(f, core) : /\ r \in Records
                                           /\ <<core, ReplayedPath(core, r)>> \in HandleIds
         /\ IsFiniteSet(ReplayedPaths(f, core))
         /\ Cardinality(ReplayedPaths(f, core)) \in Nat
<1>1. LogRecords(f, core) \subseteq Records
  <2>1. f \in FileSystem /\ e \in Engine /\ LogOf(core) \in Paths
    BY FilePaths DEF Sound, Paths
  <2>2. QED
    BY <2>1, FileValues DEF LogRecords
<1>2. ASSUME NEW r \in LogRecords(f, core)
      PROVE  <<core, ReplayedPath(core, r)>> \in HandleIds
  <2>1. Loggable(core, r)
    BY DEF Sound, Logged
  <2>2. CASE core = <<>>
    <3>1. target[r].core = <<>> /\ target[r].file \in Files
      BY <1>1, <2>1, <2>2 DEF Loggable, TargetInv, Destined
    <3>2. target[r].file \in Seq(Segment)
      BY <3>1, FilePaths DEF Paths
    <3>3. PICK p \in Files : p = target[r].file
      BY <3>1
    <3>4. SubSeq(p, 1, Len(p)) = p /\ <<>> \o p = p
      BY <3>2, <3>3
    <3>5. Relative(<<>>, p) = p
      BY <3>4 DEF Relative
    <3>6. ReplayedPath(core, r) = p
      BY <2>2, <3>1, <3>3, <3>4, <3>5 DEF ReplayedPath
    <3>7. QED
      BY <2>2, <3>6, HandlePaths
  <2>3. CASE core # <<>>
    <3>1. PICK w \in Drawers : Relative(target[r].core, target[r].file) = <<w>>
      BY <2>1, <2>3 DEF Loggable, Portable
    <3>2. core \in Seq(Segment) /\ w \in Segment /\ core \in DataDirs
      BY <2>3, DataPaths, NamedPaths DEF Cores
    <3>3. core \o <<w>> = Append(core, w)
      BY <3>2
    <3>4. QED
      BY <3>1, <3>2, <3>3, HandlePaths DEF ReplayedPath
  <2>4. QED
    BY <2>2, <2>3
<1>3. IsFiniteSet(ReplayedPaths(f, core))
  <2>1. IsFiniteSet(LogRecords(f, core))
    BY <1>1, CatalogAssumption, FS_Subset
  <2>2. PICK L : L = LogRecords(f, core)
    OBVIOUS
  <2>3. PICK T : T = ReplayedPaths(f, core)
    OBVIOUS
  <2>4. [r \in L |-> ReplayedPath(core, r)] \in Surjection(L, T)
    BY <2>2, <2>3 DEF Surjection, ReplayedPaths
  <2>5. QED
    BY <2>1, <2>2, <2>3, <2>4, FS_Surjection
<1>4. QED
  BY <1>1, <1>2, <1>3, FS_CardinalityType

(* One drawer's operations.                                                *)
LoggedFor(f, core, p) == {r \in LogRecords(f, core) : ReplayedPath(core, r) = p}
Replays(s, f, core, p) ==
  Insert(LoadDrawer(s, core, p), core, p, LoggedFor(f, core, p))

Follows(s, c, n) ==
  /\ Made(s, c, n)
  /\ c.eng.journal = s.eng.journal /\ c.eng.open = s.eng.open

LEMMA ReplaysFollows ==
  ASSUME NEW s, SoundCall(s), NEW core \in Cores, NEW p, <<core, p>> \in HandleIds,
         Room(s.fs, s.eng, 1), NEW f, LogRecords(f, core) \subseteq Records
  PROVE  Follows(s, Replays(s, f, core, p), 1)
<1>1. PICK c : c = LoadDrawer(s, core, p)
  OBVIOUS
<1>2. /\ Made(s, c, 1) /\ c.eng.journal = s.eng.journal /\ c.eng.open = s.eng.open
      /\ c.ok => c.eng.handle[<<core, p>>].inode # 0
  BY <1>1, LoadDrawerMade
<1>3. SoundCall(c)
  BY <1>2, MadeSound
<1>4. PICK R \in SUBSET Records : R = LoggedFor(f, core, p)
  BY DEF LoggedFor
<1>5. PICK k : k = Insert(c, core, p, R)
  OBVIOUS
<1>6. Made(c, k, 0) /\ k.eng.journal = c.eng.journal /\ k.eng.open = c.eng.open
  BY <1>2, <1>3, <1>5, InsertMade
<1>7. Made(s, k, 1 + 0)
  BY <1>2, <1>6, MadeBoth
<1>8. k = Replays(s, f, core, p)
  BY <1>1, <1>4, <1>5 DEF Replays
<1>9. QED
  BY <1>2, <1>6, <1>7, <1>8 DEF Follows

(* What the replay computes, for a set of drawers: g[P] has those in P.    *)
IsReplay(g, s, core, D) ==
  g = [P \in D |->
         IF P = {} THEN s ELSE Replays(g[P \ {Some(P)}], s.fs, core, Some(P))]
Sized(paths, n) == {P \in SUBSET paths : Cardinality(P) <= n}

LEMMA ReplayExists ==
  ASSUME NEW s, NEW core, NEW paths, IsFiniteSet(paths)
  PROVE  \E g : IsReplay(g, s, core, SUBSET paths)
<1> DEFINE Bad == {n \in Nat : ~\E g : IsReplay(g, s, core, Sized(paths, n))}
<1>1. \A P \in SUBSET paths : IsFiniteSet(P) /\ Cardinality(P) \in Nat
  BY FS_Subset, FS_CardinalityType
<1>2. ASSUME Bad # {}
      PROVE  FALSE
  <2>1. PICK n \in Bad : \A m \in Bad : n <= m
    <3> HIDE DEF Bad
    <3>1. Bad \in SUBSET Nat
      BY DEF Bad
    <3>2. QED
      BY <1>2, <3>1, LeastExists
  <2>2. n \in Nat /\ ~\E g : IsReplay(g, s, core, Sized(paths, n))
    OBVIOUS
  <2>3. CASE n = 0
    <3>1. \A P \in Sized(paths, n) : P = {}
      <4>1. ASSUME NEW P \in Sized(paths, n)
            PROVE  P = {}
        <5>1. Cardinality(P) = 0 /\ IsFiniteSet(P)
          BY <1>1, <2>3 DEF Sized
        <5>2. QED
          BY <5>1, FS_EmptySet
      <4>2. QED
        BY <4>1
    <3>2. PICK g : g = [P \in Sized(paths, n) |-> s]
      OBVIOUS
    <3>3. IsReplay(g, s, core, Sized(paths, n))
      BY <3>1, <3>2 DEF IsReplay
    <3>4. QED
      BY <2>2, <3>3
  <2>4. CASE n # 0
    <3>1. n - 1 \in Nat /\ n - 1 < n
      BY <2>2, <2>4
    <3>2. n - 1 \notin Bad
      BY <2>1, <3>1
    <3>3. PICK h : IsReplay(h, s, core, Sized(paths, n - 1))
      BY <3>1, <3>2
    <3>4. PICK g : g = [P \in Sized(paths, n) |->
                         IF P = {} THEN s
                         ELSE Replays(h[P \ {Some(P)}], s.fs, core, Some(P))]
      OBVIOUS
    <3>5. ASSUME NEW Q \in Sized(paths, n - 1)
          PROVE  g[Q] = h[Q]
      <4>1. Q \in Sized(paths, n)
        BY <1>1, <2>2, <3>1 DEF Sized
      <4>2. QED
        BY <3>3, <3>4, <4>1 DEF IsReplay
    <3>6. ASSUME NEW P \in Sized(paths, n), P # {}
          PROVE  P \ {Some(P)} \in Sized(paths, n - 1)
      <4>1. IsFiniteSet(P) /\ P \ {Some(P)} \in SUBSET paths /\ Cardinality(P) <= n
        BY <1>1 DEF Sized
      <4>2. Cardinality(P) = Cardinality(P \ {Some(P)}) + 1 /\ Cardinality(P \ {Some(P)}) \in Nat
        BY <3>6, <4>1, OneFewer
      <4>3. QED
        BY <2>2, <4>1, <4>2 DEF Sized
    <3>7. \A P \in Sized(paths, n) : P # {} => g[P \ {Some(P)}] = h[P \ {Some(P)}]
      BY <3>5, <3>6
    <3>8. IsReplay(g, s, core, Sized(paths, n))
      BY <3>4, <3>7 DEF IsReplay
    <3>9. QED
      BY <2>2, <3>8
  <2>5. QED
    BY <2>3, <2>4
<1>3. Cardinality(paths) \in Nat
  BY FS_CardinalityType
<1>4. PICK g : IsReplay(g, s, core, Sized(paths, Cardinality(paths)))
  BY <1>2, <1>3
<1>5. Sized(paths, Cardinality(paths)) = SUBSET paths
  <2>1. ASSUME NEW P \in SUBSET paths
        PROVE  Cardinality(P) <= Cardinality(paths)
    BY FS_Subset
  <2>2. QED
    BY <2>1 DEF Sized
<1>6. QED
  BY <1>4, <1>5

LEMMA ReplayFollows ==
  ASSUME NEW s, SoundCall(s), NEW core \in Cores, LogRecords(s.fs, core) \subseteq Records,
         NEW paths, IsFiniteSet(paths), \A p \in paths : <<core, p>> \in HandleIds,
         Room(s.fs, s.eng, Cardinality(paths)),
         NEW g, IsReplay(g, s, core, SUBSET paths)
  PROVE  Follows(s, g[paths], Cardinality(paths))
<1> DEFINE Bad == {n \in Nat : \E P \in SUBSET paths :
                     n = Cardinality(P) /\ ~Follows(s, g[P], n)}
<1>1. \A P \in SUBSET paths : /\ IsFiniteSet(P) /\ Cardinality(P) \in Nat
                              /\ Cardinality(P) <= Cardinality(paths)
  BY FS_Subset, FS_CardinalityType
<1>2. ASSUME Bad # {}
      PROVE  FALSE
  <2>1. PICK n \in Bad : \A m \in Bad : n <= m
    <3> HIDE DEF Bad
    <3>1. Bad \in SUBSET Nat
      BY DEF Bad
    <3>2. QED
      BY <1>2, <3>1, LeastExists
  <2>2. PICK P \in SUBSET paths : n = Cardinality(P) /\ ~Follows(s, g[P], n)
    OBVIOUS
  <2>3. n \in Nat /\ IsFiniteSet(P) /\ n <= Cardinality(paths)
    BY <1>1, <2>2
  <2>4. CASE P = {}
    <3>1. g[P] = s
      BY <2>4 DEF IsReplay
    <3>2. QED
      BY <2>2, <2>3, <3>1, MadeSame DEF Follows
  <2>5. CASE P # {}
    <3>1. PICK p : p = Some(P)
      OBVIOUS
    <3>2. PICK Q : Q = P \ {p}
      OBVIOUS
    <3>3. PICK m : m = Cardinality(Q)
      OBVIOUS
    <3>4. p \in P /\ m \in Nat /\ n = m + 1
      BY <2>2, <2>3, <2>5, <3>1, <3>2, <3>3, OneFewer
    <3>5. Q \in SUBSET paths /\ <<core, p>> \in HandleIds
      BY <2>2, <3>2, <3>4
    <3>6. m \notin Bad
      <4> HIDE DEF Bad
      <4>1. ~(n <= m)
        BY <3>4
      <4>2. QED
        BY <2>1, <4>1
    <3>7. Follows(s, g[Q], m)
      BY <3>3, <3>4, <3>5, <3>6
    <3>8. PICK c : c = g[Q]
      OBVIOUS
    <3>9. SoundCall(c) /\ Made(s, c, m)
      BY <3>7, <3>8, MadeSound DEF Follows
    <3>10. Room(s.fs, s.eng, m + 1)
      <4>1. Cardinality(paths) \in Nat /\ Cardinality(Inodes \ InUse(s.fs, s.eng)) \in Nat
        BY CatalogAssumption, FS_Subset, FS_CardinalityType
      <4>2. QED
        BY <2>3, <3>4, <4>1 DEF Room
    <3>11. Room(c.fs, c.eng, 1)
      BY <3>4, <3>9, <3>10, MadeRoom
    <3>12. Follows(c, Replays(c, s.fs, core, p), 1)
      BY <3>5, <3>9, <3>11, ReplaysFollows
    <3>13. g[P] = Replays(c, s.fs, core, p)
      BY <2>5, <3>1, <3>2, <3>8 DEF IsReplay
    <3>14. Made(s, g[P], m + 1)
      BY <3>4, <3>9, <3>12, <3>13, MadeBoth DEF Follows
    <3>15. QED
      BY <2>2, <3>4, <3>7, <3>8, <3>12, <3>13, <3>14 DEF Follows
  <2>6. QED
    BY <2>4, <2>5
<1>3. Cardinality(paths) \notin Bad
  BY <1>2
<1>4. QED
  BY <1>1, <1>3

LEMMA RecoverFollows ==
  ASSUME NEW s, SoundCall(s), TargetInv, NEW core \in Cores,
         NEW n \in Nat, Cardinality(ReplayedPaths(s.fs, core)) <= n, Room(s.fs, s.eng, n)
  PROVE  Follows(s, Recover(s, core), n)
<1>1. PICK paths : paths = ReplayedPaths(s.fs, core)
  OBVIOUS
<1>2. /\ Sound(s.fs, s.eng)
      /\ \A r \in LogRecords(s.fs, core) : /\ r \in Records
                                           /\ <<core, ReplayedPath(core, r)>> \in HandleIds
      /\ IsFiniteSet(paths) /\ Cardinality(paths) \in Nat /\ Cardinality(paths) <= n
  BY <1>1, ReplayedHandles DEF SoundCall
<1>3. \A p \in paths : <<core, p>> \in HandleIds
  BY <1>1, <1>2 DEF ReplayedPaths
<1>4. PICK g : /\ g = CHOOSE h : IsReplay(h, s, core, SUBSET paths)
               /\ IsReplay(g, s, core, SUBSET paths)
  BY <1>2, ReplayExists
<1>5. Room(s.fs, s.eng, Cardinality(paths))
  <2>1. Cardinality(Inodes \ InUse(s.fs, s.eng)) \in Nat
    BY CatalogAssumption, FS_Subset, FS_CardinalityType
  <2>2. QED
    BY <1>2, <2>1 DEF Room
<1>6. Follows(s, g[paths], Cardinality(paths))
  <2>1. LogRecords(s.fs, core) \subseteq Records
    BY <1>2
  <2>2. QED
    BY <1>2, <1>3, <1>4, <1>5, <2>1, ReplayFollows
<1>7. PICK c : c = g[paths]
  OBVIOUS
<1>8. Made(s, c, n) /\ SoundCall(c) /\ c.eng.journal = s.eng.journal /\ c.eng.open = s.eng.open
  BY <1>2, <1>6, <1>7, MadeMore, MadeSound DEF Follows
<1>9. Made(c, CutLog(c, core), 0) /\ CutLog(c, core).eng = c.eng
  BY <1>8, CutLogMade
<1>10. Made(s, CutLog(c, core), n + 0)
  BY <1>8, <1>9, MadeBoth
<1>11. Recover(s, core) = CutLog(c, core)
  <2>1. (CHOOSE h : IsReplay(h, s, core, SUBSET paths)) = g
    BY <1>4
  <2>2. QED
    BY <1>1, <1>7, <2>1 DEF Recover, IsReplay, Replays, LoggedFor, Some
<1>12. QED
  BY <1>8, <1>9, <1>10, <1>11 DEF Follows

-----------------------------------------------------------------------------
(* A command's way to its drawer.                                          *)

Reaches(s, c, n) == Made(s, c, n) /\ c.eng.journal = s.eng.journal

LEMMA ReachesBoth ==
  ASSUME NEW s, NEW c, NEW k, NEW n \in Nat, NEW m \in Nat,
         SoundCall(s), Reaches(s, c, n), Reaches(c, k, m)
  PROVE  Reaches(s, k, n + m) /\ SoundCall(k)
<1>1. Made(s, k, n + m)
  BY MadeBoth DEF Reaches
<1>2. QED
  BY <1>1, MadeSound DEF Reaches

LEMMA WithFsMade ==
  ASSUME NEW s, SoundCall(s), NEW f, NEW n \in Nat, Outcome(s.fs, s.eng, f, s.eng, n),
         NEW c, c = [s EXCEPT !.fs = f]
  PROVE  Reaches(s, c, n) /\ c.fs = f /\ c.eng = s.eng /\ c.ok = s.ok
<1>1. s \in Call /\ f \in FileSystem
  BY DEF SoundCall, Outcome, Sound
<1>2. c.fs = f /\ c.eng = s.eng /\ c.ok = s.ok /\ c \in Call
  BY <1>1 DEF Call
<1>3. QED
  BY <1>2 DEF Made, Reaches

LEMMA OpenDatabaseFollows ==
  ASSUME NEW s, SoundCall(s), TargetInv, NEW core \in Cores,
         NEW n \in Nat, Cardinality(ReplayedPaths(s.fs, core)) <= n, Room(s.fs, s.eng, n)
  PROVE  Follows(s, OpenDatabase(s, core), n)
<1>1. PICK f : f = EnsureDir(s.fs, core)
  OBVIOUS
<1>2. /\ Outcome(s.fs, s.eng, f, s.eng, 0) /\ f.file = s.fs.file /\ f.content = s.fs.content
  BY <1>1, EnsureDirSound DEF SoundCall
<1>3. PICK c : c = [s EXCEPT !.fs = f]
  OBVIOUS
<1>4. Reaches(s, c, 0) /\ c.fs = f /\ c.eng = s.eng
  <2>1. s \in Call /\ f \in FileSystem
    BY <1>2 DEF SoundCall, Outcome, Sound
  <2>2. c.fs = f /\ c.eng = s.eng /\ c \in Call
    BY <1>3, <2>1 DEF Call
  <2>3. QED
    BY <1>2, <2>2 DEF Made, Reaches
<1>5. SoundCall(c) /\ Room(c.fs, c.eng, n)
  <2>1. Room(s.fs, s.eng, 0 + n)
    OBVIOUS
  <2>2. QED
    BY <1>4, <2>1, MadeRoom, MadeSound DEF Reaches
<1>6. ReplayedPaths(c.fs, core) = ReplayedPaths(s.fs, core)
  BY <1>2, <1>4 DEF ReplayedPaths, LogRecords
<1>7. Follows(c, Recover(c, core), n)
  BY <1>5, <1>6, RecoverFollows
<1>8. Made(s, Recover(c, core), 0 + n)
  BY <1>4, <1>7, MadeBoth DEF Follows, Reaches
<1>9. OpenDatabase(s, core) = Recover(c, core)
  BY <1>1, <1>3 DEF OpenDatabase, SoundCall, Call
<1>10. QED
  BY <1>4, <1>7, <1>8, <1>9 DEF Follows

LEMMA WithEngineMade ==
  ASSUME NEW s, SoundCall(s), NEW k \in Engine, k.journal = s.eng.journal,
         \A h \in HandleIds : k.handle[h] = s.eng.handle[h] \/ k.handle[h] = Closed,
         NEW c, c = [s EXCEPT !.eng = k]
  PROVE  Reaches(s, c, 0) /\ c.fs = s.fs /\ c.eng = k /\ c.ok = s.ok
<1>1. s \in Call
  BY DEF SoundCall
<1>2. c.fs = s.fs /\ c.eng = k /\ c.ok = s.ok /\ c \in Call
  BY <1>1 DEF Call
<1>3. Outcome(s.fs, s.eng, s.fs, k, 0)
  BY CloseSound DEF SoundCall
<1>4. QED
  BY <1>2, <1>3 DEF Made, Reaches

LEMMA CloseCoreMade ==
  ASSUME NEW s, SoundCall(s), NEW core \in Cores, NEW c,
         c = [s EXCEPT !.eng = CloseCore(s.eng, core)]
  PROVE  Reaches(s, c, 0) /\ c.fs = s.fs /\ c.ok = s.ok
<1>1. PICK e \in Engine : e = s.eng
  BY DEF SoundCall, Sound
<1>2. PICK k : k = CloseCore(e, core)
  OBVIOUS
<1> DEFINE H == [h \in HandleIds |-> IF h[1] = core THEN Closed ELSE e.handle[h]]
<1>3. k = [journal |-> e.journal, open |-> e.open, handle |-> H]
  BY <1>2 DEF CloseCore, Engine
<1>4. Closed \in [inode : Inodes \cup {0}, view : SUBSET Records]
  BY DEF Closed
<1>5. H \in [HandleIds -> [inode : Inodes \cup {0}, view : SUBSET Records]]
  BY <1>4 DEF Engine
<1>6. \A h \in HandleIds : H[h] = e.handle[h] \/ H[h] = Closed
  OBVIOUS
<1> HIDE DEF H
<1>7. k \in Engine /\ k.journal = e.journal /\ k.handle = H
  BY <1>3, <1>5 DEF Engine
<1>8. QED
  BY <1>1, <1>2, <1>6, <1>7, WithEngineMade

LEMMA DatabaseForRouteReaches ==
  ASSUME NEW s, SoundCall(s), TargetInv, NEW core \in Cores,
         NEW n \in Nat, Cardinality(ReplayedPaths(s.fs, core)) <= n, Room(s.fs, s.eng, n)
  PROVE  Reaches(s, DatabaseForRoute(s, core), n)
<1>1. PICK c : c = DatabaseForRoute(s, core)
  OBVIOUS
<1>2. CASE core \in s.eng.open
  <2>1. c = s
    BY <1>1, <1>2 DEF DatabaseForRoute
  <2>2. QED
    BY <1>1, <2>1, MadeSame DEF Reaches
<1>3. CASE core \notin s.eng.open
  <2>1. PICK o : o = OpenDatabase(s, core)
    OBVIOUS
  <2>2. Reaches(s, o, n) /\ SoundCall(o)
    BY <2>1, OpenDatabaseFollows, MadeSound DEF Follows, Reaches
  <2>3. Reaches(o, c, 0)
    <3>1. CASE o.ok
      <4>1. PICK e \in Engine : e = o.eng
        BY <2>2 DEF SoundCall, Sound
      <4>2. PICK k : k = [e EXCEPT !.open = e.open \cup {core}]
        OBVIOUS
      <4>3. /\ k = [journal |-> e.journal, open |-> e.open \cup {core}, handle |-> e.handle]
            /\ k.journal = e.journal /\ k.handle = e.handle
        BY <4>2 DEF Engine
      <4>4. k \in Engine
        BY <4>3 DEF Engine
      <4>5. c = [o EXCEPT !.eng = k]
        BY <1>1, <1>3, <2>1, <2>2, <3>1, <4>1, <4>2 DEF DatabaseForRoute, SoundCall, Call
      <4>6. QED
        BY <2>2, <4>1, <4>3, <4>4, <4>5, WithEngineMade
    <3>2. CASE ~o.ok
      <4>1. c = [o EXCEPT !.eng = CloseCore(o.eng, core)]
        BY <1>1, <1>3, <2>1, <2>2, <3>2 DEF DatabaseForRoute, SoundCall, Call
      <4>2. QED
        BY <2>2, <4>1, CloseCoreMade
    <3>3. QED
      BY <3>1, <3>2
  <2>4. Reaches(s, c, n + 0)
    BY <2>2, <2>3, ReachesBoth
  <2>5. QED
    BY <1>1, <2>4
<1>4. QED
  BY <1>2, <1>3

LEMMA FreshDatabaseReaches ==
  ASSUME NEW s, SoundCall(s), TargetInv, NEW core \in Cores,
         NEW n \in Nat, Cardinality(ReplayedPaths(s.fs, core)) <= n, Room(s.fs, s.eng, n)
  PROVE  Reaches(s, FreshDatabase(s, core), n)
<1>1. PICK c : c = [s EXCEPT !.eng = CloseCore(s.eng, core)]
  OBVIOUS
<1>2. Reaches(s, c, 0) /\ c.fs = s.fs
  BY <1>1, CloseCoreMade
<1>3. SoundCall(c) /\ Room(c.fs, c.eng, n)
  <2>1. Room(s.fs, s.eng, 0 + n)
    OBVIOUS
  <2>2. QED
    BY <1>2, <2>1, MadeRoom, MadeSound DEF Reaches
<1>4. Reaches(c, OpenDatabase(c, core), n)
  BY <1>2, <1>3, OpenDatabaseFollows DEF Follows, Reaches
<1>5. FreshDatabase(s, core) = OpenDatabase(c, core)
  BY <1>1 DEF FreshDatabase, SoundCall, Call
<1>6. Reaches(s, OpenDatabase(c, core), 0 + n)
  BY <1>2, <1>4, ReachesBoth
<1>7. QED
  BY <1>5, <1>6

LEMMA DatabaseOfReaches ==
  ASSUME NEW s, SoundCall(s), TargetInv, NEW d, d.core \in Cores,
         NEW n \in Nat, Cardinality(ReplayedPaths(s.fs, d.core)) <= n, Room(s.fs, s.eng, n)
  PROVE  Reaches(s, DatabaseOf(s, d), n)
<1>1. Reaches(s, FreshDatabase(s, d.core), n)
  BY FreshDatabaseReaches
<1>2. Reaches(s, DatabaseForRoute(s, d.core), n)
  BY DatabaseForRouteReaches
<1>3. QED
  BY <1>1, <1>2 DEF DatabaseOf

LEMMA FlushCheckpointMade ==
  ASSUME NEW s, SoundCall(s), NEW core \in Cores, Room(s.fs, s.eng, 1)
  PROVE  LET c == FlushCheckpoint(s, core)
         IN  Made(s, c, 1) /\ c.ok = s.ok
<1>1. PICK c : c = FlushCheckpoint(s, core)
  OBVIOUS
<1>2. CASE ~s.ok
  <2>1. c = s
    BY <1>1, <1>2 DEF FlushCheckpoint
  <2>2. QED
    BY <1>1, <2>1, MadeSame
<1>3. CASE s.ok
  <2>1. PICK g : g = EnsureDir(s.fs, core)
    OBVIOUS
  <2>2. Outcome(s.fs, s.eng, g, s.eng, 0) /\ core \in g.dirs /\ Sound(s.fs, s.eng)
    BY <2>1, EnsureDirSound DEF SoundCall
  <2>3. Sound(g, s.eng) /\ Room(g, s.eng, 1)
    <3>1. Room(s.fs, s.eng, 0 + 1)
      OBVIOUS
    <3>2. QED
      BY <2>2, <3>1, FewInodes DEF Outcome
  <2>4. LogOf(core) \in Paths /\ Up(LogOf(core)) = core
    BY FilePaths DEF Paths
  <2>5. PICK f : f = OpenOrCreate(g, s.eng, LogOf(core))
    OBVIOUS
  <2>6. Outcome(g, s.eng, f, s.eng, 1)
    BY <2>2, <2>3, <2>4, <2>5, CreateSound
  <2>7. Outcome(s.fs, s.eng, f, s.eng, 0 + 1)
    BY <2>2, <2>6, OutcomeBoth
  <2>8. PICK k : k = [s EXCEPT !.fs = f]
    OBVIOUS
  <2>9. Reaches(s, k, 0 + 1) /\ k.ok = s.ok
    BY <2>7, <2>8, WithFsMade
  <2>10. c = CutLog(k, core)
    BY <1>1, <1>3, <2>1, <2>5, <2>8 DEF FlushCheckpoint, SoundCall, Call
  <2>11. SoundCall(k)
    BY <2>9, MadeSound DEF Reaches
  <2>12. Made(k, c, 0) /\ c.ok = k.ok
    BY <2>10, <2>11, CutLogMade
  <2>13. Made(s, c, (0 + 1) + 0)
    BY <2>9, <2>12, MadeBoth DEF Reaches
  <2>14. QED
    BY <1>1, <2>9, <2>12, <2>13
<1>4. QED
  BY <1>2, <1>3

(* Where a command is sent.                                                *)
LEMMA DestinedIs ==
  ASSUME NEW d, Destined(d)
  PROVE  /\ d.core \in Cores /\ d.file \in Files /\ <<d.core, d.file>> \in HandleIds
         /\ \A r \in Records : target[r] = Target(d) => Loggable(d.core, r)
<1>1. d.core \in Cores /\ d.file \in Files
  BY DEF Destined
<1>2. d.file # <<>>
  BY <1>1, FilePaths DEF Paths
<1>3. ASSUME NEW r \in Records, target[r] = Target(d)
      PROVE  target[r] # NoTarget /\ target[r].core = d.core /\ target[r].file = d.file
  BY <1>2, <1>3 DEF Target, NoTarget
<1>4. CASE d.core = <<>>
  BY <1>1, <1>3, <1>4, HandlePaths DEF Loggable
<1>5. CASE d.core # <<>>
  <2>1. PICK w \in Drawers : d.file = Append(d.core, w)
    BY <1>5 DEF Destined
  <2>2. d.core \in DataDirs
    BY <1>1, <1>5 DEF Cores
  <2>3. PICK c \in Seq(Segment) : c = d.core
    BY <1>1, DataPaths
  <2>4. w \in Segment
    BY NamedPaths
  <2>5. SubSeq(Append(c, w), Len(c) + 1, Len(Append(c, w))) = <<w>>
    <3>1. Len(Append(c, w)) = Len(c) + 1 /\ Append(c, w)[Len(c) + 1] = w
      BY <2>4
    <3>2. SubSeq(Append(c, w), Len(c) + 1, Len(c) + 1)
            = [i \in 1 .. 1 |-> Append(c, w)[Len(c) + 1]]
      BY <2>4, <3>1
    <3>3. [i \in 1 .. 1 |-> w] = <<w>>
      OBVIOUS
    <3>4. QED
      BY <3>1, <3>2, <3>3
  <2>6. Relative(d.core, d.file) = <<w>>
    BY <2>1, <2>3, <2>5 DEF Relative
  <2>7. QED
    BY <1>1, <1>3, <1>5, <2>1, <2>2, <2>6, HandlePaths DEF Loggable, Portable
<1>6. QED
  BY <1>4, <1>5

(* The whole call: what is on the disk stays there, and a call that does    *)
(* not fail puts the record in the linked file, unless a drop or a restore  *)
(* unlinked that while a handle was open.                                   *)
LEMMA ExecuteSound ==
  ASSUME NEW s, SoundCall(s), s.ok, TargetInv, NEW d, Destined(d), NEW r \in Records,
         target[r] = Target(d), NEW checkpoint \in BOOLEAN,
         NEW m \in Nat, Cardinality(ReplayedPaths(s.fs, d.core)) = m,
         Room(s.fs, s.eng, 3 + m)
  PROVE  LET c == ExecuteInDatabase(s, d, r, checkpoint)
         IN  /\ Made(s, c, 3 + m)
             /\ c.ok /\ d.file \notin cut =>
                  c.fs.file[d.file] # 0 /\ r \in c.fs.content[c.fs.file[d.file]]
<1>1. PICK core \in Cores : core = d.core
  BY DestinedIs
<1>2. PICK path \in Files : path = d.file
  BY DestinedIs
<1>3. <<core, path>> \in HandleIds /\ Loggable(core, r) /\ path \in Paths
  BY <1>1, <1>2, DestinedIs DEF Paths
<1>4. PICK s1 : s1 = OpenJournal(s, core)
  OBVIOUS
<1>5. Room(s.fs, s.eng, 1) /\ Room(s.fs, s.eng, 1 + (m + 2))
  <2>1. Cardinality(Inodes \ InUse(s.fs, s.eng)) \in Nat
    BY CatalogAssumption, FS_Subset, FS_CardinalityType
  <2>2. QED
    BY <2>1 DEF Room
<1>6. /\ Made(s, s1, 1) /\ s1.eng.journal[core] \in Inodes
      /\ LogRecords(s1.fs, core) \subseteq LogRecords(s.fs, core)
  BY <1>4, <1>5, OpenJournalMade
<1>7. SoundCall(s1) /\ Room(s1.fs, s1.eng, m + 2)
  BY <1>5, <1>6, MadeSound, MadeRoom
<1>8. Cardinality(ReplayedPaths(s1.fs, core)) <= m /\ Room(s1.fs, s1.eng, m)
  <2>1. ReplayedPaths(s1.fs, core) \subseteq ReplayedPaths(s.fs, core)
    BY <1>6 DEF ReplayedPaths
  <2>2. IsFiniteSet(ReplayedPaths(s.fs, core))
    BY ReplayedHandles DEF SoundCall
  <2>3. Cardinality(Inodes \ InUse(s1.fs, s1.eng)) \in Nat
    BY CatalogAssumption, FS_Subset, FS_CardinalityType
  <2>4. QED
    BY <1>1, <1>7, <2>1, <2>2, <2>3, FS_Subset DEF Room
<1>9. PICK s2 : s2 = DatabaseOf(s1, d)
  OBVIOUS
<1>10. Reaches(s1, s2, m)
  BY <1>1, <1>7, <1>8, <1>9, DatabaseOfReaches
<1>11. SoundCall(s2) /\ Room(s2.fs, s2.eng, 2) /\ Room(s2.fs, s2.eng, 1 + 1)
  BY <1>7, <1>10, MadeSound, MadeRoom DEF Reaches
<1>12. PICK s3 : s3 = LoadDrawer(s2, core, path)
  OBVIOUS
<1>13. /\ Made(s2, s3, 1) /\ s3.eng.journal = s2.eng.journal
       /\ s3.ok => s3.eng.handle[<<core, path>>].inode # 0
  <2>1. Room(s2.fs, s2.eng, 1)
    <3>1. Cardinality(Inodes \ InUse(s2.fs, s2.eng)) \in Nat
      BY CatalogAssumption, FS_Subset, FS_CardinalityType
    <3>2. QED
      BY <1>11, <3>1 DEF Room
  <2>2. QED
    BY <1>3, <1>11, <1>12, <2>1, LoadDrawerMade
<1>14. SoundCall(s3) /\ Room(s3.fs, s3.eng, 1)
  BY <1>11, <1>13, MadeSound, MadeRoom
<1>15. PICK s4 : s4 = Insert(s3, core, path, {r})
  OBVIOUS
<1>16. /\ Made(s3, s4, 0) /\ s4.eng.journal = s3.eng.journal /\ s4.ok = s3.ok
       /\ s3.ok => r \in s4.fs.content[s3.eng.handle[<<core, path>>].inode]
       /\ s4.fs.file = s3.fs.file
  <2>1. {r} \in SUBSET Records
    OBVIOUS
  <2>2. QED
    BY <1>3, <1>13, <1>14, <1>15, <2>1, InsertMade
<1>17. SoundCall(s4) /\ Room(s4.fs, s4.eng, 1)
  <2>1. Room(s3.fs, s3.eng, 0 + 1)
    BY <1>14
  <2>2. QED
    BY <1>16, <2>1, MadeSound, MadeRoom
<1>18. PICK s5 : s5 = LogOperation(s4, core, r)
  OBVIOUS
<1>19. Made(s4, s5, 0) /\ s5.ok = s4.ok
  BY <1>3, <1>6, <1>10, <1>13, <1>16, <1>17, <1>18, LogOperationMade DEF Reaches
<1>20. SoundCall(s5) /\ Room(s5.fs, s5.eng, 1)
  <2>1. Room(s4.fs, s4.eng, 0 + 1)
    BY <1>17
  <2>2. QED
    BY <1>19, <2>1, MadeSound, MadeRoom
<1>21. PICK s6 : s6 = IF checkpoint THEN FlushCheckpoint(s5, core) ELSE s5
  OBVIOUS
<1>22. Made(s5, s6, 1) /\ s6.ok = s5.ok
  BY <1>20, <1>21, FlushCheckpointMade, MadeSame
<1>23. SoundCall(s6)
  BY <1>22, MadeSound
<1>24. PICK s7 : s7 = ReleaseDatabase(s6, d)
  OBVIOUS
<1>25. Made(s6, s7, 0) /\ s7.ok = s6.ok
  <2>1. CASE d.kind = "tenant"
    <3>1. s7 = [s6 EXCEPT !.eng = CloseCore(s6.eng, core)]
      BY <1>1, <1>23, <1>24, <2>1 DEF ReleaseDatabase, SoundCall, Call
    <3>2. QED
      BY <1>23, <3>1, CloseCoreMade DEF Reaches
  <2>2. CASE d.kind # "tenant"
    BY <1>23, <1>24, <2>2, MadeSame DEF ReleaseDatabase
  <2>3. QED
    BY <2>1, <2>2
<1>26. s7 = ExecuteInDatabase(s, d, r, checkpoint)
  BY <1>1, <1>2, <1>4, <1>9, <1>12, <1>15, <1>18, <1>21, <1>24
     DEF ExecuteInDatabase, Written
<1>27. Made(s, s7, 3 + m) /\ Made(s4, s7, 1)
  <2>1. Made(s5, s7, 1 + 0)
    BY <1>20, <1>22, <1>25, MadeBoth
  <2>2. Made(s4, s7, 0 + 1)
    BY <1>17, <1>19, <2>1, MadeBoth
  <2>3. Made(s3, s7, 0 + 1)
    BY <1>14, <1>16, <2>2, MadeBoth
  <2>4. Made(s2, s7, 1 + 1)
    BY <1>11, <1>13, <2>3, MadeBoth
  <2>5. Made(s1, s7, m + 2)
    BY <1>7, <1>10, <2>4, MadeBoth DEF Reaches
  <2>6. Made(s, s7, 1 + (m + 2))
    BY <1>6, <2>5, MadeBoth
  <2>7. 1 + (m + 2) = 3 + m
    OBVIOUS
  <2>8. QED
    BY <2>2, <2>6, <2>7
<1>28. ASSUME s7.ok, path \notin cut
       PROVE  s7.fs.file[path] # 0 /\ r \in s7.fs.content[s7.fs.file[path]]
  <2>1. s3.ok
    BY <1>16, <1>19, <1>22, <1>25, <1>28
  <2>2. PICK i : i = s3.eng.handle[<<core, path>>].inode
    OBVIOUS
  <2>3. i # 0 /\ s3.fs.file[path] = i
    BY <1>3, <1>13, <1>14, <1>28, <2>1, <2>2 DEF SoundCall, Sound, Handled
  <2>4. s4.fs.file[path] = i /\ r \in s4.fs.content[i]
    BY <1>16, <2>1, <2>2, <2>3
  <2>5. s7.fs.file[path] = i /\ s4.fs.content[i] \subseteq s7.fs.content[i]
    BY <1>27, <2>3, <2>4 DEF Made, Outcome, Keeps
  <2>6. QED
    BY <2>3, <2>4, <2>5
<1>29. QED
  BY <1>2, <1>26, <1>27, <1>28

-----------------------------------------------------------------------------
(* Writing an archive's files back.                                        *)

Placed(f, e, g, n, F) == Sound(g, e) /\ Uses(f, e, g, e, n) /\ Keeps(f, g, F)
Puts(f, e, path, x) ==
  LET p == path \o x.rel
      h == OpenOrCreate(EnsureDir(f, Up(p)), e, p)
  IN [h EXCEPT !.content[h.file[p]] = x.recs]

LEMMA PutsPlaced ==
  ASSUME NEW f, NEW e, Sound(f, e), Room(f, e, 1), NEW path, NEW x,
         path \o x.rel \in Paths, x.recs \subseteq Records,
         path \o x.rel \in Logs =>
           Up(path \o x.rel) # <<>> /\ \A r \in x.recs : Portable(r)
  PROVE  Placed(f, e, Puts(f, e, path, x), 1, {path \o x.rel})
<1>1. PICK p \in Paths : p = path \o x.rel
  OBVIOUS
<1>2. PICK c \in SUBSET Records : c = x.recs
  OBVIOUS
<1>3. PICK k : k = EnsureDir(f, Up(p))
  OBVIOUS
<1>4. Outcome(f, e, k, e, 0) /\ Up(p) \in k.dirs /\ Up(p) \in Cores
  BY <1>3, FilePaths, EnsureDirSound
<1>5. Sound(k, e) /\ Room(k, e, 1)
  <2>1. Room(f, e, 0 + 1)
    OBVIOUS
  <2>2. QED
    BY <1>4, <2>1, FewInodes DEF Outcome
<1>6. PICK h : h = OpenOrCreate(k, e, p)
  OBVIOUS
<1>7. Outcome(k, e, h, e, 1) /\ h.file[p] \in Inodes
  BY <1>4, <1>5, <1>6, CreateSound
<1>8. PICK i \in Inodes : h.file[p] = i
  BY <1>7
<1>9. PICK g : g = Filled(h, i, c)
  OBVIOUS
<1>10. p \in Logs => \A r \in c : Loggable(Up(p), r)
  BY <1>1, <1>2 DEF Loggable
<1>11. Sound(g, e) /\ Uses(h, e, g, e, 0) /\ Keeps(h, g, {p})
  BY <1>7, <1>8, <1>9, <1>10, ReplaceSound DEF Outcome
<1>12. Outcome(f, e, h, e, 0 + 1)
  BY <1>4, <1>7, OutcomeBoth
<1>13. Uses(f, e, g, e, (0 + 1) + 0)
  BY <1>11, <1>12, UsesBoth DEF Outcome
<1>14. Keeps(f, g, {} \cup {p})
  <2>1. f \in FileSystem /\ h \in FileSystem /\ Keeps(f, h, {})
    BY <1>12 DEF Outcome, Sound
  <2>2. QED
    BY <1>11, <2>1, KeepsBoth
<1>15. {} \cup {p} = {path \o x.rel} /\ (0 + 1) + 0 = 1
  BY <1>1
<1>16. g = Puts(f, e, path, x)
  BY <1>1, <1>2, <1>3, <1>6, <1>8, <1>9 DEF Puts, Filled
<1>17. QED
  BY <1>11, <1>13, <1>14, <1>15, <1>16 DEF Placed

IsPut(g, f, e, path, D) ==
  g = [X \in D |->
         IF X = {} THEN f ELSE Puts(g[X \ {Some(X)}], e, path, Some(X))]

LEMMA PutExists ==
  ASSUME NEW f, NEW e, NEW path, NEW files, IsFiniteSet(files)
  PROVE  \E g : IsPut(g, f, e, path, SUBSET files)
<1> DEFINE Bad == {n \in Nat : ~\E g : IsPut(g, f, e, path, Sized(files, n))}
<1>1. \A X \in SUBSET files : IsFiniteSet(X) /\ Cardinality(X) \in Nat
  BY FS_Subset, FS_CardinalityType
<1>2. ASSUME Bad # {}
      PROVE  FALSE
  <2>1. PICK n \in Bad : \A m \in Bad : n <= m
    <3> HIDE DEF Bad
    <3>1. Bad \in SUBSET Nat
      BY DEF Bad
    <3>2. QED
      BY <1>2, <3>1, LeastExists
  <2>2. n \in Nat /\ ~\E g : IsPut(g, f, e, path, Sized(files, n))
    OBVIOUS
  <2>3. CASE n = 0
    <3>1. \A X \in Sized(files, n) : X = {}
      <4>1. ASSUME NEW X \in Sized(files, n)
            PROVE  X = {}
        <5>1. Cardinality(X) = 0 /\ IsFiniteSet(X)
          BY <1>1, <2>3 DEF Sized
        <5>2. QED
          BY <5>1, FS_EmptySet
      <4>2. QED
        BY <4>1
    <3>2. PICK g : g = [X \in Sized(files, n) |-> f]
      OBVIOUS
    <3>3. IsPut(g, f, e, path, Sized(files, n))
      BY <3>1, <3>2 DEF IsPut
    <3>4. QED
      BY <2>2, <3>3
  <2>4. CASE n # 0
    <3>1. n - 1 \in Nat /\ n - 1 < n
      BY <2>2, <2>4
    <3>2. n - 1 \notin Bad
      BY <2>1, <3>1
    <3>3. PICK h : IsPut(h, f, e, path, Sized(files, n - 1))
      BY <3>1, <3>2
    <3>4. PICK g : g = [X \in Sized(files, n) |->
                         IF X = {} THEN f
                         ELSE Puts(h[X \ {Some(X)}], e, path, Some(X))]
      OBVIOUS
    <3>5. ASSUME NEW Y \in Sized(files, n - 1)
          PROVE  g[Y] = h[Y]
      <4>1. Y \in Sized(files, n)
        BY <1>1, <2>2, <3>1 DEF Sized
      <4>2. QED
        BY <3>3, <3>4, <4>1 DEF IsPut
    <3>6. ASSUME NEW X \in Sized(files, n), X # {}
          PROVE  X \ {Some(X)} \in Sized(files, n - 1)
      <4>1. IsFiniteSet(X) /\ X \ {Some(X)} \in SUBSET files /\ Cardinality(X) <= n
        BY <1>1 DEF Sized
      <4>2. Cardinality(X) = Cardinality(X \ {Some(X)}) + 1 /\ Cardinality(X \ {Some(X)}) \in Nat
        BY <3>6, <4>1, OneFewer
      <4>3. QED
        BY <2>2, <4>1, <4>2 DEF Sized
    <3>7. \A X \in Sized(files, n) : X # {} => g[X \ {Some(X)}] = h[X \ {Some(X)}]
      BY <3>5, <3>6
    <3>8. IsPut(g, f, e, path, Sized(files, n))
      BY <3>4, <3>7 DEF IsPut
    <3>9. QED
      BY <2>2, <3>8
  <2>5. QED
    BY <2>3, <2>4
<1>3. Cardinality(files) \in Nat
  BY FS_CardinalityType
<1>4. PICK g : IsPut(g, f, e, path, Sized(files, Cardinality(files)))
  BY <1>2, <1>3
<1>5. Sized(files, Cardinality(files)) = SUBSET files
  <2>1. ASSUME NEW X \in SUBSET files
        PROVE  Cardinality(X) <= Cardinality(files)
    BY FS_Subset
  <2>2. QED
    BY <2>1 DEF Sized
<1>6. QED
  BY <1>4, <1>5

PathsOf(path, X) == {path \o x.rel : x \in X}

LEMMA PutPlaced ==
  ASSUME NEW f, NEW e, Sound(f, e), NEW path, NEW files, Restored(path, files),
         Room(f, e, Cardinality(files)),
         NEW g, IsPut(g, f, e, path, SUBSET files)
  PROVE  Placed(f, e, g[files], Cardinality(files), PathsOf(path, files))
<1> DEFINE Bad == {n \in Nat : \E X \in SUBSET files :
                     n = Cardinality(X) /\ ~Placed(f, e, g[X], n, PathsOf(path, X))}
<1>1. \A X \in SUBSET files : /\ IsFiniteSet(X) /\ Cardinality(X) \in Nat
                              /\ Cardinality(X) <= Cardinality(files)
  BY FS_Subset, FS_CardinalityType DEF Restored
<1>2. ASSUME Bad # {}
      PROVE  FALSE
  <2>1. PICK n \in Bad : \A m \in Bad : n <= m
    <3> HIDE DEF Bad
    <3>1. Bad \in SUBSET Nat
      BY DEF Bad
    <3>2. QED
      BY <1>2, <3>1, LeastExists
  <2>2. PICK X \in SUBSET files :
          n = Cardinality(X) /\ ~Placed(f, e, g[X], n, PathsOf(path, X))
    OBVIOUS
  <2>3. n \in Nat /\ IsFiniteSet(X) /\ n <= Cardinality(files)
    BY <1>1, <2>2
  <2>4. CASE X = {}
    <3>1. g[X] = f
      BY <2>4 DEF IsPut
    <3>2. Uses(f, e, f, e, n) /\ Keeps(f, f, PathsOf(path, X))
      BY <2>3, UsesSame DEF Keeps
    <3>3. QED
      BY <2>2, <3>1, <3>2 DEF Placed
  <2>5. CASE X # {}
    <3>1. PICK x : x = Some(X)
      OBVIOUS
    <3>2. PICK Y : Y = X \ {x}
      OBVIOUS
    <3>3. PICK m : m = Cardinality(Y)
      OBVIOUS
    <3>4. x \in X /\ m \in Nat /\ n = m + 1
      BY <2>2, <2>3, <2>5, <3>1, <3>2, <3>3, OneFewer
    <3>5. Y \in SUBSET files /\ x \in files
      BY <2>2, <3>2, <3>4
    <3>6. m \notin Bad
      <4> HIDE DEF Bad
      <4>1. ~(n <= m)
        BY <3>4
      <4>2. QED
        BY <2>1, <4>1
    <3>7. Placed(f, e, g[Y], m, PathsOf(path, Y))
      BY <3>3, <3>4, <3>5, <3>6
    <3>8. PICK k : k = g[Y]
      OBVIOUS
    <3>9. Sound(k, e) /\ Uses(f, e, k, e, m) /\ Keeps(f, k, PathsOf(path, Y))
      BY <3>7, <3>8 DEF Placed
    <3>10. Room(f, e, m + 1)
      <4>1. Cardinality(files) \in Nat /\ Cardinality(Inodes \ InUse(f, e)) \in Nat
        BY <1>1, CatalogAssumption, FS_Subset, FS_CardinalityType
      <4>2. QED
        BY <2>3, <3>4, <4>1 DEF Room
    <3>11. Room(k, e, 1)
      BY <3>4, <3>9, <3>10, FewInodes
    <3>12. PICK h : h = Puts(k, e, path, x)
      OBVIOUS
    <3>13. Placed(k, e, h, 1, {path \o x.rel})
      <4>1. /\ path \o x.rel \in Paths /\ x.recs \subseteq Records
            /\ path \o x.rel \in Logs =>
                 Up(path \o x.rel) # <<>> /\ \A r \in x.recs : Portable(r)
        BY <3>5 DEF Restored
      <4>2. QED
        BY <3>9, <3>11, <3>12, <4>1, PutsPlaced
    <3>14. g[X] = h
      BY <2>5, <3>1, <3>2, <3>8, <3>12 DEF IsPut
    <3>15. Uses(f, e, h, e, m + 1)
      BY <3>4, <3>9, <3>13, UsesBoth DEF Placed
    <3>16. Keeps(f, h, PathsOf(path, Y) \cup {path \o x.rel})
      <4>1. f \in FileSystem /\ k \in FileSystem
        BY <3>9 DEF Sound
      <4>2. QED
        BY <3>9, <3>13, <4>1, KeepsBoth DEF Placed
    <3>17. PathsOf(path, Y) \cup {path \o x.rel} = PathsOf(path, X)
      BY <3>2, <3>4 DEF PathsOf
    <3>18. QED
      BY <2>2, <3>4, <3>13, <3>14, <3>15, <3>16, <3>17 DEF Placed
  <2>6. QED
    BY <2>4, <2>5
<1>3. Cardinality(files) \notin Bad
  BY <1>2
<1>4. QED
  BY <1>1, <1>3

-----------------------------------------------------------------------------
(* Removing files.                                                         *)

LEMMA RemovedPlaced ==
  ASSUME NEW f, NEW e, Sound(f, e), NEW g \in FileSystem, g.content = f.content,
         \A p \in Paths : g.file[p] = f.file[p] \/ g.file[p] = 0, InPlace(g),
         NEW F, \A p \in Files \ F : g.file[p] = f.file[p]
  PROVE  /\ OneUse(g, e) /\ Logged(g) /\ Keeps(f, g, F)
<1>1. 0 \notin Inodes /\ f \in FileSystem
  BY CatalogAssumption DEF Sound
<1>2. OneUse(g, e)
  <2>1. ASSUME NEW i \in Inodes, NEW p \in Paths, UsedFor(g, e, i, p)
        PROVE  UsedFor(f, e, i, p)
    BY <1>1, <2>1 DEF UsedFor
  <2>2. QED
    BY <2>1 DEF OneUse, Sound
<1>3. Logged(g)
  <2>1. ASSUME NEW d \in Cores
        PROVE  LogRecords(g, d) \subseteq LogRecords(f, d)
    <3>1. LogOf(d) \in Paths
      BY FilePaths DEF Paths
    <3>2. QED
      BY <3>1 DEF LogRecords
  <2>2. QED
    BY <2>1 DEF Logged, Sound
<1>4. Keeps(f, g, F)
  BY DEF Keeps
<1>5. QED
  BY <1>2, <1>3, <1>4

LEMMA RemoveFilesIs ==
  ASSUME NEW f, NEW e, Sound(f, e), NEW F \in SUBSET Files, NEW g, g = RemoveFiles(f, F)
  PROVE  /\ g \in FileSystem /\ g.content = f.content /\ InPlace(g)
         /\ \A p \in Paths : g.file[p] = IF p \in F THEN 0 ELSE f.file[p]
<1>1. f \in FileSystem /\ InPlace(f)
  BY DEF Sound
<1> DEFINE H == [p \in Paths |-> IF p \in F THEN 0 ELSE f.file[p]]
<1>2. H \in [Paths -> Inodes \cup {0}]
  BY <1>1 DEF FileSystem
<1>3. g = [dirs |-> f.dirs, file |-> H, content |-> f.content]
  BY <1>1 DEF RemoveFiles, FileSystem
<1>4. \A p \in Paths : H[p] = IF p \in F THEN 0 ELSE f.file[p]
  OBVIOUS
<1> HIDE DEF H
<1>5. g \in FileSystem /\ g.content = f.content /\ g.file = H /\ g.dirs = f.dirs
  BY <1>1, <1>2, <1>3 DEF FileSystem
<1>6. QED
  BY <1>1, <1>4, <1>5 DEF InPlace

LEMMA RemoveTreeIs ==
  ASSUME NEW f, NEW e, Sound(f, e), NEW dir \in Seq(Segment),
         NEW g, g = RemoveTree(f, dir)
  PROVE  /\ g \in FileSystem /\ g.content = f.content /\ InPlace(g)
         /\ \A p \in Paths : g.file[p] = IF Below(p, dir) THEN 0 ELSE f.file[p]
<1>1. f \in FileSystem /\ InPlace(f)
  BY DEF Sound
<1> DEFINE H == [p \in Paths |-> IF Below(p, dir) THEN 0 ELSE f.file[p]]
           D == {p \in f.dirs : ~IsUnder(p, dir)}
<1>2. H \in [Paths -> Inodes \cup {0}] /\ D \in SUBSET Dirs
  BY <1>1 DEF FileSystem
<1>3. g = [dirs |-> D, file |-> H, content |-> f.content]
  BY <1>1 DEF RemoveTree, FileSystem
<1>4. \A p \in Paths : H[p] = IF Below(p, dir) THEN 0 ELSE f.file[p]
  OBVIOUS
<1>5. \A p : p \in D <=> p \in f.dirs /\ ~IsUnder(p, dir)
  OBVIOUS
<1> HIDE DEF H, D
<1>6. g \in FileSystem /\ g.content = f.content /\ g.file = H /\ g.dirs = D
  BY <1>1, <1>2, <1>3 DEF FileSystem
<1>7. ASSUME NEW p \in g.dirs
      PROVE  DirsOf(p) \subseteq g.dirs
  <2>1. p \in f.dirs /\ ~IsUnder(p, dir) /\ DirsOf(p) \subseteq f.dirs
    BY <1>1, <1>5, <1>6 DEF InPlace
  <2>2. p \in Seq(Segment)
    BY <1>1, <2>1, DirPaths DEF FileSystem
  <2>3. \A q \in DirsOf(p) : ~IsUnder(q, dir)
    BY <2>1, <2>2, DirsNest
  <2>4. QED
    BY <1>5, <1>6, <2>1, <2>3
<1>8. \A p \in Paths : g.file[p] # 0 => Up(p) \in g.dirs
  BY <1>1, <1>4, <1>5, <1>6 DEF InPlace, Below
<1>9. QED
  BY <1>4, <1>6, <1>7, <1>8 DEF InPlace

-----------------------------------------------------------------------------
(* What a step leaves alone.                                               *)

TargetGrows == \A r \in Records : target[r] # NoTarget => target'[r] = target[r]

LEMMA TargetSame ==
  ASSUME target' = target
  PROVE  TargetGrows
BY DEF TargetGrows

LEMMA PortableStays ==
  ASSUME TargetGrows, NEW r \in Records
  PROVE  /\ Portable(r) => Portable(r)'
         /\ \A d \in Cores : Loggable(d, r) => Loggable(d, r)'
BY DEF TargetGrows, Portable, Loggable

LEMMA SoundStays ==
  ASSUME TargetGrows, cut \subseteq cut', NEW f, NEW e, Sound(f, e), f = fs', e = eng'
  PROVE  Sound(fs, eng)'
<1>1. f \in FileSystem /\ e \in Engine /\ OneUse(f, e) /\ InPlace(f) /\ Handled(f, e) /\ Logged(f)
  BY DEF Sound
<1>2. (fs \in FileSystem)' /\ (eng \in Engine)'
  BY <1>1
<1>3. OneUse(fs, eng)'
  BY <1>1 DEF OneUse, UsedFor
<1>4. InPlace(fs)'
  BY <1>1 DEF InPlace
<1>5. Handled(fs, eng)'
  BY <1>1 DEF Handled
<1>6. Logged(fs)'
  <2>1. ASSUME NEW d \in Cores, NEW r \in LogRecords(f, d)
        PROVE  Loggable(d, r)'
    <3>1. Loggable(d, r) /\ LogOf(d) \in Paths
      BY <1>1, FilePaths DEF Logged, Paths
    <3>2. r \in Records
      BY <1>1, <3>1, FileValues DEF LogRecords
    <3>3. QED
      BY <3>1, <3>2, PortableStays
  <2>2. \A d \in Cores : LogRecords(fs, d)' = LogRecords(f, d)
    BY DEF LogRecords
  <2>3. QED
    BY <2>1, <2>2 DEF Logged
<1>7. QED
  BY <1>2, <1>3, <1>4, <1>5, <1>6 DEF Sound

LEMMA SoundSame ==
  ASSUME Sound(fs, eng), TargetGrows, UNCHANGED <<fs, eng, cut>>
  PROVE  Sound(fs, eng)'
<1>1. PICK f : f = fs
  OBVIOUS
<1>2. PICK e : e = eng
  OBVIOUS
<1>3. Sound(f, e) /\ f = fs' /\ e = eng' /\ cut \subseteq cut'
  BY <1>1, <1>2
<1>4. QED
  BY <1>3, SoundStays

LEMMA ArchivedStays ==
  ASSUME TargetGrows, NEW n, NEW X, Archived(n, X)
  PROVE  Archived(n, X)'
<1>1. \A x \in X : IsLog(x.rel) => \A r \in x.recs : Portable(r)'
  BY PortableStays DEF Archived
<1>2. QED
  BY <1>1 DEF Archived

LEMMA RestoredStays ==
  ASSUME TargetGrows, NEW path, NEW X, Restored(path, X)
  PROVE  Restored(path, X)'
<1>1. ASSUME NEW x \in X, path \o x.rel \in Logs
      PROVE  Up(path \o x.rel) # <<>> /\ \A r \in x.recs : Portable(r)'
  BY <1>1, PortableStays DEF Restored
<1>2. QED
  BY <1>1 DEF Restored

\* What pc[t] may be, of a thread that is not running.
Running(t) ==
  /\ pc[t].phase \in {"run", "ack"}
  /\ pc[t] = [phase |-> pc[t].phase, rec |-> pc[t].rec, to |-> pc[t].to]
  /\ pc[t].rec \in Records /\ Destined(pc[t].to)
  /\ target[pc[t].rec] = Target(pc[t].to)
  /\ pc[t].to.implicit => pc[t].to.name # <<>>
  /\ pc[t].to.implicit \in BOOLEAN

LEMMA ThreadStays ==
  ASSUME TargetGrows, NEW t, ThreadInv(t), pc'[t] = pc[t]
  PROVE  ThreadInv(t)'
<1>1. CASE pc[t] = Idle
  BY <1>1 DEF ThreadInv
<1>2. CASE Running(t)
  <2>1. target[pc[t].rec] # NoTarget
    <3>1. pc[t].to.file # <<>>
      BY <1>2, DestinedIs, FilePaths DEF Running, Paths
    <3>2. QED
      BY <1>2, <3>1 DEF Running, Target, NoTarget
  <2>2. target'[pc[t].rec] = target[pc[t].rec]
    BY <1>2, <2>1 DEF Running, TargetGrows
  <2>3. QED
    BY <1>2, <2>2 DEF Running, ThreadInv
<1>3. CASE pc[t].phase \in {"create", "register", "files", "drop", "unregister"} /\ ~Running(t)
  BY <1>3 DEF ThreadInv, Running, Idle
<1>4. CASE pc[t].phase = "backup"
  <2>1. PICK n : n = Len(pc[t].path)
    OBVIOUS
  <2>2. PICK X : X = pc[t].got
    OBVIOUS
  <2>3. Archived(n, X)
    BY <1>4, <2>1, <2>2 DEF ThreadInv, Idle
  <2>4. Archived(n, X)'
    BY <2>3, ArchivedStays
  <2>5. QED
    BY <1>4, <2>1, <2>2, <2>4 DEF ThreadInv, Idle
<1>5. CASE pc[t].phase \in {"clear", "write", "catalog"}
  <2>1. PICK p : p = pc[t].path
    OBVIOUS
  <2>2. PICK X : X = pc[t].files
    OBVIOUS
  <2>3. Restored(p, X)
    BY <1>5, <2>1, <2>2 DEF ThreadInv, Idle
  <2>4. Restored(p, X)'
    BY <2>3, RestoredStays
  <2>5. QED
    BY <1>5, <2>1, <2>2, <2>4 DEF ThreadInv, Idle
<1>6. QED
  BY <1>1, <1>2, <1>3, <1>4, <1>5 DEF ThreadInv, Running

\* The parts of the invariant that are about what is to last.
LEMMA SavedStays ==
  ASSUME TargetInv, SavedInv, TargetGrows, excused \subseteq excused',
         NEW F, Keeps(fs, fs', F), \A r \in Records : target[r].file \in F => r \in excused',
         \A r \in Records \ excused' : Answered(r)' => Answered(r)
  PROVE  SavedInv'
<1>1. ASSUME NEW r \in Records \ excused', Answered(r)'
      PROVE  /\ target'[r] # NoTarget
             /\ fs'.file[target'[r].file] # 0
             /\ r \in fs'.content[fs'.file[target'[r].file]]
  <2>1. Answered(r) /\ r \in Records \ excused
    BY <1>1
  <2>2. /\ target[r] # NoTarget
        /\ fs.file[target[r].file] # 0
        /\ r \in fs.content[fs.file[target[r].file]]
    BY <2>1 DEF SavedInv
  <2>3. target'[r] = target[r] /\ target[r].file \in Files \ F
    BY <1>1, <2>2 DEF TargetGrows, TargetInv, Destined
  <2>4. QED
    BY <2>2, <2>3 DEF Keeps
<1>2. QED
  BY <1>1 DEF SavedInv

LEMMA SavedSame ==
  ASSUME TargetInv, SavedInv, TargetGrows, excused \subseteq excused', fs' = fs,
         \A r \in Records \ excused' : Answered(r)' => Answered(r)
  PROVE  SavedInv'
<1>1. Keeps(fs, fs', {})
  BY DEF Keeps
<1>2. QED
  BY <1>1, SavedStays

\* A thread that does something else than a write, a record answered, or
\* catalogued, was before.
LEMMA AnsweredStays ==
  ASSUME NEW t \in Threads, \A u \in Threads \ {t} : pc'[u] = pc[u], acked' = acked,
         pc'[t].phase \notin {"run", "ack"}
  PROVE  \A r \in Records : /\ Answered(r)' => Answered(r)
                            /\ Catalogued(r)' => Catalogued(r)
BY DEF Answered, Catalogued

LEMMA NamedStays ==
  ASSUME NamedInv, SavedInv, TargetGrows, excused \subseteq excused',
         \A r \in Records \ excused' : Catalogued(r)' => Catalogued(r),
         \A r \in Records \ excused' : target[r] # NoTarget /\ target'[r].name \in registry.drawers =>
                               target'[r].name \in registry'.drawers,
         \A r \in Records \ excused : Catalogued(r) => target[r] # NoTarget
  PROVE  NamedInv'
BY DEF NamedInv, TargetGrows

LEMMA CataloguedHaveTargets ==
  ASSUME TypeInv, SavedInv
  PROVE  \A r \in Records \ excused : Catalogued(r) => target[r] # NoTarget
<1>1. ASSUME NEW t \in Threads, pc[t].phase \in {"run", "ack"}
      PROVE  target[pc[t].rec] # NoTarget
  <2>1. Running(t)
    BY <1>1 DEF TypeInv, ThreadInv, Running, Idle
  <2>2. pc[t].to.file # <<>>
    BY <2>1, DestinedIs, FilePaths DEF Running, Paths
  <2>3. QED
    BY <2>1, <2>2 DEF Running, Target, NoTarget
<1>2. QED
  BY <1>1 DEF SavedInv, Catalogued, Answered

-----------------------------------------------------------------------------
(* A step of a thread that does not write a record.                        *)

QuietThread(t) ==
  /\ DOMAIN pc' = Threads /\ \A u \in Threads \ {t} : pc'[u] = pc[u]
  /\ ThreadInv(t)' /\ pc'[t].phase \notin {"run", "ack"}
QuietCatalog ==
  /\ registry' \in Registries /\ catalogFile' = [whole |-> TRUE, reg |-> registry']
  /\ \A r \in Records \ excused' :
       target[r].name \in registry.drawers => target[r].name \in registry'.drawers
QuietDisk ==
  /\ Sound(fs, eng)'
  /\ \E F : Keeps(fs, fs', F) /\ \A r \in Records : target[r].file \in F => r \in excused'
  /\ excused \subseteq excused' /\ excused' \subseteq Records /\ cut' \subseteq Files
QuietArchive ==
  /\ archive' = [scope |-> archive'.scope, files |-> archive'.files]
  /\ Archived(archive'.scope, archive'.files)

LEMMA QuietStep ==
  ASSUME Inv, NEW t \in Threads, up, up' = up, acked' = acked, target' = target,
         QuietThread(t), QuietCatalog, QuietDisk, QuietArchive
  PROVE  Inv'
<1>1. TargetGrows /\ TypeInv /\ TargetInv /\ SavedInv /\ NamedInv /\ PlaceInv
  BY TargetSame DEF Inv, TypeInv
<1>2. \A u \in Threads : ThreadInv(u)'
  <2>1. ASSUME NEW u \in Threads \ {t}
        PROVE  ThreadInv(u)'
    BY <1>1, <2>1, ThreadStays DEF TypeInv, QuietThread
  <2>2. QED
    BY <2>1 DEF QuietThread
<1>3. \A r \in Records : /\ Answered(r)' => Answered(r)
                         /\ Catalogued(r)' => Catalogued(r)
  BY AnsweredStays DEF QuietThread
<1>4. (Archived(archive.scope, archive.files))'
  <2>1. PICK n : n = archive'.scope
    OBVIOUS
  <2>2. PICK X : X = archive'.files
    OBVIOUS
  <2>3. Archived(n, X)'
    BY <1>1, <2>1, <2>2, ArchivedStays DEF QuietArchive
  <2>4. QED
    BY <2>1, <2>2, <2>3 DEF Archived
<1>5. TargetInv'
  BY <1>1 DEF TargetInv
<1>6. TypeInv'
  <2>1. /\ up' \in BOOLEAN /\ up'
        /\ registry' \in Registries
        /\ catalogFile' = [whole |-> catalogFile'.whole, reg |-> registry']
        /\ catalogFile'.whole \in BOOLEAN /\ catalogFile'.whole
    BY DEF QuietCatalog
  <2>2. DOMAIN pc' = Threads
    BY DEF QuietThread
  <2>3. archive' = [scope |-> archive'.scope, files |-> archive'.files]
    BY DEF QuietArchive
  <2>5. acked' \subseteq Records /\ excused' \subseteq Records /\ cut' \subseteq Files
    BY <1>1 DEF TypeInv, QuietDisk
  <2>6. QED
    BY <1>2, <1>4, <1>5, <2>1, <2>2, <2>3, <2>5 DEF TypeInv
<1>7. SavedInv'
  <2>1. PICK F : Keeps(fs, fs', F) /\ \A r \in Records : target[r].file \in F => r \in excused'
    BY DEF QuietDisk
  <2>2. QED
    BY <1>1, <1>3, <2>1, SavedStays DEF QuietDisk
<1>8. NamedInv'
  <2>1. \A r \in Records \ excused : Catalogued(r) => target[r] # NoTarget
    BY <1>1, CataloguedHaveTargets
  <2>2. \A r \in Records \ excused' : target'[r].name \in registry.drawers =>
                               target'[r].name \in registry'.drawers
    BY DEF QuietCatalog
  <2>3. QED
    BY <1>1, <1>3, <2>1, <2>2, NamedStays DEF QuietDisk
<1>9. PlaceInv'
  BY <1>1 DEF PlaceInv
<1>10. QED
  BY <1>6, <1>7, <1>8, <1>9 DEF Inv, QuietDisk

LEMMA SameCatalog ==
  ASSUME TypeInv, up, UNCHANGED <<registry, catalogFile>>
  PROVE  QuietCatalog
BY DEF TypeInv, QuietCatalog

LEMMA SameDisk ==
  ASSUME TypeInv, Sound(fs, eng), UNCHANGED <<fs, eng, cut, target, excused>>
  PROVE  QuietDisk
<1>1. Sound(fs, eng)'
  BY SoundSame, TargetSame
<1>2. Keeps(fs, fs', {})
  BY DEF Keeps
<1>3. QED
  BY <1>1, <1>2 DEF QuietDisk, TypeInv

LEMMA SameArchive ==
  ASSUME TypeInv, archive' = archive
  PROVE  QuietArchive
BY DEF TypeInv, QuietArchive

LEMMA Threaded ==
  ASSUME TypeInv, NEW t \in Threads, NEW x, pc' = [pc EXCEPT ![t] = x]
  PROVE  /\ DOMAIN pc' = Threads /\ pc'[t] = x
         /\ \A u \in Threads \ {t} : pc'[u] = pc[u]
BY DEF TypeInv

LEMMA IdleThread ==
  ASSUME TypeInv, NEW t \in Threads, pc' = [pc EXCEPT ![t] = Idle]
  PROVE  QuietThread(t)
<1>1. pc'[t] = Idle
  BY Threaded
<1>2. ThreadInv(t)'
  BY <1>1 DEF ThreadInv
<1>3. QED
  BY <1>1, <1>2, Threaded DEF QuietThread, Idle

-----------------------------------------------------------------------------
(* Creating structures.                                                    *)

LEMMA NamePaths ==
  /\ \A d \in Databases : d \in Cores /\ <<>> # d
  /\ \A d \in Databases, s \in Schemas : SchemaPath(d, s) \in Cores /\ SchemaPath(d, s) \in DataDirs
  /\ \A n \in Names : /\ DrawerPath(n) \in Files /\ Up(DrawerPath(n)) = SchemaPath(n[1], n[2])
                      /\ n[1] \in Databases /\ n[2] \in Schemas /\ n[3] \in Drawers
                      /\ n = <<n[1], n[2], n[3]>> /\ n # <<>> /\ DOMAIN n = {1, 2, 3}
  /\ \A l \in Locations, s \in Schemas : TenantSchemaPath(l, s) \in DataDirs
  /\ Databases \subseteq DataDirs
<1>1. \A d \in Databases : d \in Cores /\ <<>> # d
  BY CatalogAssumption DEF Cores, DataDirs
<1>2. \A d \in Databases, s \in Schemas : SchemaPath(d, s) \in Cores /\ SchemaPath(d, s) \in DataDirs
  BY DEF Cores, DataDirs, SchemaDirs
<1>3. ASSUME NEW n \in Names
      PROVE  /\ DrawerPath(n) \in Files /\ Up(DrawerPath(n)) = SchemaPath(n[1], n[2])
             /\ n[1] \in Databases /\ n[2] \in Schemas /\ n[3] \in Drawers
             /\ n = <<n[1], n[2], n[3]>> /\ n # <<>> /\ DOMAIN n = {1, 2, 3}
  <2>1. /\ n[1] \in Databases /\ n[2] \in Schemas /\ n[3] \in Drawers
        /\ n = <<n[1], n[2], n[3]>> /\ n # <<>> /\ DOMAIN n = {1, 2, 3}
    BY DEF Names
  <2>2. SchemaPath(n[1], n[2]) \in DataDirs /\ SchemaPath(n[1], n[2]) \in Cores
    BY <1>2, <2>1
  <2>3. QED
    BY <2>1, <2>2, HandlePaths, FileParts DEF DrawerPath
<1>4. QED
  BY <1>1, <1>2, <1>3 DEF DataDirs, TenantDirs

\* The requests of each kind.
DatabaseRequests == {Request("database", d, <<d>>, NoRoute) : d \in Databases}
SchemaRequests ==
  {Request("schema", SchemaPath(d, s), <<d, s>>, NoRoute) :
     d \in {e \in Databases : ContainsDatabase(registry, e)}, s \in Schemas}
DrawerRequests ==
  {Request("drawer", DrawerPath(n), n, NoRoute) :
     n \in {m \in Names : ContainsSchema(registry, m[1], m[2])}}
RouteRequests ==
  {Request("route", l, <<>>, [tenant |-> t, database |-> d, location |-> l]) :
     t \in Tenants, d \in Databases, l \in Locations}

LEMMA CreateRequested == \A q \in CreateRequests : Requested(q)
<1>1. \A d \in Databases : Requested(Request("database", d, <<d>>, NoRoute))
  BY DEF Requested, Request
<1>2. \A d \in Databases, s \in Schemas :
        Requested(Request("schema", SchemaPath(d, s), <<d, s>>, NoRoute))
  BY DEF Requested, Request
<1>3. \A n \in Names : Requested(Request("drawer", DrawerPath(n), n, NoRoute))
  BY DEF Requested, Request
<1>4. ASSUME NEW t \in Tenants, NEW d \in Databases, NEW l \in Locations
      PROVE  Requested(Request("route", l, <<>>, [tenant |-> t, database |-> d, location |-> l]))
  BY DEF Requested, Request, Routes
<1>5. ASSUME NEW q \in CreateRequests
      PROVE  Requested(q)
  <2>1. \/ \E d \in Databases : q = Request("database", d, <<d>>, NoRoute)
        \/ \E d \in Databases, s \in Schemas :
             q = Request("schema", SchemaPath(d, s), <<d, s>>, NoRoute)
        \/ \E n \in Names : q = Request("drawer", DrawerPath(n), n, NoRoute)
        \/ \E t \in Tenants, d \in Databases, l \in Locations :
             q = Request("route", l, <<>>, [tenant |-> t, database |-> d, location |-> l])
    <3>1. q \in DatabaseRequests \cup SchemaRequests \cup DrawerRequests \cup RouteRequests
      <4>1. CreateRequests =
              DatabaseRequests \cup SchemaRequests \cup DrawerRequests \cup RouteRequests
        BY DEF CreateRequests, DatabaseRequests, SchemaRequests, DrawerRequests, RouteRequests
      <4>2. QED
        BY <4>1
    <3>2. q \in DatabaseRequests => \E d \in Databases : q = Request("database", d, <<d>>, NoRoute)
      BY DEF DatabaseRequests
    <3>3. q \in SchemaRequests => \E d \in Databases, s \in Schemas :
                       q = Request("schema", SchemaPath(d, s), <<d, s>>, NoRoute)
      BY DEF SchemaRequests
    <3>4. q \in DrawerRequests => \E n \in Names : q = Request("drawer", DrawerPath(n), n, NoRoute)
      BY DEF DrawerRequests
    <3>5. q \in RouteRequests => \E t \in Tenants, d \in Databases, l \in Locations :
             q = Request("route", l, <<>>, [tenant |-> t, database |-> d, location |-> l])
      BY DEF RouteRequests
    <3>6. QED
      BY <3>1, <3>2, <3>3, <3>4, <3>5
  <2>2. QED
    BY <1>1, <1>2, <1>3, <1>4, <2>1
<1>6. QED
  BY <1>5

LEMMA DropRequested == \A q \in DropRequests : Requested(q) /\ q.what # "route"
<1>1. \A d \in Databases : LET q == Request("database", d, <<d>>, NoRoute)
                           IN  Requested(q) /\ q.what # "route"
  BY DEF Requested, Request
<1>2. \A d \in Databases, s \in Schemas :
        LET q == Request("schema", SchemaPath(d, s), <<d, s>>, NoRoute)
        IN  Requested(q) /\ q.what # "route"
  BY DEF Requested, Request
<1>3. \A n \in Names : LET q == Request("drawer", DrawerPath(n), n, NoRoute)
                       IN  Requested(q) /\ q.what # "route"
  BY DEF Requested, Request
<1>4. ASSUME NEW q \in DropRequests
      PROVE  Requested(q) /\ q.what # "route"
  <2>1. \/ \E d \in Databases : q = Request("database", d, <<d>>, NoRoute)
        \/ \E d \in Databases, s \in Schemas :
             q = Request("schema", SchemaPath(d, s), <<d, s>>, NoRoute)
        \/ \E n \in Names : q = Request("drawer", DrawerPath(n), n, NoRoute)
    BY DEF DropRequests
  <2>2. QED
    BY <1>1, <1>2, <1>3, <2>1
<1>5. QED
  BY <1>4

LEMMA BeginCreateInv ==
  ASSUME Inv, NEW t \in Threads, BeginCreate(t)
  PROVE  Inv'
<1>1. /\ up /\ UNCHANGED <<up, registry, catalogFile, fs, eng, archive, acked, target, excused, cut>>
      /\ \E q \in CreateRequests : pc' = [pc EXCEPT ![t] = [phase |-> "create", q |-> q]]
  BY DEF BeginCreate, BeginStructural
<1>2. PICK q \in CreateRequests : pc' = [pc EXCEPT ![t] = [phase |-> "create", q |-> q]]
  BY <1>1
<1>3. TypeInv /\ Sound(fs, eng) /\ Requested(q)
  BY CreateRequested DEF Inv
<1>4. pc'[t] = [phase |-> "create", q |-> q]
  BY <1>2, <1>3, Threaded
<1>5. ThreadInv(t)'
  BY <1>3, <1>4 DEF ThreadInv
<1>6. QuietThread(t)
  BY <1>2, <1>3, <1>4, <1>5, Threaded DEF QuietThread
<1>7. QED
  BY <1>1, <1>3, <1>6, SameCatalog, SameDisk, SameArchive, QuietStep

LEMMA BeginDropInv ==
  ASSUME Inv, NEW t \in Threads, BeginDrop(t)
  PROVE  Inv'
<1>1. /\ up /\ UNCHANGED <<up, registry, catalogFile, fs, eng, archive, acked, target, excused, cut>>
      /\ \E q \in DropRequests : pc' = [pc EXCEPT ![t] = [phase |-> "drop", q |-> q]]
  BY DEF BeginDrop, BeginStructural
<1>2. PICK q \in DropRequests : pc' = [pc EXCEPT ![t] = [phase |-> "drop", q |-> q]]
  BY <1>1
<1>3. TypeInv /\ Sound(fs, eng) /\ Requested(q) /\ q.what # "route"
  BY DropRequested DEF Inv
<1>4. pc'[t] = [phase |-> "drop", q |-> q]
  BY <1>2, <1>3, Threaded
<1>5. ThreadInv(t)'
  BY <1>3, <1>4 DEF ThreadInv
<1>6. QuietThread(t)
  BY <1>2, <1>3, <1>4, <1>5, Threaded DEF QuietThread
<1>7. QED
  BY <1>1, <1>3, <1>6, SameCatalog, SameDisk, SameArchive, QuietStep

LEMMA RegisterDatabaseIs ==
  ASSUME NEW k \in Registries, NEW d \in Databases
  PROVE  RegisterDatabase(k, d) \in Registries /\ RegisterDatabase(k, d).drawers = k.drawers
BY DEF RegisterDatabase, Registries

LEMMA RegisterDrawerIs ==
  ASSUME NEW k \in Registries
  PROVE  /\ \A d \in Databases, s \in Schemas :
              RegisterSchema(k, d, s) \in Registries /\ RegisterSchema(k, d, s).drawers = k.drawers
         /\ \A n \in Names : /\ RegisterDrawer(k, n) \in Registries
                             /\ RegisterDrawer(k, n).drawers = k.drawers \cup {n}
<1>1. ASSUME NEW d \in Databases, NEW s \in Schemas
      PROVE  RegisterSchema(k, d, s) \in Registries /\ RegisterSchema(k, d, s).drawers = k.drawers
  BY RegisterDatabaseIs DEF RegisterSchema, Registries
<1>2. ASSUME NEW n \in Names
      PROVE  /\ RegisterDrawer(k, n) \in Registries
             /\ RegisterDrawer(k, n).drawers = k.drawers \cup {n}
  <2>1. PICK m : m = RegisterSchema(k, n[1], n[2])
    OBVIOUS
  <2>2. m \in Registries /\ m.drawers = k.drawers
    BY <1>1, <2>1, NamePaths
  <2>3. RegisterDrawer(k, n) = [m EXCEPT !.drawers = m.drawers \cup {n}]
    BY <2>1 DEF RegisterDrawer
  <2>4. QED
    BY <2>2, <2>3 DEF Registries
<1>3. QED
  BY <1>1, <1>2

LEMMA RegisteredIs ==
  ASSUME NEW reg \in Registries, NEW q, Requested(q)
  PROVE  Registered(reg, q) \in Registries /\ reg.drawers \subseteq Registered(reg, q).drawers
<1>4. ASSUME NEW route \in Routes
      PROVE  /\ RegisterTenantRoute(reg, route) \in Registries
             /\ RegisterTenantRoute(reg, route).drawers = reg.drawers
  <2>1. PICK m : m = RegisterDatabase(reg, route.database)
    OBVIOUS
  <2>2. m \in Registries /\ m.drawers = reg.drawers
    BY <2>1, RegisterDatabaseIs DEF Routes
  <2>3. RegisterTenantRoute(reg, route) =
          [m EXCEPT !.routes = {r \in m.routes : r.tenant # route.tenant} \cup {route}]
    BY <2>1 DEF RegisterTenantRoute
  <2>4. {r \in m.routes : r.tenant # route.tenant} \cup {route} \in SUBSET Routes
    BY <2>2 DEF Registries, Routes
  <2>5. QED
    BY <2>2, <2>3, <2>4 DEF Registries, Routes
<1>5. CASE q.what = "database"
  BY <1>5, RegisterDatabaseIs DEF Requested, Registered
<1>6. CASE q.what = "schema"
  BY <1>6, RegisterDrawerIs DEF Requested, Registered
<1>7. CASE q.what = "drawer"
  BY <1>7, RegisterDrawerIs DEF Requested, Registered
<1>8. CASE q.what = "route"
  BY <1>4, <1>8 DEF Requested, Registered
<1>9. QED
  BY <1>5, <1>6, <1>7, <1>8 DEF Requested

LEMMA RegisterInv ==
  ASSUME Inv, NEW t \in Threads, Register(t)
  PROVE  Inv'
<1>1. /\ up /\ UNCHANGED <<up, fs, eng, archive, acked, target, excused, cut>>
      /\ pc' = [pc EXCEPT ![t] = Idle] /\ pc[t].phase = "register"
      /\ registry' = Registered(registry, pc[t].q)
      /\ catalogFile' = [whole |-> TRUE, reg |-> Registered(registry, pc[t].q)]
  BY DEF Register, PersistToRoot
<1>2. TypeInv /\ Sound(fs, eng)
  BY DEF Inv
<1>3. Requested(pc[t].q)
  BY <1>1, <1>2 DEF TypeInv, ThreadInv, Idle
<1>4. QuietCatalog
  BY <1>1, <1>2, <1>3, RegisteredIs DEF QuietCatalog, TypeInv
<1>5. QED
  BY <1>1, <1>2, <1>4, IdleThread, SameDisk, SameArchive, QuietStep

\* What the calls make of the disk.
LEMMA MadeDisk ==
  ASSUME TypeInv, NEW n, NEW g, NEW k, Outcome(fs, eng, g, k, n), g = fs', k = eng',
         UNCHANGED <<cut, target, excused>>
  PROVE  QuietDisk
<1>1. Sound(g, k) /\ Keeps(fs, g, {})
  BY DEF Outcome
<1>2. Sound(fs, eng)'
  BY <1>1, SoundStays, TargetSame
<1>3. QED
  BY <1>1, <1>2 DEF QuietDisk, TypeInv

LEMMA CreateStorageInv ==
  ASSUME Inv, NEW t \in Threads, CreateStorage(t)
  PROVE  Inv'
<1>1. /\ up /\ pc[t].phase = "create"
      /\ UNCHANGED <<up, registry, catalogFile, eng, archive, acked, target, excused, cut>>
  BY DEF CreateStorage
<1>2. TypeInv /\ Sound(fs, eng)
  BY DEF Inv
<1>3. PICK q : q = pc[t].q
  OBVIOUS
<1>4. Requested(q)
  BY <1>1, <1>2, <1>3 DEF TypeInv, ThreadInv, Idle
<1>5. \E d \in Cores \cup Locations : \E x :
        /\ fs' = EnsureDir(fs, d) /\ pc' = [pc EXCEPT ![t] = x]
        /\ \/ q.what = "drawer" /\ \E b \in BOOLEAN : x = [phase |-> "files", q |-> q, missing |-> b]
           \/ q.what # "drawer" /\ x = [phase |-> "register", q |-> q]
  <2>1. CASE q.what = "drawer"
    <3>1. Up(q.path) \in Cores
      BY <1>4, <2>1, NamePaths DEF Requested
    <3>2. /\ fs' = EnsureDir(fs, Up(q.path))
          /\ pc' = [pc EXCEPT ![t] = [phase |-> "files", q |-> q, missing |-> fs.file[q.path] = 0]]
      BY <1>3, <2>1 DEF CreateStorage
    <3>3. PICK b \in BOOLEAN : b = (fs.file[q.path] = 0)
      OBVIOUS
    <3>4. pc' = [pc EXCEPT ![t] = [phase |-> "files", q |-> q, missing |-> b]]
      BY <3>2, <3>3
    <3>5. QED
      BY <2>1, <3>1, <3>2, <3>4
  <2>2. CASE q.what # "drawer"
    <3>1. q.path \in Cores \cup Locations
      BY <1>4, <2>2, NamePaths DEF Requested
    <3>2. /\ fs' = EnsureDir(fs, q.path)
          /\ pc' = [pc EXCEPT ![t] = [phase |-> "register", q |-> q]]
      BY <1>3, <2>2 DEF CreateStorage
    <3>3. QED
      BY <2>2, <3>1, <3>2
  <2>3. QED
    BY <2>1, <2>2
<1>11. PICK d \in Cores \cup Locations : \E x :
         /\ fs' = EnsureDir(fs, d) /\ pc' = [pc EXCEPT ![t] = x]
         /\ \/ q.what = "drawer" /\ \E b \in BOOLEAN : x = [phase |-> "files", q |-> q, missing |-> b]
            \/ q.what # "drawer" /\ x = [phase |-> "register", q |-> q]
  BY <1>5
<1>12. PICK x :
         /\ fs' = EnsureDir(fs, d) /\ pc' = [pc EXCEPT ![t] = x]
         /\ \/ q.what = "drawer" /\ \E b \in BOOLEAN : x = [phase |-> "files", q |-> q, missing |-> b]
            \/ q.what # "drawer" /\ x = [phase |-> "register", q |-> q]
  BY <1>11
<1>6. pc'[t] = x
  BY <1>2, <1>12, Threaded
<1>7. ThreadInv(t)' /\ x.phase \in {"files", "register"}
  BY <1>4, <1>12, <1>6 DEF ThreadInv
<1>8. QuietThread(t)
  <2>1. DOMAIN pc' = Threads /\ \A u \in Threads \ {t} : pc'[u] = pc[u]
    BY <1>2, <1>12, Threaded
  <2>2. QED
    BY <1>6, <1>7, <2>1 DEF QuietThread
<1>9. QuietDisk
  <2>1. Outcome(fs, eng, EnsureDir(fs, d), eng, 0)
    BY <1>2, EnsureDirSound
  <2>2. QED
    BY <1>1, <1>2, <1>12, <2>1, MadeDisk
<1>10. QED
  BY <1>1, <1>2, <1>8, <1>9, SameCatalog, SameArchive, QuietStep

LEMMA EmptiedDisk ==
  ASSUME TypeInv, Sound(fs, eng), NEW p \in Files, Up(p) \in fs.dirs, Room(fs, eng, 1),
         NEW g, g = OpenOrCreate(fs, eng, p), fs' = [g EXCEPT !.content[g.file[p]] = {}],
         NEW F, F = IF fs.file[p] # 0 THEN {p} ELSE {},
         excused' = excused \cup Concerned(F), cut' = cut \cup Opened(F),
         UNCHANGED <<eng, target>>
  PROVE  QuietDisk
<1>1. p \in Paths /\ p \notin Logs
  BY FilePaths DEF Paths
<1>2. Outcome(fs, eng, g, eng, 1) /\ g.file[p] \in Inodes
  BY <1>1, CreateSound
<1>3. PICK i \in Inodes : g.file[p] = i
  BY <1>2
<1>4. PICK h : h = Filled(g, i, {})
  OBVIOUS
<1>5. fs' = h
  BY <1>3, <1>4 DEF Filled
<1>6. Sound(g, eng) /\ {} \in SUBSET Records
  BY <1>2 DEF Outcome
<1>7. Sound(h, eng) /\ Keeps(g, h, {p})
  BY <1>1, <1>3, <1>4, <1>6, ReplaceSound
<1>8. Keeps(fs, h, {} \cup {p})
  <2>1. fs \in FileSystem /\ g \in FileSystem /\ Keeps(fs, g, {})
    BY <1>2 DEF Outcome, Sound
  <2>2. QED
    BY <1>7, <2>1, KeepsBoth
<1>9. Keeps(fs, fs', F)
  BY <1>5, <1>8 DEF Keeps
<1>10. Sound(fs, eng)'
  BY <1>5, <1>7, SoundStays, TargetSame
<1>11. \A r \in Records : target[r].file \in F => r \in excused'
  BY DEF Concerned
<1>12. excused \subseteq excused' /\ excused' \subseteq Records /\ cut' \subseteq Files
  BY DEF TypeInv, Concerned, Opened
<1>13. QED
  BY <1>9, <1>10, <1>11, <1>12 DEF QuietDisk

LEMMA CreateFilesInv ==
  ASSUME Inv, NEW t \in Threads, CreateFiles(t)
  PROVE  Inv'
<1>1. /\ up /\ pc[t].phase = "files" /\ Room(fs, eng, 1)
      /\ UNCHANGED <<up, registry, catalogFile, eng, archive, acked, target>>
  BY DEF CreateFiles, CanAllocate, Room
<1>2. TypeInv /\ Sound(fs, eng)
  BY DEF Inv
<1>3. PICK q : q = pc[t].q
  OBVIOUS
<1>4. Requested(q) /\ q.what = "drawer" /\ pc[t].missing \in BOOLEAN
  BY <1>1, <1>2, <1>3 DEF TypeInv, ThreadInv, Idle
<1>5. q.path \in Files
  BY <1>4, NamePaths DEF Requested
<1>6. CASE pc[t].missing /\ Up(q.path) \notin fs.dirs
  <2>1. pc' = [pc EXCEPT ![t] = Idle] /\ UNCHANGED <<fs, excused, cut>>
    BY <1>3, <1>6 DEF CreateFiles
  <2>2. QED
    BY <1>1, <1>2, <2>1, IdleThread, SameCatalog, SameDisk, SameArchive, QuietStep
<1>7. CASE ~(pc[t].missing /\ Up(q.path) \notin fs.dirs)
  <2>1. PICK g : g = OpenOrCreate(fs, eng, q.path)
    OBVIOUS
  <2>2. PICK F : F = IF pc[t].missing /\ fs.file[q.path] # 0 THEN {q.path} ELSE {}
    OBVIOUS
  <2>3. /\ pc' = [pc EXCEPT ![t] = [phase |-> "register", q |-> q]]
        /\ fs' = IF pc[t].missing THEN [g EXCEPT !.content[g.file[q.path]] = {}] ELSE fs
        /\ excused' = excused \cup Concerned(F) /\ cut' = cut \cup Opened(F)
    BY <1>3, <1>7, <2>1, <2>2 DEF CreateFiles
  <2>4. pc'[t] = [phase |-> "register", q |-> q]
    BY <1>2, <2>3, Threaded
  <2>5. ThreadInv(t)'
    BY <1>4, <2>4 DEF ThreadInv
  <2>6. QuietThread(t)
    BY <1>2, <2>3, <2>4, <2>5, Threaded DEF QuietThread
  <2>7. QuietDisk
    <3>1. CASE pc[t].missing
      <4>1. Up(q.path) \in fs.dirs
        BY <1>7, <3>1
      <4>2. F = IF fs.file[q.path] # 0 THEN {q.path} ELSE {}
        BY <2>2, <3>1
      <4>3. fs' = [g EXCEPT !.content[g.file[q.path]] = {}]
        BY <2>3, <3>1
      <4>4. QED
        BY <1>1, <1>2, <1>5, <2>1, <2>3, <4>1, <4>2, <4>3, EmptiedDisk
    <3>2. CASE ~pc[t].missing
      <4>1. F = {} /\ fs' = fs
        BY <2>2, <2>3, <3>2
      <4>2. excused' = excused /\ cut' = cut
        BY <2>3, <4>1 DEF Concerned, Opened
      <4>3. QED
        BY <1>1, <1>2, <4>1, <4>2, SameDisk
    <3>3. QED
      BY <3>1, <3>2
  <2>8. QED
    BY <1>1, <1>2, <2>6, <2>7, SameCatalog, SameArchive, QuietStep DEF QuietCatalog
<1>8. QED
  BY <1>6, <1>7

-----------------------------------------------------------------------------
(* Dropping them.                                                          *)

LEMMA RemovedDisk ==
  ASSUME TypeInv, Sound(fs, eng), NEW F \in SUBSET Files, NEW g \in FileSystem, fs' = g,
         g.content = fs.content, InPlace(g),
         \A p \in Paths : g.file[p] = fs.file[p] \/ g.file[p] = 0,
         \A p \in Files \ F : g.file[p] = fs.file[p],
         excused' = excused \cup Concerned(F), cut' = cut \cup Opened(F),
         UNCHANGED <<eng, target>>
  PROVE  QuietDisk
<1>1. OneUse(g, eng) /\ Logged(g) /\ Keeps(fs, g, F)
  BY RemovedPlaced
<1>2. PICK e \in Engine : e = eng
  BY DEF Sound
<1>3. Handled(fs, eng)'
  <2>1. ASSUME NEW h \in HandleIds, e.handle[h].inode # 0, h[2] \notin cut'
        PROVE  g.file[h[2]] = e.handle[h].inode
    <3>1. h[2] \in Files /\ h[2] \notin cut /\ h[2] \notin F
      BY <1>2, <2>1, HandlePaths DEF Opened
    <3>2. fs.file[h[2]] = e.handle[h].inode
      BY <1>2, <2>1, <3>1 DEF Sound, Handled
    <3>3. QED
      BY <3>1, <3>2
  <2>2. \A h \in HandleIds : e.handle[h].inode = 0 => e.handle[h].view = {}
    BY <1>2 DEF Sound, Handled
  <2>3. QED
    BY <1>2, <2>1, <2>2 DEF Handled
<1>4. Sound(fs, eng)'
  <2>1. /\ (fs \in FileSystem)' /\ (eng \in Engine)'
    BY <1>2
  <2>2. OneUse(fs, eng)' /\ InPlace(fs)'
    BY <1>1 DEF OneUse, UsedFor, InPlace
  <2>3. Logged(fs)'
    BY <1>1 DEF Logged, LogRecords, Loggable, Portable
  <2>4. QED
    BY <1>3, <2>1, <2>2, <2>3 DEF Sound
<1>5. \A r \in Records : target[r].file \in F => r \in excused'
  BY DEF Concerned
<1>6. excused \subseteq excused' /\ excused' \subseteq Records /\ cut' \subseteq Files
  BY DEF TypeInv, Concerned, Opened
<1>7. QED
  BY <1>1, <1>4, <1>5, <1>6 DEF QuietDisk

LEMMA RemoveStorageInv ==
  ASSUME Inv, NEW t \in Threads, RemoveStorage(t)
  PROVE  Inv'
<1>1. /\ up /\ pc[t].phase = "drop"
      /\ pc' = [pc EXCEPT ![t] = [pc[t] EXCEPT !.phase = "unregister"]]
      /\ UNCHANGED <<up, registry, catalogFile, eng, archive, acked, target>>
  BY DEF RemoveStorage
<1>2. TypeInv /\ Sound(fs, eng)
  BY DEF Inv
<1>3. PICK q : q = pc[t].q
  OBVIOUS
<1>4. Requested(q) /\ q.what # "route" /\ pc[t] = [phase |-> "drop", q |-> q]
  BY <1>1, <1>2, <1>3 DEF TypeInv, ThreadInv, Idle
<1>5. PICK F : F = RemovedFiles(q)
  OBVIOUS
<1>6. /\ fs' = IF q.what = "drawer" THEN RemoveFiles(fs, F) ELSE RemoveTree(fs, q.path)
      /\ excused' = excused \cup Concerned(F) /\ cut' = cut \cup Opened(F)
  BY <1>3, <1>5 DEF RemoveStorage
<1>7. QuietDisk
  <2>1. F \in SUBSET Files
    BY <1>5 DEF RemovedFiles, FilesUnder
  <2>2. CASE q.what = "drawer"
    <3>1. PICK g : g = RemoveFiles(fs, F)
      OBVIOUS
    <3>2. /\ g \in FileSystem /\ g.content = fs.content /\ InPlace(g)
          /\ \A p \in Paths : g.file[p] = IF p \in F THEN 0 ELSE fs.file[p]
      BY <1>2, <2>1, <3>1, RemoveFilesIs
    <3>3. \A p \in Files \ F : g.file[p] = fs.file[p]
      BY <3>2 DEF Paths
    <3>4. \A p \in Paths : g.file[p] = fs.file[p] \/ g.file[p] = 0
      BY <3>2
    <3>5. fs' = g
      BY <1>6, <2>2, <3>1
    <3>6. QED
      BY <1>1, <1>2, <1>6, <2>1, <3>2, <3>3, <3>4, <3>5, RemovedDisk
  <2>3. CASE q.what # "drawer"
    <3>1. PICK g : g = RemoveTree(fs, q.path)
      OBVIOUS
    <3>2. /\ g \in FileSystem /\ g.content = fs.content /\ InPlace(g)
          /\ \A p \in Paths : g.file[p] = IF Below(p, q.path) THEN 0 ELSE fs.file[p]
      <4>1. q.path \in Seq(Segment)
        BY <1>4, <2>3, NamePaths, DataPaths DEF Requested
      <4>2. QED
        BY <1>2, <3>1, <4>1, RemoveTreeIs
    <3>3. \A p \in Files \ F : g.file[p] = fs.file[p]
      BY <1>5, <2>3, <3>2 DEF Paths, RemovedFiles, FilesUnder
    <3>4. \A p \in Paths : g.file[p] = fs.file[p] \/ g.file[p] = 0
      BY <3>2
    <3>5. fs' = g
      BY <1>6, <2>3, <3>1
    <3>6. QED
      BY <1>1, <1>2, <1>6, <2>1, <3>2, <3>3, <3>4, <3>5, RemovedDisk
  <2>4. QED
    BY <2>2, <2>3
<1>8. QuietThread(t)
  <2>1. [pc[t] EXCEPT !.phase = "unregister"] = [phase |-> "unregister", q |-> q]
    BY <1>4
  <2>2. PICK x : x = [phase |-> "unregister", q |-> q]
    OBVIOUS
  <2>3. pc' = [pc EXCEPT ![t] = x]
    BY <1>1, <2>1, <2>2
  <2>4. /\ pc'[t] = x /\ DOMAIN pc' = Threads
        /\ \A u \in Threads \ {t} : pc'[u] = pc[u]
    BY <1>2, <2>3, Threaded
  <2>5. ThreadInv(t)'
    BY <1>4, <2>2, <2>4 DEF ThreadInv
  <2>6. QED
    BY <2>2, <2>4, <2>5 DEF QuietThread
<1>9. QED
  BY <1>1, <1>2, <1>7, <1>8, SameCatalog, SameArchive, QuietStep

LEMMA UnregisteredIs ==
  ASSUME NEW reg \in Registries, NEW q, Requested(q), q.what # "route"
  PROVE  /\ Unregistered(reg, q) \in Registries
         /\ \A n \in reg.drawers : n \in Unregistered(reg, q).drawers
              \/ \A i \in DOMAIN q.name : n[i] = q.name[i]
<1>1. reg.drawers \subseteq Names
  BY DEF Registries
<1>2. CASE q.what = "database"
  <2>1. PICK d \in Databases : d = q.path /\ q.name = <<d>>
    BY <1>2 DEF Requested
  <2>2. Unregistered(reg, q) = UnregisterDatabase(reg, d)
    BY <1>2, <2>1 DEF Unregistered
  <2>3. /\ UnregisterDatabase(reg, d) \in Registries
        /\ UnregisterDatabase(reg, d).drawers = {n \in reg.drawers : n[1] # d}
    BY DEF UnregisterDatabase, Registries
  <2>4. DOMAIN q.name = {1} /\ q.name[1] = d
    BY <2>1
  <2>5. QED
    BY <2>2, <2>3, <2>4
<1>3. CASE q.what = "schema"
  <2>1. PICK d \in Databases, s \in Schemas : q.name = <<d, s>>
    BY <1>3 DEF Requested
  <2>2. Unregistered(reg, q) = UnregisterSchema(reg, d, s)
    BY <1>3, <2>1 DEF Unregistered
  <2>3. /\ UnregisterSchema(reg, d, s) \in Registries
        /\ UnregisterSchema(reg, d, s).drawers = {n \in reg.drawers : n[1] # d \/ n[2] # s}
    BY DEF UnregisterSchema, Registries
  <2>4. DOMAIN q.name = {1, 2} /\ q.name[1] = d /\ q.name[2] = s
    BY <2>1
  <2>5. QED
    BY <2>2, <2>3, <2>4
<1>4. CASE q.what = "drawer"
  <2>1. PICK m \in Names : m = q.name
    BY <1>4 DEF Requested
  <2>2. Unregistered(reg, q) = UnregisterDrawer(reg, m)
    BY <1>4, <2>1 DEF Unregistered
  <2>3. /\ UnregisterDrawer(reg, m) \in Registries
        /\ UnregisterDrawer(reg, m).drawers = reg.drawers \ {m}
    BY DEF UnregisterDrawer, Registries
  <2>4. QED
    BY <2>1, <2>2, <2>3
<1>5. QED
  BY <1>2, <1>3, <1>4 DEF Requested

LEMMA UnregisterInv ==
  ASSUME Inv, NEW t \in Threads, Unregister(t)
  PROVE  Inv'
<1>1. PICK q : q = pc[t].q
  OBVIOUS
<1>2. /\ up /\ pc[t].phase = "unregister" /\ pc' = [pc EXCEPT ![t] = Idle]
      /\ registry' = Unregistered(registry, q)
      /\ catalogFile' = [whole |-> TRUE, reg |-> registry']
      /\ excused' = excused \cup {r \in Records : target[r].name # <<>> /\
                                   \A i \in DOMAIN q.name : target[r].name[i] = q.name[i]}
      /\ UNCHANGED <<up, fs, eng, archive, acked, target, cut>>
  BY <1>1 DEF Unregister, PersistToRoot
<1>3. TypeInv /\ Sound(fs, eng)
  BY DEF Inv
<1>4. Requested(q) /\ q.what # "route"
  BY <1>1, <1>2, <1>3 DEF TypeInv, ThreadInv, Idle
<1>5. QuietCatalog
  <2>1. registry \in Registries
    BY <1>3 DEF TypeInv
  <2>2. ASSUME NEW r \in Records \ excused', target[r].name \in registry.drawers
        PROVE  target[r].name \in registry'.drawers
    <3>1. target[r].name \in Names
      BY <2>1, <2>2 DEF Registries
    <3>2. target[r].name # <<>>
      BY <3>1, NamePaths
    <3>3. ~\A i \in DOMAIN q.name : target[r].name[i] = q.name[i]
      BY <1>2, <2>2, <3>2
    <3>4. QED
      BY <1>2, <1>4, <2>1, <2>2, <3>3, UnregisteredIs
  <2>3. registry' \in Registries
    BY <1>2, <1>4, <2>1, UnregisteredIs
  <2>4. QED
    BY <1>2, <2>2, <2>3 DEF QuietCatalog
<1>6. QuietDisk
  <2>1. Sound(fs, eng)'
    BY <1>2, <1>3, SoundSame, TargetSame
  <2>2. Keeps(fs, fs', {})
    BY <1>2 DEF Keeps
  <2>3. excused \subseteq excused' /\ excused' \subseteq Records /\ cut' \subseteq Files
    BY <1>2, <1>3 DEF TypeInv
  <2>4. QED
    BY <2>1, <2>2, <2>3 DEF QuietDisk
<1>7. QED
  BY <1>2, <1>3, <1>5, <1>6, IdleThread, SameArchive, QuietStep

-----------------------------------------------------------------------------
(* Backup and restore.                                                     *)

LEMMA StructuralPaths ==
  ASSUME NEW path, Structural(path)
  PROVE  path \in Seq(Segment) /\ Len(path) \in 1 .. 3
BY DirPaths, FilePaths DEF Structural, Paths

LEMMA SegmentsAre == \A path \in Segments : Structural(path)
BY DEF Segments, Structural

\* What is archived of a file below the directory or of the drawer itself.
Entry(path, p) ==
  [rel |-> Relative(path, p),
   recs |-> IF fs.file[p] = 0 THEN {} ELSE fs.content[fs.file[p]]]

LEMMA EntryIs ==
  ASSUME Sound(fs, eng), NEW path, Structural(path), NEW p \in Paths,
         IF Len(path) = 3 THEN p = path /\ p \in Files ELSE Below(p, path),
         NEW x, x = Entry(path, p)
  PROVE  /\ x.rel \in Seq(Segment) /\ x.recs \subseteq Records
         /\ x.rel = <<>> => Len(path) = 3
         /\ IsLog(x.rel) => \A r \in x.recs : Portable(r)
<1>1. PICK n \in 1 .. 3 : n = Len(path)
  BY StructuralPaths
<1>2. /\ p \in Seq(Segment) /\ p # <<>> /\ Up(p) \in Cores /\ Len(p) = Len(Up(p)) + 1
      /\ Len(Up(p)) \in Nat
  BY FilePaths
<1>3. PICK rel : rel = SubSeq(p, n + 1, Len(p))
  OBVIOUS
<1>4. x.rel = rel
  BY <1>1, <1>3 DEF Entry, Relative
<1>5. rel \in Seq(Segment)
  BY <1>2, <1>3
<1>6. /\ n + 1 <= Len(p) => /\ Len(rel) = Len(p) - n
                            /\ rel[Len(p) - n] = p[Len(p)]
      /\ ~(n + 1 <= Len(p)) => rel = <<>>
  BY <1>2, <1>3
<1>7. n # 3 => Len(path) <= Len(Up(p))
  BY <1>1 DEF Below, IsUnder
<1>8. rel = <<>> => n = 3
  BY <1>1, <1>2, <1>5, <1>6, <1>7
<1>9. fs \in FileSystem /\ eng \in Engine
  BY DEF Sound
<1>10. x.recs \subseteq Records
  BY <1>9, FileValues DEF Entry
<1>11. ASSUME IsLog(rel), NEW r \in x.recs
       PROVE  Portable(r)
  <2>1. rel # <<>> /\ n + 1 <= Len(p) /\ p[Len(p)] = Wal
    BY <1>2, <1>6, <1>11 DEF IsLog, Leaf
  <2>2. p \in Logs
    BY <2>1, FilePaths, CatalogAssumption DEF Paths, Leaf
  <2>3. p = LogOf(Up(p))
    BY <2>2, FilePaths
  <2>4. r \in LogRecords(fs, Up(p))
    BY <1>11, <2>3 DEF Entry, LogRecords
  <2>5. Loggable(Up(p), r)
    BY <1>2, <2>4 DEF Sound, Logged
  <2>6. Up(p) # <<>>
    <3>1. Len(Up(p)) >= 1
      BY <1>1, <1>2, <2>1
    <3>2. QED
      BY <3>1
  <2>7. QED
    BY <2>5, <2>6 DEF Loggable
<1>12. QED
  BY <1>1, <1>4, <1>5, <1>8, <1>10, <1>11

LEMMA BeginBackupInv ==
  ASSUME Inv, NEW t \in Threads, BeginBackup(t)
  PROVE  Inv'
<1>1. /\ up /\ UNCHANGED <<up, registry, catalogFile, fs, eng, archive, acked, target, excused, cut>>
      /\ \E path \in Segments :
           pc' = [pc EXCEPT ![t] = [phase |-> "backup", path |-> path,
                                    todo |-> BackupFiles(path), got |-> {}]]
  BY DEF BeginBackup
<1>2. PICK path \in Segments :
           pc' = [pc EXCEPT ![t] = [phase |-> "backup", path |-> path,
                                    todo |-> BackupFiles(path), got |-> {}]]
  BY <1>1
<1>3. TypeInv /\ Sound(fs, eng) /\ Structural(path)
  BY SegmentsAre DEF Inv
<1>4. PICK F : F = BackupFiles(path)
  OBVIOUS
<1>5. \A p \in F : /\ p \in Paths
                   /\ IF Len(path) = 3 THEN p = path /\ p \in Files ELSE Below(p, path)
  BY <1>4 DEF BackupFiles, BackupScope, Paths
<1>6. PICK x : x = [phase |-> "backup", path |-> path, todo |-> F, got |-> {}]
  OBVIOUS
<1>7. /\ pc'[t] = x /\ DOMAIN pc' = Threads
      /\ \A u \in Threads \ {t} : pc'[u] = pc[u]
  <2>1. pc' = [pc EXCEPT ![t] = x]
    BY <1>2, <1>4, <1>6
  <2>2. QED
    BY <1>3, <2>1, Threaded
<1>8. Archived(Len(path), {})'
  BY FS_EmptySet DEF Archived
<1>9. ThreadInv(t)'
  BY <1>3, <1>5, <1>6, <1>7, <1>8 DEF ThreadInv
<1>10. QuietThread(t)
  BY <1>6, <1>7, <1>9 DEF QuietThread
<1>11. QED
  BY <1>1, <1>3, <1>10, SameCatalog, SameDisk, SameArchive, QuietStep

LEMMA BackupFileInv ==
  ASSUME Inv, NEW t \in Threads, BackupFile(t)
  PROVE  Inv'
<1>1. /\ up /\ pc[t].phase = "backup"
      /\ UNCHANGED <<up, registry, catalogFile, fs, eng, acked, target, excused, cut>>
  BY DEF BackupFile
<1>2. TypeInv /\ Sound(fs, eng)
  BY DEF Inv
<1>3. PICK path : path = pc[t].path
  OBVIOUS
<1>4. PICK todo : todo = pc[t].todo
  OBVIOUS
<1>5. PICK old : old = pc[t].got
  OBVIOUS
<1>6. /\ pc[t] = [phase |-> "backup", path |-> path, todo |-> todo, got |-> old]
      /\ Structural(path) /\ Archived(Len(path), old)
      /\ \A p \in todo :
           /\ p \in Paths
           /\ IF Len(path) = 3 THEN p = path /\ p \in Files ELSE Below(p, path)
  <2>1. ThreadInv(t) /\ pc[t] # Idle
    BY <1>1, <1>2 DEF TypeInv, Idle
  <2>2. QED
    BY <1>1, <1>3, <1>4, <1>5, <2>1 DEF ThreadInv
<1>13. PICK p \in todo :
         \/ pc' = [pc EXCEPT ![t] = Idle] /\ archive' = archive
         \/ /\ pc' = [pc EXCEPT ![t] = Idle]
            /\ archive' = [scope |-> BackupScope(path), files |-> old \cup {Entry(path, p)}]
         \/ /\ pc' = [pc EXCEPT ![t].todo = pc[t].todo \ {p}, ![t].got = old \cup {Entry(path, p)}]
            /\ archive' = archive
  BY <1>3, <1>4, <1>5 DEF BackupFile, Entry
<1>14. PICK x : x = Entry(path, p)
  OBVIOUS
<1>15. PICK got : got = old \cup {x}
  OBVIOUS
<1>7. \/ pc' = [pc EXCEPT ![t] = Idle] /\ archive' = archive
      \/ pc' = [pc EXCEPT ![t] = Idle] /\ archive' = [scope |-> BackupScope(path), files |-> got]
      \/ /\ pc' = [pc EXCEPT ![t].todo = todo \ {p}, ![t].got = got]
         /\ archive' = archive
  BY <1>4, <1>13, <1>14, <1>15
<1>8. Archived(Len(path), got)
  <2>1. /\ x.rel \in Seq(Segment) /\ x.recs \subseteq Records
        /\ x.rel = <<>> => Len(path) = 3
        /\ IsLog(x.rel) => \A r \in x.recs : Portable(r)
    BY <1>2, <1>6, <1>14, EntryIs
  <2>2. IsFiniteSet(got)
    BY <1>6, <1>15, FS_AddElement DEF Archived
  <2>3. QED
    BY <1>6, <1>15, <2>1, <2>2 DEF Archived
<1>9. CASE pc' = [pc EXCEPT ![t] = Idle] /\ archive' = archive
  BY <1>1, <1>2, <1>9, IdleThread, SameCatalog, SameDisk, SameArchive, QuietStep
<1>10. CASE pc' = [pc EXCEPT ![t] = Idle] /\ archive' = [scope |-> BackupScope(path), files |-> got]
  <2>1. QuietArchive
    BY <1>8, <1>10 DEF QuietArchive, BackupScope
  <2>2. QED
    BY <1>1, <1>2, <1>10, <2>1, IdleThread, SameCatalog, SameDisk, QuietStep
<1>11. CASE /\ pc' = [pc EXCEPT ![t].todo = todo \ {p}, ![t].got = got]
            /\ archive' = archive
  <2>1. PICK y : y = [phase |-> "backup", path |-> path, todo |-> todo \ {p}, got |-> got]
    OBVIOUS
  <2>2. pc' = [pc EXCEPT ![t] = y]
    <3>1. pc' = [pc EXCEPT ![t] = [[pc[t] EXCEPT !.todo = todo \ {p}] EXCEPT !.got = got]]
      BY <1>2, <1>11 DEF TypeInv
    <3>2. PICK z : z = pc[t]
      OBVIOUS
    <3>3. PICK rest : rest = todo \ {p}
      OBVIOUS
    <3>4. z = [phase |-> "backup", path |-> path, todo |-> todo, got |-> old]
      BY <1>6, <3>2
    <3>5. [z EXCEPT !.todo = rest]
            = [phase |-> "backup", path |-> path, todo |-> rest, got |-> old]
      BY <3>4
    <3>6. PICK m : m = [phase |-> "backup", path |-> path, todo |-> rest, got |-> old]
      OBVIOUS
    <3>7. [m EXCEPT !.got = got] = y
      BY <2>1, <3>3, <3>6
    <3>8. QED
      BY <3>1, <3>2, <3>3, <3>5, <3>6, <3>7
  <2>3. /\ pc'[t] = y /\ DOMAIN pc' = Threads
        /\ \A u \in Threads \ {t} : pc'[u] = pc[u]
    BY <1>2, <2>2, Threaded
  <2>4. Archived(Len(path), got)'
    BY <1>1, <1>8, ArchivedStays, TargetSame
  <2>5. ThreadInv(t)'
    BY <1>6, <2>1, <2>3, <2>4 DEF ThreadInv
  <2>6. QuietThread(t)
    BY <2>1, <2>3, <2>5 DEF QuietThread
  <2>7. QED
    BY <1>1, <1>2, <1>11, <2>6, SameCatalog, SameDisk, SameArchive, QuietStep
<1>12. QED
  BY <1>7, <1>9, <1>10, <1>11

LEMMA RestorableIs ==
  ASSUME TypeInv, NEW path, Structural(path), Restorable(path)
  PROVE  Restored(path, archive.files)
<1>1. PICK X : X = archive.files
  OBVIOUS
<1>2. Archived(archive.scope, X) /\ archive.scope = Len(path)
  BY <1>1 DEF TypeInv, Restorable, BackupScope
<1>3. path \in Seq(Segment) /\ Len(path) \in 1 .. 3
  BY StructuralPaths
<1>4. ASSUME NEW x \in X
      PROVE  path \o x.rel \in Paths /\ x.recs \subseteq Records
  BY <1>1, <1>2 DEF Restorable, Archived, Paths
<1>5. ASSUME NEW x \in X, path \o x.rel \in Logs
      PROVE  Up(path \o x.rel) # <<>> /\ \A r \in x.recs : Portable(r)
  <2>1. PICK rel \in Seq(Segment) : rel = x.rel
    BY <1>2 DEF Archived
  <2>2. rel # <<>>
    <3>1. SUFFICES ASSUME rel = <<>>
                   PROVE  FALSE
      OBVIOUS
    <3>2. Len(path) = 3
      BY <1>2, <2>1, <3>1 DEF Archived
    <3>3. path \o rel = path
      BY <1>3, <3>1
    <3>4. path \in Files
      BY <3>2 DEF Structural
    <3>5. QED
      BY <1>5, <2>1, <3>3, <3>4, FilePaths
  <2>3. /\ Len(path \o rel) = Len(path) + Len(rel)
        /\ (path \o rel)[Len(path) + Len(rel)] = rel[Len(rel)]
        /\ Len(rel) \in Nat /\ Len(rel) # 0
    BY <1>3, <2>1, <2>2
  <2>4. Leaf(path \o rel) = Wal
    BY <1>5, <2>1, FilePaths
  <2>5. IsLog(rel)
    BY <2>2, <2>3, <2>4 DEF IsLog, Leaf
  <2>6. Len(Up(path \o rel)) # 0
    <3>1. Len(path \o rel) = Len(Up(path \o rel)) + 1 /\ Len(Up(path \o rel)) \in Nat
      BY <1>4, <2>1, FilePaths
    <3>2. QED
      BY <1>3, <2>3, <3>1
  <2>7. QED
    BY <1>2, <2>1, <2>5, <2>6 DEF Archived
<1>6. IsFiniteSet(X)
  BY <1>2 DEF Archived
<1>7. QED
  BY <1>1, <1>4, <1>5, <1>6 DEF Restored

LEMMA BeginRestoreInv ==
  ASSUME Inv, NEW t \in Threads, BeginRestore(t)
  PROVE  Inv'
<1>1. /\ up /\ UNCHANGED <<up, registry, catalogFile, fs, eng, archive, acked, target, excused, cut>>
      /\ \E path \in Segments :
           /\ Restorable(path)
           /\ pc' = [pc EXCEPT ![t] = [phase |-> "clear", path |-> path,
                                       files |-> archive.files]]
  BY DEF BeginRestore
<1>2. PICK path \in Segments :
           /\ Restorable(path)
           /\ pc' = [pc EXCEPT ![t] = [phase |-> "clear", path |-> path,
                                       files |-> archive.files]]
  BY <1>1
<1>3. TypeInv /\ Sound(fs, eng) /\ Structural(path)
  BY SegmentsAre DEF Inv
<1>4. PICK X : X = archive.files
  OBVIOUS
<1>5. Restored(path, X)
  BY <1>2, <1>3, <1>4, RestorableIs
<1>6. PICK x : x = [phase |-> "clear", path |-> path, files |-> X]
  OBVIOUS
<1>7. /\ pc'[t] = x /\ DOMAIN pc' = Threads
      /\ \A u \in Threads \ {t} : pc'[u] = pc[u]
  <2>1. pc' = [pc EXCEPT ![t] = x]
    BY <1>2, <1>4, <1>6
  <2>2. QED
    BY <1>3, <2>1, Threaded
<1>8. Restored(path, X)'
  BY <1>1, <1>5, RestoredStays, TargetSame
<1>9. ThreadInv(t)'
  BY <1>3, <1>6, <1>7, <1>8 DEF ThreadInv
<1>10. QuietThread(t)
  BY <1>6, <1>7, <1>9 DEF QuietThread
<1>11. QED
  BY <1>1, <1>3, <1>10, SameCatalog, SameDisk, SameArchive, QuietStep

\* A restore's next phase has what the last one had.
LEMMA RestoreGoesOn ==
  ASSUME TypeInv, NEW t \in Threads, pc[t].phase \in {"clear", "write"}, target' = target,
         NEW phase \in {"write", "catalog"}, pc' = [pc EXCEPT ![t] = [pc[t] EXCEPT !.phase = phase]]
  PROVE  QuietThread(t)
<1>1. PICK path : path = pc[t].path
  OBVIOUS
<1>2. PICK X : X = pc[t].files
  OBVIOUS
<1>3. PICK old : old = pc[t].phase
  OBVIOUS
<1>4. /\ pc[t] = [phase |-> old, path |-> path, files |-> X]
      /\ Structural(path) /\ Restored(path, X)
  <2>1. ThreadInv(t) /\ pc[t] # Idle
    BY DEF TypeInv, Idle
  <2>2. QED
    BY <1>1, <1>2, <1>3, <2>1 DEF ThreadInv
<1>5. PICK x : x = [phase |-> phase, path |-> path, files |-> X]
  OBVIOUS
<1>6. /\ pc'[t] = x /\ DOMAIN pc' = Threads
      /\ \A u \in Threads \ {t} : pc'[u] = pc[u]
  <2>1. [pc[t] EXCEPT !.phase = phase] = x
    BY <1>4, <1>5
  <2>2. pc' = [pc EXCEPT ![t] = x]
    BY <2>1
  <2>3. QED
    BY <2>2, Threaded
<1>7. Restored(path, X)'
  BY <1>4, RestoredStays, TargetSame
<1>8. ThreadInv(t)'
  BY <1>4, <1>5, <1>6, <1>7 DEF ThreadInv
<1>9. QED
  BY <1>5, <1>6, <1>8 DEF QuietThread

LEMMA ClearRestoreTargetInv ==
  ASSUME Inv, NEW t \in Threads, ClearRestoreTarget(t)
  PROVE  Inv'
<1>1. /\ up /\ pc[t].phase = "clear"
      /\ pc' = [pc EXCEPT ![t] = [pc[t] EXCEPT !.phase = "write"]]
      /\ UNCHANGED <<up, registry, catalogFile, eng, archive, acked, target>>
  BY DEF ClearRestoreTarget
<1>2. TypeInv /\ Sound(fs, eng)
  BY DEF Inv
<1>3. PICK path : path = pc[t].path
  OBVIOUS
<1>4. Structural(path)
  BY <1>1, <1>2, <1>3 DEF TypeInv, ThreadInv, Idle
<1>5. PICK F : F = ClearedFiles(path)
  OBVIOUS
<1>6. /\ fs' = IF Len(path) = 3 THEN RemoveFiles(fs, F) ELSE RemoveTree(fs, path)
      /\ excused' = excused \cup Concerned(F) /\ cut' = cut \cup Opened(F)
  BY <1>3, <1>5 DEF ClearRestoreTarget, BackupScope
<1>7. F \in SUBSET Files
  BY <1>4, <1>5 DEF ClearedFiles, BackupScope, FilesUnder, Structural
<1>8. QuietDisk
  <2>1. CASE Len(path) = 3
    <3>1. PICK g : g = RemoveFiles(fs, F)
      OBVIOUS
    <3>2. /\ g \in FileSystem /\ g.content = fs.content /\ InPlace(g)
          /\ \A p \in Paths : g.file[p] = IF p \in F THEN 0 ELSE fs.file[p]
      BY <1>2, <1>7, <3>1, RemoveFilesIs
    <3>3. \A p \in Files \ F : g.file[p] = fs.file[p]
      BY <3>2 DEF Paths
    <3>4. \A p \in Paths : g.file[p] = fs.file[p] \/ g.file[p] = 0
      BY <3>2
    <3>5. fs' = g
      BY <1>6, <2>1, <3>1
    <3>6. QED
      BY <1>1, <1>2, <1>6, <1>7, <3>2, <3>3, <3>4, <3>5, RemovedDisk
  <2>2. CASE Len(path) # 3
    <3>1. PICK g : g = RemoveTree(fs, path)
      OBVIOUS
    <3>2. /\ g \in FileSystem /\ g.content = fs.content /\ InPlace(g)
          /\ \A p \in Paths : g.file[p] = IF Below(p, path) THEN 0 ELSE fs.file[p]
      BY <1>2, <1>4, <3>1, StructuralPaths, RemoveTreeIs
    <3>3. \A p \in Files \ F : g.file[p] = fs.file[p]
      BY <1>5, <2>2, <3>2 DEF Paths, ClearedFiles, BackupScope, FilesUnder
    <3>4. \A p \in Paths : g.file[p] = fs.file[p] \/ g.file[p] = 0
      BY <3>2
    <3>5. fs' = g
      BY <1>6, <2>2, <3>1
    <3>6. QED
      BY <1>1, <1>2, <1>6, <1>7, <3>2, <3>3, <3>4, <3>5, RemovedDisk
  <2>3. QED
    BY <2>1, <2>2
<1>9. QuietThread(t)
  BY <1>1, <1>2, RestoreGoesOn
<1>10. QED
  BY <1>1, <1>2, <1>8, <1>9, SameCatalog, SameArchive, QuietStep

LEMMA WriteRestoredInv ==
  ASSUME Inv, NEW t \in Threads, WriteRestored(t)
  PROVE  Inv'
<1>1. PICK path : path = pc[t].path
  OBVIOUS
<1>2. PICK X : X = pc[t].files
  OBVIOUS
<1>3. TypeInv /\ Sound(fs, eng)
  BY DEF Inv
<1>4. /\ up /\ pc[t].phase = "write" /\ Room(fs, eng, Cardinality(X))
      /\ pc' = [pc EXCEPT ![t] = [pc[t] EXCEPT !.phase = "catalog"]]
      /\ UNCHANGED <<up, registry, catalogFile, eng, archive, acked, target>>
  BY <1>2 DEF WriteRestored, CanAllocate, Room
<1>5. Restored(path, X)
  BY <1>1, <1>2, <1>3, <1>4 DEF TypeInv, ThreadInv, Idle
<1>6. PICK F : F = PathsOf(path, X) \cap Files
  OBVIOUS
<1>7. excused' = excused \cup Concerned(F) /\ cut' = cut \cup Opened(F)
  BY <1>1, <1>2, <1>6 DEF WriteRestored, PathsOf
<1>8. PICK f : f = fs
  OBVIOUS
<1>9. PICK e : e = eng
  OBVIOUS
<1>10. PICK g : /\ g = CHOOSE h : IsPut(h, fs, eng, pc[t].path, SUBSET pc[t].files)
                /\ IsPut(g, f, e, path, SUBSET X)
  <2>1. IsFiniteSet(X)
    BY <1>5 DEF Restored
  <2>2. \E h : IsPut(h, fs, eng, pc[t].path, SUBSET pc[t].files)
    BY <1>2, <2>1, PutExists
  <2>3. PICK h : h = CHOOSE k : IsPut(k, fs, eng, pc[t].path, SUBSET pc[t].files)
    OBVIOUS
  <2>4. IsPut(h, fs, eng, pc[t].path, SUBSET pc[t].files)
    BY <2>2, <2>3
  <2>5. QED
    BY <1>1, <1>2, <1>8, <1>9, <2>3, <2>4
<1>11. fs' = g[X]
  <2>1. fs' = (CHOOSE h : IsPut(h, fs, eng, pc[t].path, SUBSET pc[t].files))[pc[t].files]
    BY DEF WriteRestored, IsPut, Puts, Some
  <2>2. QED
    BY <1>2, <1>10, <2>1
<1>12. Sound(g[X], e) /\ Keeps(f, g[X], PathsOf(path, X))
  BY <1>3, <1>4, <1>5, <1>8, <1>9, <1>10, PutPlaced DEF Placed
<1>13. QuietDisk
  <2>1. Sound(fs, eng)'
    BY <1>4, <1>7, <1>9, <1>11, <1>12, SoundStays, TargetSame
  <2>2. Keeps(fs, fs', F)
    BY <1>6, <1>8, <1>11, <1>12 DEF Keeps
  <2>3. \A r \in Records : target[r].file \in F => r \in excused'
    BY <1>7 DEF Concerned
  <2>4. excused \subseteq excused' /\ excused' \subseteq Records /\ cut' \subseteq Files
    BY <1>3, <1>6, <1>7 DEF TypeInv, Concerned, Opened
  <2>5. QED
    BY <2>1, <2>2, <2>3, <2>4 DEF QuietDisk
<1>14. QuietThread(t)
  BY <1>3, <1>4, RestoreGoesOn
<1>15. QED
  BY <1>3, <1>4, <1>13, <1>14, SameCatalog, SameArchive, QuietStep

LEMMA RestoredCatalogIs ==
  ASSUME TypeInv, Sound(fs, eng), NEW path, Structural(path)
  PROVE  /\ RestoredCatalog(path) \in Registries
         /\ registry.drawers \subseteq RestoredCatalog(path).drawers
<1>1. PICK d \in Databases : d = <<path[1]>>
  BY DEF Structural
<1>2. path \in Seq(Segment) /\ Len(path) \in 1 .. 3
  BY StructuralPaths
<1>3. PICK B : B = IF Len(path) = 1 THEN RestoredBays(path) ELSE {path[2]}
  OBVIOUS
<1>4. PICK N : N = UNION {{<<d, b, w>> :
                             w \in (IF Len(path) = 3 THEN {path[3]}
                                    ELSE RestoredDrawers(Append(d, b)))} : b \in B}
  OBVIOUS
<1>5. PICK S : S = {<<d, b>> : b \in B}
  OBVIOUS
<1>6. B \subseteq Schemas
  <2>1. CASE Len(path) = 1
    <3>1. SUFFICES ASSUME NEW p \in ChildDirectories(fs.dirs, path)
                   PROVE  Leaf(p) \in Schemas
      BY <1>3, <2>1 DEF RestoredBays
    <3>2. p \in Dirs /\ Len(p) = 2 /\ SubSeq(p, 1, 1) = path
      BY <2>1 DEF ChildDirectories, IsUnder, Sound, FileSystem
    <3>3. p \in Seq(Segment)
      BY <3>2, DirPaths
    <3>4. p[1] = path[1]
      <4>1. SubSeq(p, 1, 1)[1] = p[1]
        BY <3>2, <3>3
      <4>2. QED
        BY <3>2, <4>1
    <3>5. QED
      BY <1>1, <3>2, <3>4, CatalogAssumption DEF Leaf
  <2>2. CASE Len(path) = 2
    <3>1. path \in Dirs /\ <<path[1]>> \in Databases
      BY <2>2 DEF Structural
    <3>2. QED
      BY <1>3, <2>2, <3>1, CatalogAssumption
  <2>3. CASE Len(path) = 3
    <3>1. path \in Files /\ <<path[1]>> \in Databases
      BY <2>3 DEF Structural
    <3>2. Up(path) \in Dirs /\ Len(Up(path)) = 2
      <4>1. path \in Paths
        BY <3>1 DEF Paths
      <4>2. Up(path) \in Cores /\ Len(path) = Len(Up(path)) + 1 /\ Len(Up(path)) \in Nat
        BY <4>1, FilePaths
      <4>3. Up(path) \in Dirs
        BY <4>2, DataPaths
      <4>4. PICK n \in Nat : n = Len(Up(path))
        BY <4>2
      <4>5. 3 = n + 1
        BY <2>3, <4>2, <4>4
      <4>6. n = 2
        BY <4>5
      <4>7. QED
        BY <4>3, <4>4, <4>6
    <3>3. Up(path)[1] = path[1] /\ Up(path)[2] = path[2]
      <4>1. Up(path) = SubSeq(path, 1, 2)
        BY <2>3 DEF Up
      <4>2. QED
        BY <1>2, <2>3, <4>1
    <3>4. path[2] \in Schemas
      BY <3>1, <3>2, <3>3, CatalogAssumption
    <3>5. QED
      BY <1>3, <2>3, <3>4
  <2>4. QED
    BY <1>2, <2>1, <2>2, <2>3
<1>7. \A b : RestoredDrawers(Append(d, b)) \subseteq Drawers
  BY FilePaths DEF RestoredDrawers, StemsIn, LinkedFiles
<1>8. Len(path) = 3 => path[3] \in Drawers
  <2>1. ASSUME Len(path) = 3
        PROVE  path[3] \in Drawers
    <3>1. path \in Files
      BY <2>1 DEF Structural
    <3>2. QED
      BY <2>1, <3>1, FilePaths DEF Leaf
  <2>2. QED
    BY <2>1
<1>9. N \subseteq Names
  BY <1>4, <1>6, <1>7, <1>8 DEF Names
<1>10. S \subseteq Databases \X Schemas
  BY <1>5, <1>6
<1>11. registry \in Registries
  BY DEF TypeInv
<1>12. RestoredCatalog(path) =
         [registry EXCEPT !.databases = registry.databases \cup {d},
                          !.schemas = registry.schemas \cup S,
                          !.drawers = registry.drawers \cup N]
  BY <1>1, <1>3, <1>4, <1>5, <1>11 DEF RestoredCatalog, Registries
<1>13. QED
  BY <1>9, <1>10, <1>11, <1>12 DEF Registries

LEMMA RegisterRestoredInv ==
  ASSUME Inv, NEW t \in Threads, RegisterRestored(t)
  PROVE  Inv'
<1>1. /\ up /\ pc[t].phase = "catalog" /\ pc' = [pc EXCEPT ![t] = Idle]
      /\ registry' = RestoredCatalog(pc[t].path)
      /\ catalogFile' = [whole |-> TRUE, reg |-> registry']
      /\ UNCHANGED <<up, fs, eng, archive, acked, target, excused, cut>>
  BY DEF RegisterRestored, PersistToRoot
<1>2. TypeInv /\ Sound(fs, eng)
  BY DEF Inv
<1>3. Structural(pc[t].path)
  BY <1>1, <1>2 DEF TypeInv, ThreadInv, Idle
<1>4. PICK path : path = pc[t].path
  OBVIOUS
<1>5. QuietCatalog
  BY <1>1, <1>2, <1>3, <1>4, RestoredCatalogIs DEF QuietCatalog
<1>6. QED
  BY <1>1, <1>2, <1>5, IdleThread, SameDisk, SameArchive, QuietStep

-----------------------------------------------------------------------------
(* Writing a record.                                                       *)

LEMMA AppendFile ==
  ASSUME NEW d \in DataDirs, NEW w \in Drawers
  PROVE  Append(d, w) \in Files /\ Up(Append(d, w)) = d
<1>1. d \in Cores
  BY DataPaths
<1>2. QED
  BY <1>1, HandlePaths, FileParts

\* What the invariant needs of a destination.
Sent(d) ==
  /\ Destined(d)
  /\ d.implicit \in BOOLEAN /\ (d.implicit => d.name # <<>>)
  /\ d.name # <<>> /\ ~d.implicit => d.name \in registry.drawers
  /\ d.name = <<>> =>
       \E c \in Databases : Up(d.file) = c \/ \E s \in Schemas : Up(d.file) = SchemaPath(c, s)

\* A drawer of the database's own directory, or any of the root's.
Homed(core, path) == core = <<>> \/ \E w \in Drawers : path = Append(core, w)

LEMMA DestinationIs ==
  ASSUME NEW k, NEW core \in Cores, NEW path \in Files, NEW n \in Names \cup {<<>>},
         Homed(core, path),
         NEW d, d = Destination(k, core, path, n)
  PROVE  /\ Destined(d) /\ d.core = core /\ d.file = path
         /\ d.implicit \in BOOLEAN /\ (d.implicit => d.name # <<>>)
         /\ d.name # <<>> /\ ~d.implicit => d.name \in registry.drawers
         /\ n # <<>> /\ (ContainsDrawer(registry, n) \/ ImplicitDrawer(registry, n)) => d.name = n
<1>1. CASE n = <<>>
  BY <1>1 DEF Destination, Destined, Homed
<1>2. CASE n # <<>>
  <2>1. n \in Names
    BY <1>2
  <2>2. /\ d.core = core /\ d.file = path /\ d.name = CataloguedName(registry, n)
        /\ d.implicit = ImplicitDrawer(registry, n)
    <3>1. PICK b : b = (n # <<>> /\ ImplicitDrawer(registry, n))
      OBVIOUS
    <3>2. PICK m : m = IF n = <<>> THEN n ELSE CataloguedName(registry, n)
      OBVIOUS
    <3>3. d = [kind |-> k, core |-> core, file |-> path, name |-> m, implicit |-> b]
      BY <3>1, <3>2 DEF Destination
    <3>4. d.core = core /\ d.file = path /\ d.name = m /\ d.implicit = b
      BY <3>3
    <3>5. m = CataloguedName(registry, n)
      BY <1>2, <3>2
    <3>6. b = ImplicitDrawer(registry, n)
      <4>1. ImplicitDrawer(registry, n) \in BOOLEAN
        BY DEF ImplicitDrawer
      <4>2. QED
        BY <1>2, <3>1, <4>1
    <3>7. QED
      BY <3>4, <3>5, <3>6
  <2>3. CataloguedName(registry, n) \in Names \cup {<<>>}
    BY <2>1 DEF CataloguedName
  <2>4. ImplicitDrawer(registry, n) \in BOOLEAN
    BY DEF ImplicitDrawer
  <2>5. QED
    BY <1>2, <2>1, <2>2, <2>3, <2>4 DEF Destined, CataloguedName, ContainsDrawer, Homed
<1>3. QED
  BY <1>1, <1>2

LEMMA SentIs ==
  ASSUME TypeInv, NEW d \in Destinations
  PROVE  Sent(d)
<1>1. registry \in Registries
  BY DEF TypeInv
<1>2. ASSUME d \in SchemaScope
      PROVE  Sent(d)
  <2>1. PICK n \in Names : d = Destination("schema", SchemaPath(n[1], n[2]), DrawerPath(n), n)
    BY <1>2 DEF SchemaScope
  <2>2. PICK core \in DataDirs : core = SchemaPath(n[1], n[2])
    BY NamePaths
  <2>3. PICK path \in Files : path = DrawerPath(n) /\ Up(path) = core
    BY <2>2, NamePaths
  <2>4. path = Append(core, n[3]) /\ n[3] \in Drawers /\ core \in Cores
    BY <2>2, <2>3, NamePaths, DataPaths DEF DrawerPath
  <2>5. Homed(core, path)
    BY <2>4 DEF Homed
  <2>6. d = Destination("schema", core, path, n) /\ n \in Names \cup {<<>>} /\ core \in Cores
    BY <2>1, <2>2, <2>3, <2>4
  <2>7. /\ Destined(d) /\ d.file = path
        /\ d.implicit \in BOOLEAN /\ (d.implicit => d.name # <<>>)
        /\ d.name # <<>> /\ ~d.implicit => d.name \in registry.drawers
    BY <2>5, <2>6, DestinationIs
  <2>8. QED
    BY <2>2, <2>3, <2>7, NamePaths DEF Sent
<1>3. ASSUME d \in TenantScope
      PROVE  Sent(d)
  <2>1. PICK r \in registry.routes, n \in Names :
          /\ ValidAgainstRegistry(registry, n)
          /\ d = Destination("tenant", TenantSchemaPath(r.location, n[2]),
                             Append(TenantSchemaPath(r.location, n[2]), n[3]), n)
    BY <1>3 DEF TenantScope
  <2>2. r.location \in Locations /\ n[2] \in Schemas /\ n[3] \in Drawers
    BY <1>1, NamePaths DEF Registries
  <2>3. PICK core \in DataDirs : core = TenantSchemaPath(r.location, n[2])
    BY <2>2, NamePaths
  <2>4. PICK path \in Files : path = Append(core, n[3])
    BY <2>2, <2>3, AppendFile
  <2>5. core \in Cores /\ Homed(core, path)
    BY <2>2, <2>4, DataPaths DEF Homed
  <2>6. d = Destination("tenant", core, path, n)
    BY <2>1, <2>3, <2>4
  <2>7. ~IsEmpty(registry)
    BY DEF IsEmpty, EmptyRegistry
  <2>8. n # <<>> /\ (ContainsDrawer(registry, n) \/ ImplicitDrawer(registry, n))
    BY <2>1, <2>7, NamePaths DEF ValidAgainstRegistry
  <2>9. /\ Destined(d) /\ d.name = n
        /\ d.implicit \in BOOLEAN /\ (d.implicit => d.name # <<>>)
        /\ d.name # <<>> /\ ~d.implicit => d.name \in registry.drawers
    BY <2>5, <2>6, <2>8, DestinationIs
  <2>10. QED
    BY <2>8, <2>9 DEF Sent
<1>4. ASSUME d \in DatabaseScope
      PROVE  Sent(d)
  <2>1. PICK c \in Databases, w \in Drawers : d = Destination("database", c, Append(c, w), <<>>)
    BY <1>4 DEF DatabaseScope, Single
  <2>2. c \in DataDirs /\ c \in Cores
    BY NamePaths
  <2>3. PICK path \in Files : path = Append(c, w) /\ Up(path) = c
    BY <2>2, AppendFile
  <2>4. d = Destination("database", c, path, <<>>)
    BY <2>1, <2>3
  <2>5. <<>> \in Names \cup {<<>>} /\ Homed(c, path)
    BY <2>3 DEF Homed
  <2>6. /\ Destined(d) /\ d.file = path
        /\ d.implicit \in BOOLEAN /\ (d.implicit => d.name # <<>>)
        /\ d.name # <<>> /\ ~d.implicit => d.name \in registry.drawers
    BY <2>2, <2>4, <2>5, DestinationIs
  <2>7. QED
    BY <2>3, <2>6 DEF Sent
<1>5. ASSUME d \in DrawerNamespace
      PROVE  Sent(d)
  <2>1. PICK c \in Databases, w \in Drawers : d = Destination("namespace", <<>>, Append(c, w), <<>>)
    BY <1>5 DEF DrawerNamespace, Single
  <2>2. c \in DataDirs
    BY NamePaths
  <2>3. PICK path \in Files : path = Append(c, w) /\ Up(path) = c
    BY <2>2, AppendFile
  <2>4. d = Destination("namespace", <<>>, path, <<>>) /\ <<>> \in Cores
    BY <2>1, <2>3, DataPaths
  <2>5. <<>> \in Names \cup {<<>>} /\ Homed(<<>>, path)
    BY DEF Homed
  <2>6. /\ Destined(d) /\ d.file = path
        /\ d.implicit \in BOOLEAN /\ (d.implicit => d.name # <<>>)
        /\ d.name # <<>> /\ ~d.implicit => d.name \in registry.drawers
    BY <2>4, <2>5, DestinationIs
  <2>7. QED
    BY <2>3, <2>6 DEF Sent
<1>6. ASSUME d \in QualifiedDrawer
      PROVE  Sent(d)
  <2>1. PICK n \in Names : d = Destination("qualified", <<>>, DrawerPath(n), n)
    BY <1>6 DEF QualifiedDrawer
  <2>2. PICK path \in Files : path = DrawerPath(n) /\ Up(path) = SchemaPath(n[1], n[2])
    BY NamePaths
  <2>3. d = Destination("qualified", <<>>, path, n) /\ <<>> \in Cores /\ Homed(<<>>, path)
    BY <2>1, <2>2, DataPaths DEF Homed
  <2>4. /\ Destined(d) /\ d.file = path
        /\ d.implicit \in BOOLEAN /\ (d.implicit => d.name # <<>>)
        /\ d.name # <<>> /\ ~d.implicit => d.name \in registry.drawers
    BY <2>3, DestinationIs
  <2>5. QED
    BY <2>2, <2>4, NamePaths DEF Sent
<1>7. QED
  BY <1>2, <1>3, <1>4, <1>5, <1>6 DEF Destinations

LEMMA BeginWriteInv ==
  ASSUME Inv, NEW t \in Threads, BeginWrite(t)
  PROVE  Inv'
<1>1. /\ up /\ pc[t] = Idle /\ Unwritten # {}
      /\ UNCHANGED <<up, registry, catalogFile, fs, eng, archive, acked, excused, cut>>
  BY DEF BeginWrite
<1>2. PICK r : r = CHOOSE x \in Unwritten : \A y \in Unwritten : x <= y
  OBVIOUS
<1>3. r \in Unwritten /\ r \in Records /\ target[r] = NoTarget
  <2>1. \E x \in Unwritten : \A y \in Unwritten : x <= y
    <3>1. Unwritten \in SUBSET Nat
      BY CatalogAssumption DEF Unwritten
    <3>2. QED
      BY <1>1, <3>1, LeastExists
  <2>2. r \in Unwritten
    BY <1>2, <2>1
  <2>3. QED
    BY <2>2 DEF Unwritten
<1>4. PICK d \in Destinations :
        /\ pc' = [pc EXCEPT ![t] = [phase |-> "run", rec |-> r, to |-> d]]
        /\ target' = [target EXCEPT ![r] = [file |-> d.file, name |-> d.name, core |-> d.core]]
  BY <1>2 DEF BeginWrite
<1>5. TypeInv /\ TargetInv /\ Sound(fs, eng) /\ SavedInv /\ NamedInv /\ PlaceInv
  BY DEF Inv, TypeInv
<1>6. Sent(d) /\ Destined(d)
  BY <1>5, SentIs DEF Sent
<1>7. /\ DOMAIN target' = Records /\ target'[r] = Target(d)
      /\ \A x \in Records : x # r => target'[x] = target[x]
  BY <1>3, <1>4, <1>5 DEF TargetInv, Target
<1>8. TargetGrows
  BY <1>3, <1>7 DEF TargetGrows
<1>9. PICK x : x = [phase |-> "run", rec |-> r, to |-> d]
  OBVIOUS
<1>10. /\ pc'[t] = x /\ DOMAIN pc' = Threads
       /\ \A u \in Threads \ {t} : pc'[u] = pc[u]
  <2>1. pc' = [pc EXCEPT ![t] = x]
    BY <1>4, <1>9
  <2>2. QED
    BY <1>5, <2>1, Threaded
<1>11. \A u \in Threads : ThreadInv(u)'
  <2>1. ASSUME NEW u \in Threads \ {t}
        PROVE  ThreadInv(u)'
    BY <1>5, <1>8, <1>10, ThreadStays DEF TypeInv
  <2>2. ThreadInv(t)'
    BY <1>3, <1>6, <1>7, <1>9, <1>10 DEF ThreadInv, Sent
  <2>3. QED
    BY <2>1, <2>2
<1>12. TargetInv'
  <2>1. Destined(Target(d)) /\ Target(d) = Target(Target(d))
    BY <1>6 DEF Destined, Target
  <2>2. QED
    BY <1>5, <1>7, <2>1 DEF TargetInv
<1>13. (Archived(archive.scope, archive.files))'
  <2>1. PICK n : n = archive.scope
    OBVIOUS
  <2>2. PICK X : X = archive.files
    OBVIOUS
  <2>3. Archived(n, X)'
    BY <1>5, <1>8, <2>1, <2>2, ArchivedStays DEF TypeInv
  <2>4. QED
    BY <1>1, <2>1, <2>2, <2>3 DEF Archived
<1>14. TypeInv'
  <2>1. /\ up' \in BOOLEAN /\ up'
        /\ registry' \in Registries
        /\ catalogFile' = [whole |-> catalogFile'.whole, reg |-> registry']
        /\ catalogFile'.whole \in BOOLEAN /\ (up' => catalogFile'.whole)
        /\ archive' = [scope |-> archive'.scope, files |-> archive'.files]
        /\ acked' \subseteq Records /\ excused' \subseteq Records /\ cut' \subseteq Files
    BY <1>1, <1>5 DEF TypeInv
  <2>2. QED
    BY <1>10, <1>11, <1>12, <1>13, <2>1 DEF TypeInv
<1>15. Sound(fs, eng)'
  BY <1>1, <1>5, <1>8, SoundSame
<1>16. \A z \in Records \ excused' : Answered(z)' => Answered(z)
  BY <1>1, <1>9, <1>10 DEF Answered
<1>17. SavedInv'
  BY <1>1, <1>5, <1>8, <1>16, SavedSame
<1>18. NamedInv'
  <2>1. ASSUME NEW z \in Records \ excused', Catalogued(z)', target'[z].name # <<>>
        PROVE  target'[z].name \in registry'.drawers
    <3>1. CASE Catalogued(z)
      <4>1. target[z] # NoTarget
        BY <1>1, <1>5, <3>1, CataloguedHaveTargets
      <4>2. target'[z] = target[z]
        BY <1>8, <4>1 DEF TargetGrows
      <4>3. QED
        BY <1>1, <1>5, <2>1, <3>1, <4>2 DEF NamedInv
    <3>2. CASE ~Catalogued(z)
      <4>1. z = r /\ ~d.implicit
        BY <1>1, <1>9, <1>10, <2>1, <3>2 DEF Catalogued
      <4>2. target'[z].name = d.name
        BY <1>7, <4>1 DEF Target
      <4>3. QED
        BY <1>1, <1>6, <2>1, <4>1, <4>2 DEF Sent
    <3>3. QED
      BY <3>1, <3>2
  <2>2. QED
    BY <2>1 DEF NamedInv
<1>19. PlaceInv'
  <2>1. ASSUME NEW z \in Records, target'[z] # NoTarget, target'[z].name = <<>>
        PROVE  \E c \in Databases :
                 \/ Up(target'[z].file) = c
                 \/ \E s \in Schemas : Up(target'[z].file) = SchemaPath(c, s)
    <3>1. CASE z = r
      <4>1. target'[z].file = d.file /\ target'[z].name = d.name
        BY <1>7, <3>1 DEF Target
      <4>2. QED
        BY <1>6, <2>1, <4>1 DEF Sent
    <3>2. CASE z # r
      <4>1. target'[z] = target[z]
        BY <1>7, <3>2
      <4>2. QED
        BY <1>5, <2>1, <4>1 DEF PlaceInv
    <3>3. QED
      BY <3>1, <3>2
  <2>2. QED
    BY <2>1 DEF PlaceInv
<1>20. QED
  BY <1>14, <1>15, <1>17, <1>18, <1>19 DEF Inv

LEMMA ArchiveStays ==
  ASSUME TypeInv, TargetGrows, archive' = archive
  PROVE  /\ archive' = [scope |-> archive'.scope, files |-> archive'.files]
         /\ (Archived(archive.scope, archive.files))'
<1>1. PICK n : n = archive.scope
  OBVIOUS
<1>2. PICK X : X = archive.files
  OBVIOUS
<1>3. Archived(n, X)'
  BY <1>1, <1>2, ArchivedStays DEF TypeInv
<1>4. archive' = [scope |-> archive'.scope, files |-> archive'.files]
  BY DEF TypeInv
<1>5. QED
  BY <1>1, <1>2, <1>3, <1>4 DEF Archived

\* A thread with a command under way, and its command.
LEMMA RunningIs ==
  ASSUME TypeInv, NEW t \in Threads, pc[t].phase \in {"run", "ack"}
  PROVE  Running(t)
BY DEF TypeInv, ThreadInv, Running, Idle

LEMMA RunWriteInv ==
  ASSUME Inv, NEW t \in Threads, RunWrite(t)
  PROVE  Inv'
<1>1. PICK r : r = pc[t].rec
  OBVIOUS
<1>2. PICK d : d = pc[t].to
  OBVIOUS
<1>3. /\ up /\ pc[t].phase = "run"
      /\ CanAllocate(fs, eng, 3 + Cardinality(ReplayedPaths(fs, d.core)))
      /\ excused' = (IF d.file \in cut THEN excused \cup {r} ELSE excused)
      /\ UNCHANGED <<up, registry, catalogFile, archive, acked, target, cut>>
  BY <1>1, <1>2 DEF RunWrite
<1>4. PICK checkpoint \in BOOLEAN :
        LET c == ExecuteInDatabase(State(fs, eng), d, r, checkpoint)
        IN  /\ fs' = c.fs /\ eng' = c.eng
            /\ pc' = [pc EXCEPT ![t] = IF c.ok THEN [pc[t] EXCEPT !.phase = "ack"] ELSE Idle]
  BY <1>1, <1>2 DEF RunWrite
<1>5. PICK s : s = State(fs, eng)
  OBVIOUS
<1>6. PICK c : c = ExecuteInDatabase(s, d, r, checkpoint)
  OBVIOUS
<1>7. /\ fs' = c.fs /\ eng' = c.eng
      /\ pc' = [pc EXCEPT ![t] = IF c.ok THEN [pc[t] EXCEPT !.phase = "ack"] ELSE Idle]
  BY <1>4, <1>5, <1>6
<1>8. TypeInv /\ TargetInv /\ Sound(fs, eng) /\ SavedInv /\ NamedInv /\ PlaceInv /\ TargetGrows
  BY <1>3, TargetSame DEF Inv, TypeInv
<1>9. Running(t)
  BY <1>3, <1>8, RunningIs
<1>10. /\ r \in Records /\ Destined(d) /\ target[r] = Target(d)
       /\ (d.implicit => d.name # <<>>) /\ d.implicit \in BOOLEAN
       /\ pc[t] = [phase |-> "run", rec |-> r, to |-> d]
  BY <1>1, <1>2, <1>3, <1>9 DEF Running
<1>11. SoundCall(s) /\ s.ok /\ s.fs = fs /\ s.eng = eng
  <2>1. fs \in FileSystem /\ eng \in Engine
    BY <1>8 DEF Sound
  <2>2. s = [fs |-> fs, eng |-> eng, ok |-> TRUE]
    BY <1>5 DEF State
  <2>3. QED
    BY <1>8, <2>1, <2>2 DEF SoundCall, Call
<1>12. PICK m \in Nat : Cardinality(ReplayedPaths(fs, d.core)) = m
  BY <1>8, <1>10, ReplayedHandles, DestinedIs
<1>13. Room(s.fs, s.eng, 3 + m) /\ Cardinality(ReplayedPaths(s.fs, d.core)) = m
  BY <1>3, <1>11, <1>12 DEF CanAllocate, Room
<1>14. /\ Made(s, c, 3 + m)
       /\ c.ok /\ d.file \notin cut =>
            c.fs.file[d.file] # 0 /\ r \in c.fs.content[c.fs.file[d.file]]
  BY <1>6, <1>8, <1>10, <1>11, <1>13, ExecuteSound
<1>15. Sound(c.fs, c.eng) /\ Keeps(fs, c.fs, {})
  BY <1>11, <1>14 DEF Made, Outcome
<1>16. Sound(fs, eng)'
  <2>1. cut \subseteq cut'
    BY <1>3
  <2>2. PICK f : f = c.fs
    OBVIOUS
  <2>3. PICK e : e = c.eng
    OBVIOUS
  <2>4. QED
    BY <1>7, <1>8, <1>15, <2>1, <2>2, <2>3, SoundStays
<1>17. PICK x : x = IF c.ok THEN [phase |-> "ack", rec |-> r, to |-> d] ELSE Idle
  OBVIOUS
<1>18. /\ pc'[t] = x /\ DOMAIN pc' = Threads
       /\ \A u \in Threads \ {t} : pc'[u] = pc[u]
  <2>1. [pc[t] EXCEPT !.phase = "ack"] = [phase |-> "ack", rec |-> r, to |-> d]
    BY <1>10
  <2>2. pc' = [pc EXCEPT ![t] = x]
    BY <1>7, <1>17, <2>1
  <2>3. QED
    BY <1>8, <2>2, Threaded
<1>19. \A u \in Threads : ThreadInv(u)'
  <2>1. ASSUME NEW u \in Threads \ {t}
        PROVE  ThreadInv(u)'
    BY <1>8, <1>18, ThreadStays DEF TypeInv
  <2>2. CASE c.ok
    <3>1. pc'[t] = [phase |-> "ack", rec |-> r, to |-> d]
      BY <1>17, <1>18, <2>2
    <3>2. target'[r] = Target(d)
      BY <1>3, <1>10
    <3>3. ThreadInv(t)'
      BY <1>10, <3>1, <3>2 DEF ThreadInv
    <3>4. QED
      BY <2>1, <3>3
  <2>3. CASE ~c.ok
    <3>1. ThreadInv(t)'
      BY <1>17, <1>18, <2>3 DEF ThreadInv
    <3>2. QED
      BY <2>1, <3>1
  <2>4. QED
    BY <2>2, <2>3
<1>20. excused \subseteq excused' /\ excused' \subseteq Records
  BY <1>3, <1>8, <1>10 DEF TypeInv
<1>21. TypeInv'
  <2>1. /\ archive' = [scope |-> archive'.scope, files |-> archive'.files]
        /\ (Archived(archive.scope, archive.files))'
    BY <1>3, <1>8, ArchiveStays
  <2>2. TargetInv'
    BY <1>3, <1>8 DEF TargetInv
  <2>3. /\ up' \in BOOLEAN /\ up'
        /\ registry' \in Registries
        /\ catalogFile' = [whole |-> catalogFile'.whole, reg |-> registry']
        /\ catalogFile'.whole \in BOOLEAN /\ (up' => catalogFile'.whole)
        /\ acked' \subseteq Records /\ cut' \subseteq Files
    BY <1>3, <1>8 DEF TypeInv
  <2>4. QED
    BY <1>18, <1>19, <1>20, <2>1, <2>2, <2>3 DEF TypeInv
<1>22. SavedInv'
  <2>1. ASSUME NEW z \in Records \ excused', Answered(z)'
        PROVE  /\ target'[z] # NoTarget
               /\ fs'.file[target'[z].file] # 0
               /\ z \in fs'.content[fs'.file[target'[z].file]]
    <3>1. CASE Answered(z)
      <4>1. /\ target[z] # NoTarget
            /\ fs.file[target[z].file] # 0
            /\ z \in fs.content[fs.file[target[z].file]]
        BY <1>8, <1>20, <2>1, <3>1 DEF SavedInv
      <4>2. target[z].file \in Files
        BY <1>8, <2>1, <4>1 DEF TargetInv, Destined
      <4>3. QED
        BY <1>3, <1>7, <1>15, <4>1, <4>2 DEF Keeps
    <3>2. CASE ~Answered(z)
      <4>1. c.ok /\ z = r
        BY <1>3, <1>17, <1>18, <2>1, <3>2 DEF Answered, Idle
      <4>2. d.file \notin cut
        BY <1>3, <2>1, <4>1
      <4>3. target'[z].file = d.file
        BY <1>3, <1>10, <4>1 DEF Target
      <4>4. target'[z] # NoTarget
        <5>1. d.file # <<>>
          BY <1>10, DestinedIs, FilePaths DEF Paths
        <5>2. QED
          BY <4>3, <5>1 DEF NoTarget
      <4>5. QED
        BY <1>7, <1>14, <4>1, <4>2, <4>3, <4>4
    <3>3. QED
      BY <3>1, <3>2
  <2>2. QED
    BY <2>1 DEF SavedInv
<1>23. NamedInv'
  <2>1. ASSUME NEW z \in Records, Catalogued(z)'
        PROVE  Catalogued(z)
    BY <1>3, <1>10, <1>17, <1>18, <2>1 DEF Catalogued, Idle
  <2>2. \A z \in Records \ excused : Catalogued(z) => target[z] # NoTarget
    BY <1>8, CataloguedHaveTargets
  <2>3. QED
    BY <1>3, <1>8, <1>20, <2>1, <2>2, NamedStays
<1>24. PlaceInv'
  BY <1>3, <1>8 DEF PlaceInv
<1>25. QED
  BY <1>16, <1>21, <1>22, <1>23, <1>24 DEF Inv

LEMMA AckWriteInv ==
  ASSUME Inv, NEW t \in Threads, AckWrite(t)
  PROVE  Inv'
<1>1. PICK r : r = pc[t].rec
  OBVIOUS
<1>2. PICK d : d = pc[t].to
  OBVIOUS
<1>3. /\ up /\ pc[t].phase = "ack"
      /\ acked' = acked \cup {r} /\ pc' = [pc EXCEPT ![t] = Idle]
      /\ UNCHANGED <<up, fs, eng, archive, target, excused, cut>>
      /\ IF d.implicit /\ ~ContainsDrawer(registry, d.name)
         THEN /\ registry' = RegisterDrawer(registry, d.name)
              /\ catalogFile' = [whole |-> TRUE, reg |-> registry']
         ELSE UNCHANGED <<registry, catalogFile>>
  BY <1>1, <1>2 DEF AckWrite, PersistToRoot
<1>4. TypeInv /\ TargetInv /\ Sound(fs, eng) /\ SavedInv /\ NamedInv /\ PlaceInv /\ TargetGrows
  BY <1>3, TargetSame DEF Inv, TypeInv
<1>5. Running(t)
  BY <1>3, <1>4, RunningIs
<1>6. /\ r \in Records /\ Destined(d) /\ target[r] = Target(d)
      /\ (d.implicit => d.name # <<>>) /\ d.implicit \in BOOLEAN
  BY <1>1, <1>2, <1>5 DEF Running
<1>7. d.implicit => d.name \in Names
  BY <1>6 DEF Destined
<1>8. /\ registry' \in Registries
      /\ catalogFile' = [whole |-> TRUE, reg |-> registry']
      /\ registry.drawers \subseteq registry'.drawers
      /\ d.implicit => d.name \in registry'.drawers
  <2>1. registry \in Registries /\ catalogFile = [whole |-> TRUE, reg |-> registry]
    BY <1>3, <1>4 DEF TypeInv
  <2>2. CASE d.implicit /\ ~ContainsDrawer(registry, d.name)
    BY <1>3, <1>7, <2>1, <2>2, RegisterDrawerIs
  <2>3. CASE ~(d.implicit /\ ~ContainsDrawer(registry, d.name))
    BY <1>3, <2>1, <2>3 DEF ContainsDrawer
  <2>4. QED
    BY <2>2, <2>3
<1>9. /\ pc'[t] = Idle /\ DOMAIN pc' = Threads
      /\ \A u \in Threads \ {t} : pc'[u] = pc[u]
  BY <1>3, <1>4, Threaded
<1>10. \A u \in Threads : ThreadInv(u)'
  <2>1. ASSUME NEW u \in Threads \ {t}
        PROVE  ThreadInv(u)'
    BY <1>4, <1>9, ThreadStays DEF TypeInv
  <2>2. ThreadInv(t)'
    BY <1>9 DEF ThreadInv
  <2>3. QED
    BY <2>1, <2>2
<1>11. TypeInv'
  <2>1. /\ archive' = [scope |-> archive'.scope, files |-> archive'.files]
        /\ (Archived(archive.scope, archive.files))'
    BY <1>3, <1>4, ArchiveStays
  <2>2. TargetInv'
    BY <1>3, <1>4 DEF TargetInv
  <2>3. /\ up' \in BOOLEAN /\ up'
        /\ acked' \subseteq Records /\ excused' \subseteq Records /\ cut' \subseteq Files
    BY <1>3, <1>4, <1>6 DEF TypeInv
  <2>4. QED
    BY <1>8, <1>9, <1>10, <2>1, <2>2, <2>3 DEF TypeInv
<1>12. Sound(fs, eng)'
  BY <1>3, <1>4, SoundSame
<1>13. SavedInv'
  <2>1. ASSUME NEW z \in Records \ excused', Answered(z)'
        PROVE  Answered(z)
    BY <1>1, <1>3, <1>9, <2>1 DEF Answered, Idle
  <2>2. QED
    BY <1>3, <1>4, <2>1, SavedSame
<1>14. NamedInv'
  <2>1. ASSUME NEW z \in Records \ excused', Catalogued(z)', target'[z].name # <<>>
        PROVE  target'[z].name \in registry'.drawers
    <3>1. CASE Catalogued(z)
      BY <1>3, <1>4, <1>8, <2>1, <3>1 DEF NamedInv
    <3>2. CASE ~Catalogued(z)
      <4>1. z = r /\ d.implicit
        BY <1>1, <1>2, <1>3, <1>6, <1>9, <2>1, <3>2 DEF Catalogued, Idle
      <4>2. target'[z].name = d.name
        BY <1>3, <1>6, <4>1 DEF Target
      <4>3. QED
        BY <1>8, <4>1, <4>2
    <3>3. QED
      BY <3>1, <3>2
  <2>2. QED
    BY <2>1 DEF NamedInv
<1>15. PlaceInv'
  BY <1>3, <1>4 DEF PlaceInv
<1>16. QED
  BY <1>11, <1>12, <1>13, <1>14, <1>15 DEF Inv

-----------------------------------------------------------------------------
(* The process.                                                            *)

\* The engine that a stop leaves has no file open.
LEMMA NoEngineIs ==
  ASSUME NEW f, NEW e, Sound(f, e)
  PROVE  /\ NoEngine \in Engine /\ OneUse(f, NoEngine)
         /\ \A h \in HandleIds : NoEngine.handle[h].inode = 0 /\ NoEngine.handle[h].view = {}
         /\ Sound(f, NoEngine)
<1>1. /\ NoEngine.journal = [d \in Cores |-> 0] /\ NoEngine.open = {<<>>}
      /\ NoEngine.handle = [h \in HandleIds |-> Closed]
  BY DEF NoEngine
<1>2. Closed \in [inode : Inodes \cup {0}, view : SUBSET Records]
  BY DEF Closed
<1>3. NoEngine \in Engine
  BY <1>2, DataPaths DEF NoEngine, Engine
<1>4. \A h \in HandleIds : NoEngine.handle[h].inode = 0 /\ NoEngine.handle[h].view = {}
  BY <1>1 DEF Closed
<1>5. OneUse(f, NoEngine)
  <2>1. ASSUME NEW i \in Inodes, NEW p \in Paths, UsedFor(f, NoEngine, i, p)
        PROVE  UsedFor(f, e, i, p)
    <3>1. i # 0
      BY CatalogAssumption
    <3>2. f.file[p] = i
      BY <1>1, <1>4, <2>1, <3>1 DEF UsedFor
    <3>3. QED
      BY <3>2 DEF UsedFor
  <2>2. QED
    BY <2>1 DEF OneUse, Sound
<1>6. Sound(f, NoEngine)
  BY <1>3, <1>4, <1>5 DEF Sound, Handled
<1>7. QED
  BY <1>3, <1>4, <1>5, <1>6

LEMMA StopInv ==
  ASSUME Inv, Stop
  PROVE  Inv'
<1>1. /\ up /\ up' = FALSE /\ eng' = NoEngine /\ cut' = {}
      /\ pc' = [t \in Threads |-> Idle]
      /\ UNCHANGED <<registry, fs, archive, acked, target, excused>>
      /\ \/ catalogFile' = catalogFile
         \/ catalogFile' = [catalogFile EXCEPT !.whole = FALSE]
  BY DEF Stop
<1>2. TypeInv /\ TargetInv /\ Sound(fs, eng) /\ SavedInv /\ NamedInv /\ PlaceInv /\ TargetGrows
  BY <1>1, TargetSame DEF Inv, TypeInv
<1>3. \A t \in Threads : pc'[t] = Idle
  BY <1>1
<1>4. TypeInv'
  <2>1. /\ archive' = [scope |-> archive'.scope, files |-> archive'.files]
        /\ (Archived(archive.scope, archive.files))'
    BY <1>1, <1>2, ArchiveStays
  <2>2. TargetInv'
    BY <1>1, <1>2 DEF TargetInv
  <2>3. \A t \in Threads : ThreadInv(t)'
    BY <1>3 DEF ThreadInv
  <2>4. /\ catalogFile' = [whole |-> catalogFile'.whole, reg |-> registry']
        /\ catalogFile'.whole \in BOOLEAN
    <3>1. PICK b \in BOOLEAN : b = catalogFile.whole
      BY <1>2 DEF TypeInv
    <3>2. catalogFile = [whole |-> b, reg |-> registry]
      BY <1>2, <3>1 DEF TypeInv
    <3>3. \/ catalogFile' = [whole |-> b, reg |-> registry]
          \/ catalogFile' = [whole |-> FALSE, reg |-> registry]
      BY <1>1, <3>2
    <3>4. PICK c \in BOOLEAN : catalogFile' = [whole |-> c, reg |-> registry]
      BY <3>3
    <3>5. catalogFile'.whole = c /\ registry' = registry
      BY <1>1, <3>4
    <3>6. QED
      BY <3>4, <3>5
  <2>5. /\ registry' \in Registries
        /\ acked' \subseteq Records /\ excused' \subseteq Records
    BY <1>1, <1>2 DEF TypeInv
  <2>6. DOMAIN pc' = Threads
    BY <1>1
  <2>7. up' = FALSE /\ (~up => eng = NoEngine)' /\ cut' \subseteq Files
    <3>1. NoEngine' = NoEngine
      BY DEF NoEngine, Closed
    <3>2. QED
      BY <1>1, <3>1
  <2>8. QED
    BY <2>1, <2>2, <2>3, <2>4, <2>5, <2>6, <2>7 DEF TypeInv
<1>5. Sound(fs, eng)'
  <2>1. /\ NoEngine \in Engine /\ OneUse(fs, NoEngine) /\ InPlace(fs)
        /\ \A h \in HandleIds : NoEngine.handle[h].inode = 0 /\ NoEngine.handle[h].view = {}
        /\ fs \in FileSystem /\ Logged(fs)
    BY <1>2, NoEngineIs DEF Sound
  <2>2. PICK e : e = NoEngine
    OBVIOUS
  <2>3. (fs \in FileSystem)' /\ (eng \in Engine)'
    BY <1>1, <2>1
  <2>4. OneUse(fs, eng)' /\ InPlace(fs)'
    BY <1>1, <2>1, <2>2 DEF OneUse, UsedFor, InPlace
  <2>5. Handled(fs, eng)'
    BY <1>1, <2>1, <2>2 DEF Handled
  <2>6. Logged(fs)'
    BY <1>1, <2>1 DEF Logged, LogRecords, Loggable, Portable
  <2>7. QED
    BY <2>3, <2>4, <2>5, <2>6 DEF Sound
<1>6. \A r \in Records : /\ Answered(r)' => Answered(r)
                         /\ Catalogued(r)' => Catalogued(r)
  BY <1>1, <1>3 DEF Answered, Catalogued, Idle
<1>7. SavedInv'
  BY <1>1, <1>2, <1>6, SavedSame
<1>8. NamedInv'
  <2>1. \A r \in Records \ excused : Catalogued(r) => target[r] # NoTarget
    BY <1>2, CataloguedHaveTargets
  <2>2. QED
    BY <1>1, <1>2, <1>6, <2>1, NamedStays
<1>9. PlaceInv'
  BY <1>1, <1>2 DEF PlaceInv
<1>10. QED
  BY <1>4, <1>5, <1>7, <1>8, <1>9 DEF Inv

LEMMA OpenEngineInv ==
  ASSUME Inv, OpenEngine
  PROVE  Inv'
<1>1. PICK s : s = State(fs, NoEngine)
  OBVIOUS
<1>2. PICK c : c = OpenDatabase(s, <<>>)
  OBVIOUS
<1>3. /\ ~up /\ catalogFile.whole
      /\ CanAllocate(fs, NoEngine, Cardinality(ReplayedPaths(fs, <<>>)))
      /\ fs' = c.fs /\ up' = c.ok /\ eng' = (IF c.ok THEN c.eng ELSE eng)
      /\ registry' = catalogFile.reg
      /\ UNCHANGED <<catalogFile, pc, archive, acked, target, excused, cut>>
  BY <1>1, <1>2 DEF OpenEngine
<1>4. TypeInv /\ TargetInv /\ Sound(fs, eng) /\ SavedInv /\ NamedInv /\ PlaceInv /\ TargetGrows
  BY <1>3, TargetSame DEF Inv, TypeInv
<1>5. eng = NoEngine /\ registry' = registry
  BY <1>3, <1>4 DEF TypeInv
<1>6. SoundCall(s) /\ s.fs = fs /\ s.eng = NoEngine
  <2>1. fs \in FileSystem /\ NoEngine \in Engine /\ Sound(fs, NoEngine)
    BY <1>4, NoEngineIs DEF Sound
  <2>2. s = [fs |-> fs, eng |-> NoEngine, ok |-> TRUE]
    BY <1>1 DEF State
  <2>3. QED
    BY <2>1, <2>2 DEF SoundCall, Call
<1>7. PICK m \in Nat : Cardinality(ReplayedPaths(fs, <<>>)) = m
  BY <1>4, DataPaths, ReplayedHandles
<1>8. /\ Cardinality(ReplayedPaths(s.fs, <<>>)) <= m
      /\ Room(s.fs, s.eng, m) /\ <<>> \in Cores
  <2>1. Cardinality(ReplayedPaths(s.fs, <<>>)) = m
    BY <1>6, <1>7
  <2>2. QED
    BY <1>3, <1>6, <1>7, <2>1, DataPaths DEF CanAllocate, Room
<1>9. Made(s, c, m)
  BY <1>2, <1>4, <1>6, <1>8, OpenDatabaseFollows DEF Follows
<1>10. Sound(c.fs, c.eng) /\ Keeps(fs, c.fs, {}) /\ c.ok \in BOOLEAN
  BY <1>6, <1>9 DEF Made, Outcome, Call
<1>11. Sound(fs, eng)'
  <2>1. PICK f : f = c.fs
    OBVIOUS
  <2>2. PICK e : e = IF c.ok THEN c.eng ELSE NoEngine
    OBVIOUS
  <2>3. Sound(f, e)
    BY <1>10, <2>1, <2>2, NoEngineIs
  <2>4. f = fs' /\ e = eng' /\ cut \subseteq cut'
    BY <1>3, <1>5, <2>1, <2>2
  <2>5. QED
    BY <1>4, <2>3, <2>4, SoundStays
<1>12. TypeInv'
  <2>1. /\ archive' = [scope |-> archive'.scope, files |-> archive'.files]
        /\ (Archived(archive.scope, archive.files))'
    BY <1>3, <1>4, ArchiveStays
  <2>2. TargetInv'
    BY <1>3, <1>4 DEF TargetInv
  <2>3. \A t \in Threads : ThreadInv(t)'
    BY <1>3, <1>4, ThreadStays DEF TypeInv
  <2>4. up' \in BOOLEAN /\ (~up => eng = NoEngine)'
    <3>1. NoEngine' = NoEngine
      BY DEF NoEngine, Closed
    <3>2. QED
      BY <1>3, <1>5, <1>10, <3>1
  <2>5. /\ registry' \in Registries
        /\ catalogFile' = [whole |-> catalogFile'.whole, reg |-> registry']
        /\ catalogFile'.whole \in BOOLEAN /\ catalogFile'.whole
        /\ DOMAIN pc' = Threads
        /\ acked' \subseteq Records /\ excused' \subseteq Records /\ cut' \subseteq Files
    BY <1>3, <1>4, <1>5 DEF TypeInv
  <2>6. QED
    BY <2>1, <2>2, <2>3, <2>4, <2>5 DEF TypeInv
<1>13. \A r \in Records : /\ Answered(r)' <=> Answered(r)
                          /\ Catalogued(r)' <=> Catalogued(r)
  BY <1>3 DEF Answered, Catalogued
<1>14. SavedInv'
  <2>1. Keeps(fs, fs', {})
    BY <1>3, <1>10
  <2>2. QED
    BY <1>3, <1>4, <1>13, <2>1, SavedStays
<1>15. NamedInv'
  BY <1>3, <1>4, <1>5, <1>13 DEF NamedInv
<1>16. PlaceInv'
  BY <1>3, <1>4 DEF PlaceInv
<1>17. QED
  BY <1>11, <1>12, <1>14, <1>15, <1>16 DEF Inv

-----------------------------------------------------------------------------
(* The invariant.                                                          *)

(* The directories an earlier process left include those above them.        *)
LEMMA StartDirsNest ==
  ASSUME NEW reg \in Registries
  PROVE  \A d \in StartDirs(reg) : DirsOf(d) \subseteq StartDirs(reg)
<1>1. \A p \in reg.schemas : SchemaPath(p[1], p[2]) \in Seq(Segment)
  <2>1. ASSUME NEW p \in reg.schemas
        PROVE  SchemaPath(p[1], p[2]) \in Seq(Segment)
    <3>1. p[1] \in Databases /\ p[2] \in Schemas
      BY DEF Registries
    <3>2. SchemaPath(p[1], p[2]) \in Cores
      BY <3>1, NamePaths
    <3>3. QED
      BY <3>2, DataPaths
  <2>2. QED
    BY <2>1
<1>2. \A r \in reg.routes : r.location \in Seq(Segment)
  <2>1. \A r \in reg.routes : r.location \in Locations
    BY DEF Registries
  <2>2. QED
    BY <2>1, NamedPaths
<1>3. DirsOf(<<>>) \subseteq {<<>>}
  <2>1. \A i \in 0 .. 0 : SubSeq(<<>>, 1, i) = <<>>
    OBVIOUS
  <2>2. QED
    BY <2>1 DEF DirsOf
<1>4. ASSUME NEW d \in StartDirs(reg)
      PROVE  DirsOf(d) \subseteq StartDirs(reg)
  <2>1. CASE d = <<>>
    BY <1>3, <2>1 DEF StartDirs
  <2>2. ASSUME NEW p \in reg.schemas, d \in DirsOf(SchemaPath(p[1], p[2]))
        PROVE  DirsOf(d) \subseteq StartDirs(reg)
    <3>1. DirsOf(d) \subseteq DirsOf(SchemaPath(p[1], p[2]))
      BY <1>1, <2>2, DirsNest
    <3>2. QED
      BY <3>1 DEF StartDirs
  <2>3. ASSUME NEW r \in reg.routes, d \in DirsOf(r.location)
        PROVE  DirsOf(d) \subseteq StartDirs(reg)
    <3>1. DirsOf(d) \subseteq DirsOf(r.location)
      BY <1>2, <2>3, DirsNest
    <3>2. QED
      BY <3>1 DEF StartDirs
  <2>4. QED
    BY <2>1, <2>2, <2>3 DEF StartDirs
<1>5. QED
  BY <1>4

LEMMA InitInv == Init => Inv
<1> SUFFICES ASSUME Init
             PROVE  Inv
  OBVIOUS
<1>1. registry \in Registries
  BY CatalogAssumption DEF Init
<1>2. StartDirs(registry) \subseteq Dirs
  <2>1. \A p \in registry.schemas : DirsOf(SchemaPath(p[1], p[2])) \subseteq Dirs
    <3>1. ASSUME NEW p \in registry.schemas
          PROVE  DirsOf(SchemaPath(p[1], p[2])) \subseteq Dirs
      <4>1. p[1] \in Databases /\ p[2] \in Schemas
        BY <1>1 DEF Registries
      <4>2. SchemaPath(p[1], p[2]) \in Cores
        BY <4>1, NamePaths
      <4>3. QED
        BY <4>2, DirsOfCores
    <3>2. QED
      BY <3>1
  <2>2. \A r \in registry.routes : DirsOf(r.location) \subseteq Dirs
    <3>1. \A r \in registry.routes : r.location \in Locations
      BY <1>1 DEF Registries
    <3>2. QED
      BY <3>1, DirsOfCores
  <2>3. <<>> \in Dirs
    BY DataPaths
  <2>4. QED
    BY <2>1, <2>2, <2>3 DEF StartDirs
<1>3. PICK D \in SUBSET Dirs : D = StartDirs(registry)
  BY <1>2
<1>4. /\ fs.dirs = D /\ fs.file = [p \in Paths |-> 0] /\ fs.content = [i \in Inodes |-> {}]
      /\ fs \in FileSystem
  BY <1>3 DEF Init, FileSystem, Paths
<1>5. Sound(fs, eng)
  <2>1. Closed \in [inode : Inodes \cup {0}, view : SUBSET Records]
    BY DEF Closed
  <2>2. eng \in Engine
    BY <2>1, DataPaths DEF Init, NoEngine, Engine
  <2>3. \A h \in HandleIds : eng.handle[h].inode = 0 /\ eng.handle[h].view = {}
    BY DEF Init, NoEngine, Closed
  <2>4. \A d \in Cores : eng.journal[d] = 0
    BY DEF Init, NoEngine
  <2>5. \A p \in Paths : fs.file[p] = 0
    BY <1>4
  <2>6. OneUse(fs, eng)
    BY <2>3, <2>4, <2>5, CatalogAssumption DEF OneUse, UsedFor
  <2>7. InPlace(fs) /\ Handled(fs, eng)
    <3>1. \A d \in fs.dirs : DirsOf(d) \subseteq fs.dirs
      BY <1>3, <1>4, StartDirsNest, <1>1
    <3>2. QED
      BY <2>3, <2>5, <3>1 DEF InPlace, Handled
  <2>8. Logged(fs)
    <3>1. \A d \in Cores : fs.file[LogOf(d)] = 0
      BY <2>5, FilePaths DEF Paths
    <3>2. QED
      BY <3>1 DEF Logged, LogRecords
  <2>9. QED
    BY <1>4, <2>2, <2>6, <2>7, <2>8 DEF Sound
<1>6. TypeInv
  <2>1. \A t \in Threads : ThreadInv(t)
    BY DEF Init, ThreadInv
  <2>2. TargetInv
    BY DEF Init, TargetInv
  <2>3. Archived(0, {})
    BY FS_EmptySet DEF Archived
  <2>4. archive.scope = 0 /\ archive.files = {}
    BY DEF Init
  <2>5. Archived(archive.scope, archive.files)
    BY <2>3, <2>4
  <2>6. QED
    BY <1>1, <2>1, <2>2, <2>5 DEF Init, TypeInv
<1>7. SavedInv /\ NamedInv /\ PlaceInv
  BY DEF Init, SavedInv, NamedInv, PlaceInv, Answered, Catalogued, Idle
<1>8. QED
  BY <1>5, <1>6, <1>7 DEF Inv

LEMMA StutterInv ==
  ASSUME Inv, UNCHANGED vars
  PROVE  Inv'
<1>1. UNCHANGED <<up, registry, catalogFile, fs, eng, pc, archive, acked, target, excused, cut>>
  BY DEF vars
<1>2. TypeInv /\ TargetInv /\ Sound(fs, eng) /\ SavedInv /\ NamedInv /\ PlaceInv /\ TargetGrows
  BY <1>1, TargetSame DEF Inv, TypeInv
<1>3. TypeInv'
  <2>1. /\ archive' = [scope |-> archive'.scope, files |-> archive'.files]
        /\ (Archived(archive.scope, archive.files))'
    BY <1>1, <1>2, ArchiveStays
  <2>2. TargetInv'
    BY <1>1, <1>2 DEF TargetInv
  <2>3. \A t \in Threads : ThreadInv(t)'
    BY <1>1, <1>2, ThreadStays DEF TypeInv
  <2>4. (~up => eng = NoEngine)'
    <3>1. NoEngine' = NoEngine
      BY DEF NoEngine, Closed
    <3>2. QED
      BY <1>1, <1>2, <3>1 DEF TypeInv
  <2>5. QED
    BY <1>1, <1>2, <2>1, <2>2, <2>3, <2>4 DEF TypeInv
<1>4. Sound(fs, eng)'
  BY <1>1, <1>2, SoundSame
<1>5. \A r \in Records : /\ Answered(r)' <=> Answered(r)
                         /\ Catalogued(r)' <=> Catalogued(r)
  BY <1>1 DEF Answered, Catalogued
<1>6. SavedInv'
  BY <1>1, <1>2, <1>5, SavedSame
<1>7. NamedInv' /\ PlaceInv'
  BY <1>1, <1>2, <1>5 DEF NamedInv, PlaceInv
<1>8. QED
  BY <1>3, <1>4, <1>6, <1>7 DEF Inv

LEMMA NextInv == Inv /\ [Next]_vars => Inv'
<1> SUFFICES ASSUME Inv, [Next]_vars
             PROVE  Inv'
  OBVIOUS
<1>1. ASSUME NEW t \in Threads, BeginWrite(t) \/ RunWrite(t) \/ AckWrite(t)
      PROVE  Inv'
  BY <1>1, BeginWriteInv, RunWriteInv, AckWriteInv
<1>2. ASSUME NEW t \in Threads,
             BeginCreate(t) \/ CreateStorage(t) \/ CreateFiles(t) \/ Register(t)
      PROVE  Inv'
  BY <1>2, BeginCreateInv, CreateStorageInv, CreateFilesInv, RegisterInv
<1>3. ASSUME NEW t \in Threads, BeginDrop(t) \/ RemoveStorage(t) \/ Unregister(t)
      PROVE  Inv'
  BY <1>3, BeginDropInv, RemoveStorageInv, UnregisterInv
<1>4. ASSUME NEW t \in Threads, BeginBackup(t) \/ BackupFile(t)
      PROVE  Inv'
  BY <1>4, BeginBackupInv, BackupFileInv
<1>5. ASSUME NEW t \in Threads,
             BeginRestore(t) \/ ClearRestoreTarget(t) \/ WriteRestored(t) \/ RegisterRestored(t)
      PROVE  Inv'
  BY <1>5, BeginRestoreInv, ClearRestoreTargetInv, WriteRestoredInv, RegisterRestoredInv
<1>6. ASSUME Stop \/ OpenEngine
      PROVE  Inv'
  BY <1>6, StopInv, OpenEngineInv
<1>7. CASE UNCHANGED vars
  BY <1>7, StutterInv
<1>8. QED
  BY <1>1, <1>2, <1>3, <1>4, <1>5, <1>6, <1>7 DEF Next

LEMMA Invariant == Spec => []Inv
<1>1. Init => Inv
  BY InitInv
<1>2. Inv /\ [Next]_vars => Inv'
  BY NextInv
<1>3. QED
  BY <1>1, <1>2, PTL DEF Spec

LEMMA InvTyped == Inv => TypeOK
<1> SUFFICES ASSUME Inv
             PROVE  TypeOK
  OBVIOUS
<1>1. TypeInv /\ Sound(fs, eng) /\ Paths = Files \cup Logs
  BY DEF Inv, Paths
<1>2. PICK f \in FileSystem : f = fs
  BY <1>1 DEF Sound
<1>3. PICK e \in Engine : e = eng
  BY <1>1 DEF Sound
<1>4. fs.dirs \subseteq Dirs
  BY <1>2 DEF FileSystem
<1>5. ASSUME NEW p \in Files \cup Logs, fs.file[p] # 0
      PROVE  fs.file[p] \in Inodes /\ Up(p) \in fs.dirs /\ fs.content[fs.file[p]] \subseteq Records
  <2>1. fs.file[p] \in Inodes
    BY <1>1, <1>2, <1>3, <1>5, FileValues
  <2>2. fs.content[fs.file[p]] \subseteq Records
    BY <1>2, <1>3, <2>1, FileValues
  <2>3. Up(p) \in fs.dirs
    BY <1>1, <1>5 DEF Sound, InPlace
  <2>4. QED
    BY <2>1, <2>2, <2>3
<1>6. ASSUME NEW p \in Files \cup Logs, NEW q \in Files \cup Logs, p # q, fs.file[p] # 0
      PROVE  fs.file[p] # fs.file[q]
  <2>1. fs.file[p] \in Inodes
    BY <1>5, <1>6
  <2>2. QED
    BY <1>1, <1>6, <2>1 DEF Sound, OneUse, UsedFor
<1>7. ASSUME NEW h \in HandleIds, eng.handle[h].view # {}
      PROVE  eng.handle[h].inode \in Inodes
  <2>1. eng.handle[h].inode \in Inodes \cup {0}
    BY <1>2, <1>3, FileValues
  <2>2. eng.handle[h].inode # 0
    BY <1>1, <1>7 DEF Sound, Handled
  <2>3. QED
    BY <2>1, <2>2
<1>8. /\ up \in BOOLEAN /\ registry \in Registries /\ catalogFile.reg \in Registries
      /\ acked \cup excused \subseteq Records /\ cut \subseteq Files
  BY <1>1 DEF TypeInv
<1>9. QED
  BY <1>4, <1>5, <1>6, <1>7, <1>8 DEF TypeOK

LEMMA InvSurvive == Inv => AckedSurvive
<1> SUFFICES ASSUME Inv, NEW r \in acked \ excused
             PROVE  /\ OnDisk(r)
                    /\ target[r].name # <<>> /\ catalogFile.whole
                         => target[r].name \in catalogFile.reg.drawers
  BY DEF AckedSurvive
<1>1. r \in Records /\ catalogFile.reg = registry
  BY DEF Inv, TypeInv
<1>2. fs.file[target[r].file] # 0 /\ r \in fs.content[fs.file[target[r].file]]
  BY <1>1 DEF Inv, SavedInv, Answered
<1>3. target[r].name # <<>> => target[r].name \in registry.drawers
  BY <1>1 DEF Inv, NamedInv, Catalogued
<1>4. QED
  BY <1>1, <1>2, <1>3 DEF OnDisk

(* The directories, the files, the catalog and the engine's open handles    *)
(* stay within their domains through every create, drop, write, backup,     *)
(* restore, stop and recovery; no two paths share an inode, and every       *)
(* linked file's directory is there.                                       *)
THEOREM TypeCorrect == Spec => []TypeOK
<1>1. Inv => TypeOK
  BY InvTyped
<1>2. QED
  BY <1>1, Invariant, PTL

(* A record whose command was answered, and which no drop, restore or       *)
(* re-creation concerned, is in the file that is linked at its path, and    *)
(* its drawer is in the catalog file, however threads, stops, evictions,    *)
(* recoveries and checkpoints interleave.                                  *)
THEOREM AckedRecordsSurvive == Spec => []AckedSurvive
<1>1. Inv => AckedSurvive
  BY InvSurvive
<1>2. QED
  BY <1>1, Invariant, PTL

-----------------------------------------------------------------------------
(* What is listed.                                                         *)

\* How far the walk of the directories goes.
LEMMA Discovered ==
  ASSUME NEW dirs, NEW files, NEW p \in ChildDirectories(dirs, <<>>)
  PROVE  /\ HasDatabaseLayout(dirs, files, p) => p \in DiscoverDatabases(dirs, files)
         /\ \A q \in ChildDirectories(dirs, p) :
              ~HasDatabaseLayout(dirs, files, p) /\ HasDatabaseLayout(dirs, files, q) =>
                q \in DiscoverDatabases(dirs, files)
BY DEF DiscoverDatabases

LEMMA UnderItself ==
  ASSUME NEW d \in Seq(Segment)
  PROVE  /\ IsUnder(d, d) /\ IsUnder(d, <<>>)
         /\ \A i \in 0 .. Len(d) : /\ SubSeq(d, 1, i) \in DirsOf(d) /\ IsUnder(d, SubSeq(d, 1, i))
                                   /\ Len(SubSeq(d, 1, i)) = i
                                   /\ SubSeq(d, 1, i) \in Seq(Segment)
<1>1. Len(d) \in Nat /\ SubSeq(d, 1, Len(d)) = d /\ SubSeq(d, 1, 0) = <<>> /\ Len(<<>>) = 0
  OBVIOUS
<1>2. ASSUME NEW i \in 0 .. Len(d)
      PROVE  /\ SubSeq(d, 1, i) \in DirsOf(d) /\ IsUnder(d, SubSeq(d, 1, i))
             /\ Len(SubSeq(d, 1, i)) = i /\ SubSeq(d, 1, i) \in Seq(Segment)
  <2>1. Len(SubSeq(d, 1, i)) = i /\ SubSeq(d, 1, i) \in Seq(Segment)
    OBVIOUS
  <2>2. QED
    BY <1>1, <2>1 DEF DirsOf, IsUnder
<1>3. QED
  BY <1>1, <1>2 DEF IsUnder

LEMMA WalkFinds ==
  ASSUME Inv, \A d \in Databases : Len(d) <= 2,
         NEW p \in Files, fs.file[p] # 0, NEW c \in Databases,
         Up(p) = c \/ \E s \in Schemas : Up(p) = SchemaPath(c, s)
  PROVE  \E d \in DiscoverDatabases(fs.dirs, LinkedFiles(fs)) : Below(p, d)
<1>1. PICK D : D = fs.dirs
  OBVIOUS
<1>2. PICK F : F = LinkedFiles(fs)
  OBVIOUS
<1>3. PICK u \in Seq(Segment) : u = Up(p)
  BY FilePaths DEF Paths
<1>4. p \in F /\ u \in D /\ DirsOf(u) \subseteq D
  <2>1. InPlace(fs) /\ p \in Paths
    BY DEF Inv, Sound, Paths
  <2>2. QED
    BY <1>1, <1>2, <1>3, <2>1 DEF InPlace, LinkedFiles
<1>5. HasDrawerFiles(F, u)
  BY <1>3, <1>4 DEF HasDrawerFiles, StemsIn
<1>6. c \in Seq(Segment) /\ c # <<>> /\ Len(c) \in 1 .. 2
  <2>1. c \in Seq(Segment) /\ c # <<>> /\ Len(c) <= 2
    BY NamedPaths, CatalogAssumption
  <2>2. PICK n \in Nat : n = Len(c)
    BY <2>1
  <2>3. n # 0
    BY <2>1, <2>2
  <2>4. n <= 2
    BY <2>1, <2>2
  <2>5. n \in 1 .. 2
    BY <2>3, <2>4
  <2>6. QED
    BY <2>1, <2>2, <2>5
<1>7. /\ IsUnder(u, c) /\ c \in DirsOf(u)
      /\ u = c \/ (u # c /\ Len(u) = Len(c) + 1)
  <2>1. CASE u = c
    <3>1. Len(c) \in 0 .. Len(c) /\ SubSeq(c, 1, Len(c)) = c
      BY <1>6
    <3>2. QED
      BY <1>6, <2>1, <3>1, UnderItself
  <2>2. ASSUME NEW s \in Schemas, u = SchemaPath(c, s)
        PROVE  IsUnder(u, c) /\ c \in DirsOf(u) /\ u # c /\ Len(u) = Len(c) + 1
    <3>1. s \in Segment
      BY NamedPaths
    <3>2. Len(u) = Len(c) + 1 /\ SubSeq(u, 1, Len(c)) = c /\ Len(c) \in Nat
      BY <1>6, <2>2, <3>1, SequenceFacts DEF SchemaPath
    <3>3. Len(c) \in 0 .. Len(u) /\ Len(c) <= Len(u)
      BY <3>2
    <3>4. c \in DirsOf(u)
      BY <3>2, <3>3 DEF DirsOf
    <3>5. IsUnder(u, c)
      BY <3>2, <3>3 DEF IsUnder
    <3>6. u # c
      BY <3>2
    <3>7. QED
      BY <3>2, <3>4, <3>5, <3>6
  <2>3. QED
    BY <1>3, <2>1, <2>2
<1>8. c \in D
  BY <1>4, <1>7
<1>9. HasDatabaseLayout(D, F, c)
  BY <1>4, <1>5, <1>7 DEF HasDatabaseLayout, ChildDirectories
<1>10. PICK t : t = SubSeq(c, 1, 1)
  OBVIOUS
<1>11. t \in DirsOf(c) /\ IsUnder(c, t) /\ Len(t) = 1 /\ t \in Seq(Segment)
  BY <1>6, <1>10, UnderItself
<1>12. t \in D
  <2>1. DirsOf(c) \subseteq DirsOf(u)
    BY <1>7, DirsNest
  <2>2. QED
    BY <1>4, <1>11, <2>1
<1>13. t \in ChildDirectories(D, <<>>)
  <2>1. IsUnder(t, <<>>) /\ Len(<<>>) = 0
    BY <1>11, UnderItself
  <2>2. QED
    BY <1>11, <1>12, <2>1 DEF ChildDirectories
<1>14. IsUnder(u, t)
  BY <1>7, <1>11, DirsNest
<1>15. CASE HasDatabaseLayout(D, F, t)
  <2>1. t \in DiscoverDatabases(D, F)
    BY <1>13, <1>15, Discovered
  <2>2. QED
    BY <1>1, <1>2, <1>3, <1>14, <2>1 DEF Below
<1>16. CASE ~HasDatabaseLayout(D, F, t)
  <2>1. Len(c) = 2
    <3>1. ASSUME Len(c) = 1
          PROVE  FALSE
      <4>1. t = c
        BY <1>6, <1>10, <3>1
      <4>2. QED
        BY <1>9, <1>16, <4>1
    <3>2. QED
      BY <1>6, <3>1
  <2>2. c \in ChildDirectories(D, t)
    BY <1>8, <1>11, <2>1 DEF ChildDirectories
  <2>3. c \in DiscoverDatabases(D, F)
    BY <1>9, <1>13, <1>16, <2>2, Discovered
  <2>4. QED
    BY <1>1, <1>2, <1>3, <1>7, <2>3 DEF Below
<1>17. QED
  BY <1>15, <1>16

\* A name in the catalog is listed at every level.
LEMMA NamesListed ==
  ASSUME NEW reg \in Registries, NEW n \in reg.drawers, NEW dirs, NEW files
  PROVE  /\ n[1] \in ShowDatabases(reg, dirs, files)
         /\ n[2] \in ShowSchemas(reg, dirs, files, n[1])
         /\ n[3] \in ShowDrawers(reg, files, n[1], n[2])
         /\ ShowTenants(reg, dirs, files) # {}
<1>1. ~IsEmpty(reg)
  BY DEF IsEmpty, EmptyRegistry
<1>2. n[1] \in DatabaseNames(reg) /\ n[2] \in SchemaNames(reg, n[1])
  BY DEF DatabaseNames, SchemaNames
<1>3. n[3] \in DrawerEntries(reg, n[1], n[2])
  BY DEF DrawerEntries
<1>4. ShowTenants(reg, dirs, files) # {}
  BY <1>1, <1>2 DEF ShowTenants
<1>5. QED
  BY <1>1, <1>2, <1>3, <1>4 DEF ShowDatabases, ShowSchemas, ShowDrawers

LEMMA InvListed ==
  ASSUME Inv, \A d \in Databases : Len(d) <= 2
  PROVE  AckedListed
<1>1. ASSUME NEW r \in acked \ excused
      PROVE  /\ target[r].file \in ListDrawerNames(LinkedFiles(fs))
             /\ target[r].name # <<>> => target[r].name \in registry.drawers
             /\ IsEmpty(registry) =>
                  \E d \in DiscoverDatabases(fs.dirs, LinkedFiles(fs)) : Below(target[r].file, d)
  <2>1. r \in Records /\ target[r] # NoTarget /\ fs.file[target[r].file] # 0
    BY DEF Inv, TypeInv, SavedInv, Answered
  <2>2. target[r].file \in Files
    BY <2>1 DEF Inv, TypeInv, TargetInv, Destined
  <2>3. target[r].file \in ListDrawerNames(LinkedFiles(fs))
    BY <2>1, <2>2 DEF ListDrawerNames, LinkedFiles
  <2>4. target[r].name # <<>> => target[r].name \in registry.drawers
    BY <2>1 DEF Inv, NamedInv, Catalogued
  <2>5. ASSUME IsEmpty(registry)
        PROVE  \E d \in DiscoverDatabases(fs.dirs, LinkedFiles(fs)) : Below(target[r].file, d)
    <3>1. registry.drawers = {}
      BY <2>5 DEF IsEmpty, EmptyRegistry
    <3>2. target[r].name = <<>>
      BY <2>4, <3>1
    <3>3. \E d \in Databases :
            \/ Up(target[r].file) = d
            \/ \E s \in Schemas : Up(target[r].file) = SchemaPath(d, s)
      BY <2>1, <3>2 DEF Inv, PlaceInv
    <3>4. QED
      BY <2>1, <2>2, <3>3, WalkFinds
  <2>6. QED
    BY <2>3, <2>4, <2>5
<1>2. registry \in Registries
  BY DEF Inv, TypeInv
<1>3. ASSUME NEW r \in acked \ excused, target[r].name # <<>>
      PROVE  /\ target[r].name[1] \in ShowDatabases(registry, fs.dirs, LinkedFiles(fs))
             /\ target[r].name[2] \in
                  ShowSchemas(registry, fs.dirs, LinkedFiles(fs), target[r].name[1])
             /\ target[r].name[3] \in
                  ShowDrawers(registry, LinkedFiles(fs), target[r].name[1], target[r].name[2])
             /\ ShowTenants(registry, fs.dirs, LinkedFiles(fs)) # {}
  BY <1>1, <1>2, <1>3, NamesListed
<1>4. ASSUME NEW r \in acked \ excused, IsEmpty(registry)
      PROVE  \E d \in ShowDatabases(registry, fs.dirs, LinkedFiles(fs)) : Below(target[r].file, d)
  BY <1>1, <1>4 DEF ShowDatabases
<1>5. QED
  BY <1>1, <1>3, <1>4 DEF AckedListed

(* Such a record's file is among the engine's drawer names, its drawer is   *)
(* listed under its name by the catalog, and while the catalog is empty the *)
(* walk of the directories finds a database it is in.  The walk             *)
(* (discovery.rs:252) goes two levels deep, so a database whose name has     *)
(* more segments is outside the theorem.                                   *)
THEOREM AckedRecordsListed ==
  ASSUME \A d \in Databases : Len(d) <= 2
  PROVE  Spec => []AckedListed
<1>1. Inv => AckedListed
  BY InvListed
<1>2. QED
  BY <1>1, Invariant, PTL
=============================================================================
