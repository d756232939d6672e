---------------------------- MODULE QueryIndexes ----------------------------
(***************************************************************************)
(* The secondary index of one field of a drawer and the queries it answers *)
(* (embedded/src/wrdb_lib/drawer/indexing.rs, schema.rs, retrieval.rs,     *)
(* compaction.rs, query.rs).                                               *)
(*                                                                         *)
(* A field may be declared unique, or indexed, or both.  A unique index is *)
(* built when the constraint is added and maintained from then on.  A      *)
(* query index is built by the first query that could use it, which still  *)
(* reads every record, is maintained once it is there, and is compared     *)
(* with the records once after a restart before it is trusted.             *)
(*                                                                         *)
(* A record is its key and its value of the field; a value is known by its *)
(* kind, its rank among the values of its kind, which is the order of the  *)
(* index keys, and, for strings, the record id it would be a reference to. *)
(***************************************************************************)
EXTENDS Naturals, FiniteSets

CONSTANTS
  Keys,       \* primary keys
  Offsets,    \* slots of the data file, one more than there are keys
  Values,     \* the values a record may have in the field
  KindOf,     \* the kind of each value
  RankOf,     \* its rank among the values of its kind
  IdOf,       \* the record id a string refers to, as a reference
  Filters,    \* what is asked
  None,       \* no record, no offset, no index, no answer
  MaxOps      \* how many operations change the drawer

KindRank == [null |-> 0, bool |-> 1, number |-> 2, string |-> 3]
Ops == {"plain", "like", "in", "eq", "ne", "gt", "gte", "lt", "lte"}

ASSUME ValuesAssumption ==
  /\ KindOf \in [Values -> DOMAIN KindRank \cup {"other"}]
  /\ RankOf \in [Values -> Nat]
ASSUME OffsetsAssumption ==
  /\ IsFiniteSet(Offsets) /\ Cardinality(Offsets) > Cardinality(Keys)
  /\ None \notin Keys \cup Offsets \cup Values /\ MaxOps \in Nat

VARIABLES
  rec,          \* the data file: a record or None at each offset
  primary,      \* primary_memory_index
  unique,       \* the field is in unique_constraints
  indexed,      \* the field is in the schema's "indexes"
  mem,          \* secondary_memory_index of the field, or None
  materialized, \* materialized_secondary_indexes has the field
  validated,    \* validated_secondary_indexes has the field
  disk,         \* the entries of the field in the index file
  meta,         \* the metadata file: unique, indexed, materialized
  answer,       \* the last query and the keys it returned
  ops           \* changes so far

data == <<rec, primary>>
index == <<unique, indexed, mem, materialized, validated, disk, meta>>
vars == <<data, index, answer, ops>>

-----------------------------------------------------------------------------
(* Index keys and scalar comparison                                        *)

(* secondary_index_key: arrays and objects have none.                      *)
Indexable(v) == KindOf[v] # "other"
IndexKey(v) == <<KindRank[KindOf[v]], RankOf[v]>>
IndexKeys == {IndexKey(v) : v \in {w \in Values : Indexable(w)}}
Below(j, k) == j[1] < k[1] \/ (j[1] = k[1] /\ j[2] < k[2])

(* compare_scalar_values: an order within a kind, none across kinds.       *)
Comparable(v, w) == Indexable(v) /\ KindOf[v] = KindOf[w]
Less(v, w) == Comparable(v, w) /\ RankOf[v] < RankOf[w]
Equal(v, w) == Comparable(v, w) /\ RankOf[v] = RankOf[w]

-----------------------------------------------------------------------------
(* What a filter means: record_matches_filter.  A filter is a set of       *)
(* conditions on the field, all of which a record has to meet, and the     *)
(* keys it asks for by _id, or None.  A record without the field, which    *)
(* has the value None, meets no condition.                                 *)

SameReference(v, w) ==
  /\ KindOf[v] = "string" /\ KindOf[w] = "string"
  /\ IdOf[v] = IdOf[w]

ASSUME FiltersAssumption ==
  \A f \in Filters :
    /\ f.id = None \/ f.id \subseteq Keys
    /\ \A c \in f.field :
         /\ c.op \in Ops
         /\ IF c.op \in {"like", "in"} THEN c.arg \subseteq Values
            ELSE c.arg \in Values

Meets(v, c) ==
  \/ c.op = "plain" /\ v = c.arg
  \/ c.op = "like" /\ v \in c.arg
  \/ c.op = "in" /\ \E w \in c.arg :
       v = w \/ Equal(v, w) \/ SameReference(v, w)
  \/ c.op = "eq" /\ Equal(v, c.arg)
  \/ c.op = "ne" /\ ~Equal(v, c.arg)
  \/ c.op \in {"gt", "gte"} /\ Less(c.arg, v)
  \/ c.op \in {"lt", "lte"} /\ Less(v, c.arg)
  \/ c.op \in {"gte", "lte"} /\ Equal(v, c.arg)

Matches(r, f) ==
  /\ f.id = None \/ r.key \in f.id
  /\ \A c \in f.field : r.value # None /\ Meets(r.value, c)

-----------------------------------------------------------------------------
(* Which index keys a filter asks for: secondary_index_predicate and       *)
(* secondary_index_offsets_for_predicate.                                  *)

Conditions(f, op) == {c \in f.field : c.op = op}
Asked(f, op) == UNION {c.arg : c \in Conditions(f, op)}

(* An $in is indexed if each of its candidates has a key; $eq decides, and *)
(* bounds do if there is nothing beside them.                              *)
HasPredicate(f) ==
  IF Conditions(f, "in") # {} THEN \A v \in Asked(f, "in") : Indexable(v)
  ELSE /\ f.field # {}
       /\ \A c \in f.field : c.op \notin {"like", "ne"} /\ Indexable(c.arg)

WithinBounds(k, f) ==
  \A c \in f.field :
    /\ c.op \in {"plain", "eq"} => k = IndexKey(c.arg)
    /\ c.op = "gt" => Below(IndexKey(c.arg), k)
    /\ c.op = "gte" => ~Below(k, IndexKey(c.arg))
    /\ c.op = "lt" => Below(k, IndexKey(c.arg))
    /\ c.op = "lte" => ~Below(IndexKey(c.arg), k)

PredicateKeys(f) ==
  IF Conditions(f, "in") # {}
  THEN {IndexKey(v) : v \in Asked(f, "in")}
  ELSE IF Conditions(f, "eq") # {}
  THEN {IndexKey(c.arg) : c \in Conditions(f, "eq")}
  ELSE {k \in IndexKeys : WithinBounds(k, f)}

-----------------------------------------------------------------------------
(* The records and the index built from them                               *)

Live == {primary[k] : k \in Keys} \ {None}
Has(o) == rec[o] # None /\ rec[o].value # None /\ Indexable(rec[o].value)
KeyAt(o) == IndexKey(rec[o].value)

(* build_secondary_index, which refuses a duplicate of a unique field.     *)
Built == [k \in IndexKeys |-> {o \in Live : Has(o) /\ KeyAt(o) = k}]
NoDuplicates == \A k \in IndexKeys : Cardinality(Built[k]) <= 1

EmptyIndex == [k \in IndexKeys |-> {}]
Metadata(u, i, m) == [unique |-> u, indexed |-> i, materialized |-> m]

Record == [key : Keys, value : Values \cup {None}]
Index == [IndexKeys -> SUBSET Offsets]
Answered == [filter : Filters, keys : SUBSET Keys]

ASSUME NoneAssumption ==
  None \notin Record /\ None \notin Index /\ None \notin Answered

TypeOK ==
  /\ rec \in [Offsets -> Record \cup {None}]
  /\ primary \in [Keys -> Offsets \cup {None}]
  /\ unique \in BOOLEAN /\ indexed \in BOOLEAN
  /\ mem \in Index \cup {None}
  /\ materialized \in BOOLEAN /\ validated \in BOOLEAN
  /\ disk \in Index
  /\ meta \in [unique : BOOLEAN, indexed : BOOLEAN, materialized : BOOLEAN]
  /\ answer \in {None} \cup Answered
  /\ ops \in 0..MaxOps

Init ==
  /\ rec = [o \in Offsets |-> None]
  /\ primary = [k \in Keys |-> None]
  /\ unique = FALSE /\ indexed = FALSE
  /\ mem = None
  /\ materialized = FALSE /\ validated = FALSE
  /\ disk = EmptyIndex
  /\ meta = Metadata(FALSE, FALSE, FALSE)
  /\ answer = None
  /\ ops = 0

Changes == ops < MaxOps /\ ops' = ops + 1 /\ answer' = None

-----------------------------------------------------------------------------
(* Writes                                                                  *)

(* Unique indexes and query indexes that are there are maintained.         *)
Maintained == mem # None /\ (unique \/ materialized)

(* update_secondary_index_for_record_change: the old offset leaves its     *)
(* key, the new one joins its own, in memory and in the file.              *)
BugMoved(map, old, new, value) ==
  [k \in IndexKeys |->
     (map[k] \ {old})
       \cup (IF old # None /\ Has(old) /\ KeyAt(old) = k THEN {new} ELSE {})]
Moved(map, old, new, value) ==
  [k \in IndexKeys |->
     (map[k] \ (IF old # None /\ Has(old) /\ KeyAt(old) = k THEN {old} ELSE {}))
       \cup (IF value # None /\ Indexable(value) /\ IndexKey(value) = k
             THEN {new} ELSE {})]

Maintain(old, new, value) ==
  IF Maintained
  THEN /\ mem' = Moved(mem, old, new, value)
       /\ disk' = [k \in IndexKeys |->
                     IF mem'[k] # mem[k] THEN mem'[k] ELSE disk[k]]
  ELSE UNCHANGED <<mem, disk>>

TakenByAnother(value, old) ==
  /\ unique /\ mem # None /\ value # None /\ Indexable(value)
  /\ mem[IndexKey(value)] \ {old} # {}

Upsert(key, value) ==
  LET old == primary[key] IN
  /\ Changes
  /\ IF TakenByAnother(value, old)
     THEN UNCHANGED <<data, mem, disk>>
     ELSE \E new \in {o \in Offsets : rec[o] = None} :
            /\ rec' = [o \in Offsets |->
                 IF o = new THEN [key |-> key, value |-> value]
                 ELSE IF o = old THEN None ELSE rec[o]]
            /\ primary' = [primary EXCEPT ![key] = new]
            /\ Maintain(old, new, value)
  /\ UNCHANGED <<unique, indexed, materialized, validated, meta>>

Delete(key) ==
  LET old == primary[key] IN
  /\ old # None
  /\ Changes
  /\ rec' = [rec EXCEPT ![old] = None]
  /\ primary' = [primary EXCEPT ![key] = None]
  /\ Maintain(old, None, None)
  /\ UNCHANGED <<unique, indexed, materialized, validated, meta>>

(* vacuum: records move to new offsets and the indexes are built again;    *)
(* only unique fields and query indexes that are there are kept.           *)
Compact ==
  LET kept == Maintained IN
  /\ Changes
  /\ \E moved \in [Live -> Offsets] :
       /\ \A o, p \in Live : moved[o] = moved[p] => o = p
       /\ rec' = [o \in Offsets |->
            IF \E p \in Live : moved[p] = o
            THEN rec[CHOOSE p \in Live : moved[p] = o] ELSE None]
       /\ primary' = [k \in Keys |->
            IF primary[k] = None THEN None ELSE moved[primary[k]]]
       /\ IF kept
          THEN mem' = [k \in IndexKeys |-> {moved[o] : o \in Built[k]}]
          ELSE mem' = None
       /\ disk' = IF kept THEN mem' ELSE EmptyIndex
  /\ meta' = Metadata(unique, indexed, materialized)
  /\ UNCHANGED <<unique, indexed, materialized, validated>>

-----------------------------------------------------------------------------
(* Declarations: manage_schema_rule, which writes the metadata last.       *)

(* add_secondary_index forgets the query index; the next query builds it.  *)
AddIndex ==
  /\ Changes
  /\ mem' = IF unique THEN mem ELSE None
  /\ materialized' = FALSE /\ validated' = FALSE
  /\ indexed' = TRUE
  /\ meta' = Metadata(unique, TRUE, FALSE)
  /\ UNCHANGED <<data, unique, disk>>

(* clear_secondary_index_entries: the entries that memory knows of.        *)
ClearEntries ==
  /\ mem' = None
  /\ materialized' = FALSE /\ validated' = FALSE
  /\ disk' = IF mem = None THEN disk
             ELSE [k \in IndexKeys |-> IF mem[k] = {} THEN disk[k] ELSE {}]

(* The process may stop with the entries gone and the metadata unwritten.  *)
Persist(m) == meta' = m
Restarted(u, i, m, d) ==
  /\ unique' = u /\ indexed' = i /\ materialized' = m
  /\ validated' = FALSE
  /\ disk' = d
  /\ mem' = IF u \/ (i /\ m) THEN d ELSE None

RemoveIndex ==
  /\ Changes
  /\ indexed' = FALSE
  /\ IF unique THEN UNCHANGED <<mem, materialized, validated, disk>>
     ELSE ClearEntries
  /\ Persist(Metadata(unique, FALSE, materialized'))
  /\ UNCHANGED <<data, unique>>

RemoveIndexStops ==
  /\ Changes
  /\ ~unique /\ mem # None
  /\ Restarted(meta.unique, meta.indexed, meta.materialized,
       [k \in IndexKeys |-> IF mem[k] = {} THEN disk[k] ELSE {}])
  /\ UNCHANGED <<data, meta>>

(* write_secondary_index_snapshot: stale entries go, all others are        *)
(* written.                                                                *)
AddUnique ==
  /\ Changes /\ ~unique
  /\ IF NoDuplicates
     THEN /\ unique' = TRUE
          /\ mem' = Built /\ disk' = Built /\ validated' = TRUE
          /\ Persist(Metadata(TRUE, indexed, materialized))
     ELSE UNCHANGED <<unique, mem, disk, validated, meta>>
  /\ UNCHANGED <<data, indexed, materialized>>

(* clear_unique_constraint, which a removal of a "key" or "constraint"     *)
(* rule calls whether the field is unique or not.                          *)
RemoveUnique ==
  /\ Changes
  /\ unique' = FALSE
  /\ IF indexed
     THEN materialized' = TRUE /\ UNCHANGED <<mem, validated, disk>>
     ELSE ClearEntries
  /\ Persist(Metadata(FALSE, indexed, materialized'))
  /\ UNCHANGED <<data, indexed>>

Materialize ==
  /\ mem' = Built /\ disk' = Built
  /\ materialized' = TRUE /\ validated' = TRUE
  /\ meta' = Metadata(unique, indexed, TRUE)

RebuildIndex ==
  /\ unique \/ indexed
  /\ Changes
  /\ IF unique
     THEN /\ mem' = Built /\ disk' = Built /\ validated' = TRUE
          /\ meta' = Metadata(unique, indexed, materialized)
          /\ UNCHANGED materialized
     ELSE Materialize
  /\ UNCHANGED <<data, unique, indexed>>

(* The process is killed, or stops and starts.                             *)
Restart ==
  /\ Changes
  /\ Restarted(meta.unique, meta.indexed, meta.materialized, disk)
  /\ UNCHANGED <<data, meta>>

-----------------------------------------------------------------------------
(* Queries: records_matching_filter_candidates.                            *)

ById(f) == IF f.id = None THEN Live
           ELSE {primary[k] : k \in f.id} \ {None}
ByIndex(f) == ById(f) \cap UNION {mem'[k] : k \in PredicateKeys(f)}

(* What the candidates are filtered to; a slot that has gone is skipped.   *)
Answer(f, candidates) ==
  answer' = [filter |-> f,
             keys |-> {rec[o].key : o \in
               {p \in candidates : rec[p] # None /\ Matches(rec[p], f)}}]

(* A query whose conditions cannot use the index reads every record, and   *)
(* so does the one that has to build it.                                   *)
Unindexable(f) == f.field # {} /\ ~(HasPredicate(f) /\ (unique \/ indexed))

QueryScans(f) ==
  /\ Unindexable(f)
  /\ Answer(f, Live)
  /\ UNCHANGED <<data, index, ops>>

QueryById(f) ==
  /\ f.field = {} /\ f.id # None
  /\ Answer(f, ById(f))
  /\ UNCHANGED <<data, index, ops>>

QueryUnique(f) ==
  /\ f.field # {} /\ ~Unindexable(f) /\ unique
  /\ mem' = IF mem = None THEN Built ELSE mem
  /\ Answer(f, ByIndex(f))
  /\ UNCHANGED <<data, unique, indexed, materialized, validated, disk, meta,
                 ops>>

BugTrusted == materialized /\ mem # None
Trusted == materialized /\ mem # None /\ (validated \/ mem = Built)

QueryIndexed(f) ==
  /\ f.field # {} /\ ~Unindexable(f) /\ ~unique
  /\ IF Trusted
     THEN /\ validated' = TRUE
          /\ UNCHANGED <<mem, materialized, disk, meta>>
          /\ Answer(f, ByIndex(f))
     ELSE Materialize /\ Answer(f, Live)
  /\ UNCHANGED <<data, unique, indexed, ops>>

Query(f) ==
  QueryScans(f) \/ QueryById(f) \/ QueryUnique(f) \/ QueryIndexed(f)

Next ==
  \/ \E k \in Keys : Delete(k) \/ \E v \in Values \cup {None} : Upsert(k, v)
  \/ Compact \/ Restart
  \/ AddIndex \/ RemoveIndex \/ RemoveIndexStops \/ RebuildIndex
  \/ AddUnique \/ RemoveUnique
  \/ \E f \in Filters : Query(f)

Spec == Init /\ [][Next]_vars

-----------------------------------------------------------------------------
(* A query returns the records that match it, whether it reads them all or *)
(* takes its candidates from an index: whatever was declared, dropped,     *)
(* rebuilt, compacted or lost with the process before it.                  *)
AnswersAreExact ==
  answer # None =>
    answer.keys = {r.key : r \in {rec[o] : o \in
                    {p \in Live : Matches(rec[p], answer.filter)}}}

(* An index that the next query or the next unique check will trust holds  *)
(* exactly the live records, and no two of them share a key while the      *)
(* field is unique.                                                        *)
TrustedIndexIsExact ==
  /\ (mem # None /\ (unique \/ (materialized /\ validated))) => mem = Built
  /\ unique => NoDuplicates

=============================================================================
