--------------------------- MODULE DrawerStorage ---------------------------
(***************************************************************************)
(* The two files of a drawer, its indexes in memory and the slots it       *)
(* recycles (embedded/src/wrdb_lib/drawer/mutation.rs, deletion.rs,        *)
(* storage_blocks.rs, indexing.rs, metadata.rs, compaction.rs and          *)
(* core/recycler.rs, core/writer.rs).                                      *)
(*                                                                         *)
(* The data file is a sequence of slots, the index file a sequence of      *)
(* entries; an offset is the number of a slot, since slots neither split   *)
(* nor merge.  The drawer has a primary key and one unique field.  The     *)
(* drawer's lock makes an operation exclusive, so an operation computes    *)
(* the memory it leaves at once, and its file writes one by one, in the    *)
(* code's order: the process may stop between any two of them.             *)
(***************************************************************************)
EXTENDS Integers, Sequences, FiniteSets, SequencesExt

CONSTANTS
  Keys,         \* the primary keys
  Vals,         \* the records' contents, which are also the unique field
  Length,       \* the number of bytes of each
  Align,        \* the recycler's alignment_bracket_size
  Absent,       \* no key, no record
  StopsIn,      \* the operations during which the process may stop
  MaxOps,       \* how many operations change the drawer
  MaxStops      \* how often the drawer is closed or its process stops

Operations == {"upsert", "delete", "vacuum", "open"}

ASSUME ValsAssumption ==
  /\ Vals \subseteq Nat \ {0}
  /\ Length \in [Vals -> Nat \ {0}]
ASSUME AlignAssumption == Align \in Nat \ {0}
ASSUME KeysAssumption == IsFiniteSet(Keys)
ASSUME AbsentAssumption == Absent \notin Keys \cup Vals
ASSUME DrawerBoundsAssumption ==
  StopsIn \subseteq Operations /\ MaxOps \in Nat /\ MaxStops \in Nat

VARIABLES
  data,         \* the slots of the data file
  index,        \* the entries of the index file
  primary,      \* primary_memory_index: the slot of each key, or 0
  unique,       \* secondary_memory_index of the unique field
  indexAt,      \* index_file_offsets: the entry of each field and key, or 0
  blocks,       \* data_block_index: the size of the slots in use
  free,         \* data_recycler: the registered slots and their sizes
  scanned,      \* data_recycler_cache_initialized
  freeIndex,    \* index_recycler
  op,           \* the operation in progress, and the keys it changes
  todo,         \* the file writes it still has to make
  torn,         \* history: did the process stop inside an operation?
  before,       \* history: the records when the operation started
  ops,          \* operations so far
  stops         \* stops so far

memory == <<primary, unique, indexAt, blocks, free, scanned, freeIndex>>
files == <<data, index>>
vars == <<files, memory, op, todo, torn, before, ops, stops>>

None == [name |-> "none", keys |-> {}, val |-> Absent]
Down == [name |-> "down", keys |-> {}, val |-> Absent]
NoRecords == [k \in Keys |-> Absent]
AtRest == op.name = "none"

(* A slot without a key is a tombstone; so is an entry of no field.        *)
Slot == [size : Nat, key : Keys \cup {Absent}, val : Vals \cup {Absent}]
Entry == [field : {"dead", "pk", "unique"}, key : Keys \cup Vals \cup {Absent},
          at : SUBSET Nat, size : Nat]
DeadEntry == [field |-> "dead", key |-> Absent, at |-> {}, size |-> 0]
Live(o) == o \in DOMAIN data /\ data[o].key # Absent

Fields == ({"pk"} \X Keys) \cup ({"unique"} \X Vals)

---------------------------------------------------------------------------
(* Slots.                                                                  *)

(* calculate_aligned_size: one byte more, rounded up.                      *)
Aligned(n) == LET total == n + 1
                  rest == total % Align
              IN  IF rest = 0 THEN total ELSE total + Align - rest

(* ensure_data_recycler_cache: the first write after an open registers the *)
(* tombstones of the data file, with the sizes they have in it.            *)
FreeSlots ==
  IF scanned \/ index = <<>>
  THEN free
  ELSE free \cup {[at |-> o, size |-> data[o].size] : o \in {p \in DOMAIN data : ~Live(p)}}

(* write_data_payload: a free slot of exactly this size, or a new one.     *)
BugSlotsFor(size) ==
  LET fit == {f.at : f \in {g \in FreeSlots : g.size >= size}}
  IN  IF fit = {} THEN {Len(data) + 1} ELSE fit
SlotsFor(size) ==
  LET fit == {f.at : f \in {g \in FreeSlots : g.size = size}}
  IN  IF fit = {} THEN {Len(data) + 1} ELSE fit

(* The members of a finite set of numbers in increasing order.             *)
InOrder(S) ==
  CHOOSE s \in SetToSeqs(S) : \A i, j \in DOMAIN s : i < j => s[i] < s[j]

---------------------------------------------------------------------------
(* The file writes an operation has to make, and the next one of them.     *)

PutData(o, slot) == [do |-> "put", at |-> o, slot |-> slot]
KillData(o, n) == [do |-> "kill", at |-> o, entry |-> n]
Log(f, k, offsets, size) ==
  [do |-> "log", entry |-> [field |-> f, key |-> k, at |-> offsets, size |-> size]]
KillEntry(n) == [do |-> "killEntry", at |-> n]
Rewrite(file, content) ==
  <<[do |-> "cut", file |-> file], [do |-> "fill", file |-> file, content |-> content]>>

PutAt(s, n, x) == IF n \in DOMAIN s THEN [s EXCEPT ![n] = x] ELSE Append(s, x)

WritePut(w) ==
  /\ w.do = "put"
  /\ data' = PutAt(data, w.at, w.slot)
  /\ todo' = Tail(todo)
  /\ UNCHANGED <<index, indexAt, freeIndex>>

(* The tombstone of a record, then that of its entry when it is known.     *)
WriteKill(w) ==
  /\ w.do = "kill"
  /\ data' = [data EXCEPT ![w.at] = [size |-> @.size, key |-> Absent, val |-> Absent]]
  /\ todo' = IF w.entry = 0 THEN Tail(todo) ELSE <<KillEntry(w.entry)>> \o Tail(todo)
  /\ UNCHANGED <<index, indexAt, freeIndex>>

(* write_index_log: the new entry first, then the tombstone of the old one.*)
BugWriteLog(w) ==
  /\ w.do = "log"
  /\ \E n \in IF freeIndex = {} THEN {Len(index) + 1} ELSE freeIndex :
       /\ index' = PutAt(index, n, w.entry)
       /\ freeIndex' = freeIndex \ {n}
       /\ indexAt' = [indexAt EXCEPT ![<<w.entry.field, w.entry.key>>] = n]
  /\ todo' = Tail(todo)
  /\ UNCHANGED data
WriteLog(w) ==
  /\ w.do = "log"
  /\ \E n \in IF freeIndex = {} THEN {Len(index) + 1} ELSE freeIndex :
       LET f == <<w.entry.field, w.entry.key>>
           old == indexAt[f]
       IN  /\ index' = PutAt(index, n, w.entry)
           /\ freeIndex' = freeIndex \ {n}
           /\ indexAt' = [indexAt EXCEPT ![f] = n]
           /\ todo' = IF old = 0 \/ old = n THEN Tail(todo) ELSE <<KillEntry(old)>> \o Tail(todo)
  /\ UNCHANGED data

WriteKillEntry(w) ==
  /\ w.do = "killEntry"
  /\ index' = [index EXCEPT ![w.at] = DeadEntry]
  /\ todo' = Tail(todo)
  /\ UNCHANGED <<data, indexAt, freeIndex>>

(* rewrite_all cuts the file, then writes it.                              *)
WriteAll(w) ==
  /\ w.do \in {"cut", "fill"}
  /\ LET content == IF w.do = "cut" THEN <<>> ELSE w.content
     IN  IF w.file = "data"
         THEN data' = content /\ UNCHANGED index
         ELSE index' = content /\ UNCHANGED data
  /\ todo' = Tail(todo)
  /\ UNCHANGED <<indexAt, freeIndex>>

WriteNext ==
  /\ todo # <<>>
  /\ LET w == Head(todo)
     IN  WritePut(w) \/ WriteKill(w) \/ WriteLog(w) \/ WriteKillEntry(w) \/ WriteAll(w)
  /\ op' = IF todo' = <<>> THEN None ELSE op
  /\ before' = IF todo' = <<>> THEN NoRecords ELSE before
  /\ UNCHANGED <<primary, unique, blocks, free, scanned, torn, ops, stops>>

---------------------------------------------------------------------------
(* What Drawer::open reads from the two files.                             *)

EntriesOf(field, k) == {n \in DOMAIN index : index[n].field = field /\ index[n].key = k}

(* Entries are loaded in file order and a later one replaces an earlier.   *)
EntryOf(field, k) ==
  LET all == EntriesOf(field, k)
  IN  IF all = {} THEN 0 ELSE Max(all)

OffsetsIn(n) == IF n = 0 THEN {} ELSE index[n].at
OpenedPrimary ==
  [k \in Keys |-> LET at == OffsetsIn(EntryOf("pk", k))
                  IN  IF at = {} THEN 0 ELSE CHOOSE o \in at : TRUE]
OpenedUnique == [v \in Vals |-> OffsetsIn(EntryOf("unique", v))]
OpenedEntries == [f \in Fields |-> EntryOf(f[1], f[2])]

(* The block of every primary entry, the replaced ones included.           *)
OpenedBlocks ==
  LET all == {n \in DOMAIN index : index[n].field = "pk"}
  IN  [o \in UNION {index[n].at : n \in all} |->
         index[Max({n \in all : o \in index[n].at})].size]

(* The record of each key, read through the index as a reopened drawer     *)
(* would.                                                                  *)
Records ==
  [k \in Keys |-> LET o == OpenedPrimary[k]
                  IN  IF Live(o) THEN data[o].val ELSE Absent]

(* The entries a later one replaces: open tombstones them.                 *)
Replaced ==
  {n \in DOMAIN index : /\ index[n].field # "dead"
                        /\ n # EntryOf(index[n].field, index[n].key)}

---------------------------------------------------------------------------
(* The operations.                                                         *)

(* historical_block_entry: the size of the slot an operation gives up.     *)
BlockSize(o) == IF o \in DOMAIN blocks THEN blocks[o] ELSE data[o].size
Freed(o) == [at |-> o, size |-> BlockSize(o)]

(* pop_available_slot takes the slot it returns.                           *)
BugAfterUse(o, size) == FreeSlots
AfterUse(o, size) == FreeSlots \ {[at |-> o, size |-> size]}

OldValue(k) == IF Live(primary[k]) THEN data[primary[k]].val ELSE Absent

(* update_secondary_index_for_record_change, in memory.                    *)
BugUniqueAfter(k, v, o) == [unique EXCEPT ![v] = @ \cup {o}]
UniqueAfter(k, v, o) ==
  [u \in Vals |-> (IF u = OldValue(k) THEN unique[u] \ {primary[k]} ELSE unique[u])
                  \cup (IF u = v THEN {o} ELSE {})]

(* upsert_record_internal: the record, its primary entry, its unique       *)
(* entries, and then the tombstone of the record it replaces.              *)
BugUpsertWrites(k, v, o) ==
  LET old == primary[k]
      values == InOrder({v, OldValue(k)} \ {Absent})
  IN  (IF old \in {0, o} THEN <<>> ELSE <<KillData(old, 0)>>)
      \o <<PutData(o, [size |-> Aligned(Length[v]), key |-> k, val |-> v]),
           Log("pk", k, {o}, Aligned(Length[v]))>>
      \o [i \in DOMAIN values |-> Log("unique", values[i], UniqueAfter(k, v, o)[values[i]], 0)]
UpsertWrites(k, v, o) ==
  LET old == primary[k]
      values == InOrder({v, OldValue(k)} \ {Absent})
  IN  <<PutData(o, [size |-> Aligned(Length[v]), key |-> k, val |-> v]),
        Log("pk", k, {o}, Aligned(Length[v]))>>
      \o [i \in DOMAIN values |-> Log("unique", values[i], UniqueAfter(k, v, o)[values[i]], 0)]
      \o (IF old \in {0, o} THEN <<>> ELSE <<KillData(old, 0)>>)

(* A value another record has is refused before anything is written.       *)
Upsert(k, v) ==
  /\ AtRest
  /\ ops < MaxOps
  /\ unique[v] \subseteq {primary[k]}
  /\ LET old == primary[k]
         size == Aligned(Length[v])
     IN  \E o \in SlotsFor(size) :
           /\ op' = [name |-> "upsert", keys |-> {k}, val |-> v]
           /\ todo' = UpsertWrites(k, v, o)
           /\ primary' = [primary EXCEPT ![k] = o]
           /\ unique' = UniqueAfter(k, v, o)
           /\ blocks' = [p \in (DOMAIN blocks \ {old}) \cup {o} |->
                           IF p = o THEN size ELSE blocks[p]]
           /\ free' = AfterUse(o, size) \cup (IF old \in {0, o} THEN {} ELSE {Freed(old)})
  /\ scanned' = TRUE
  /\ ops' = ops + 1
  /\ UNCHANGED <<files, indexAt, freeIndex, torn, before, stops>>

(* The entry tombstone_index_slot takes off the memory, if it is known.    *)
Known(field, k) == indexAt[<<field, k>>]

(* What a delete leaves in memory; the slots are free at once, whether or  *)
(* not the tombstones of the data file have been scanned.                  *)
Deleted(S, gone) ==
  LET slots == {primary[k] : k \in gone}
  IN  /\ primary' = [k \in Keys |-> IF k \in S THEN 0 ELSE primary[k]]
      /\ unique' = [v \in Vals |-> IF \E k \in gone : OldValue(k) = v
                                   THEN unique[v] \ slots ELSE unique[v]]
      /\ blocks' = [o \in DOMAIN blocks \ slots |-> blocks[o]]
      /\ free' = free \cup {Freed(o) : o \in slots}
      /\ op' = IF gone = {} THEN None ELSE [name |-> "delete", keys |-> gone, val |-> Absent]
      /\ ops' = ops + 1
      /\ UNCHANGED <<files, scanned, freeIndex, torn, before, stops>>

(* delete_by_primary_key: the tombstone of the record, that of its primary *)
(* entry, and a new unique entry.                                          *)
Delete(k) ==
  /\ AtRest
  /\ ops < MaxOps
  /\ Live(primary[k])
  /\ LET v == OldValue(k)
     IN  todo' = <<KillData(primary[k], Known("pk", k)),
                   Log("unique", v, unique[v] \ {primary[k]}, 0)>>
  /\ indexAt' = [indexAt EXCEPT ![<<"pk", k>>] = 0]
  /\ Deleted({k}, {k})

(* delete_by_primary_keys_set_based: the records and primary entries one   *)
(* after the other, then the unique entry of each value, which is a        *)
(* tombstone when no record has the value any more.  A key whose slot      *)
(* holds no record, here or in delete_by_primary_key, is only dropped from *)
(* memory.                                                                 *)
DeleteSet(S) ==
  LET gone == {k \in S : Live(primary[k])}
      values == {OldValue(k) : k \in gone}
      slots == {primary[k] : k \in gone}
      emptied == {v \in values : unique[v] \subseteq slots}
      logged == values \ {v \in emptied : Known("unique", v) = 0}
      Cleared(v) == IF v \in emptied THEN KillEntry(Known("unique", v))
                    ELSE Log("unique", v, unique[v] \ slots, 0)
  IN  /\ AtRest
      /\ ops < MaxOps
      /\ \E k \in S : primary[k] # 0
      /\ Cardinality(slots) = Cardinality(gone)
      /\ \E ks \in SetToSeqs(gone), vs \in SetToSeqs(logged) :
           todo' = [i \in DOMAIN ks |-> KillData(primary[ks[i]], Known("pk", ks[i]))]
                   \o [i \in DOMAIN vs |-> Cleared(vs[i])]
      /\ indexAt' = [f \in Fields |->
           IF \/ f[1] = "pk" /\ f[2] \in gone
              \/ f[1] = "unique" /\ f[2] \in emptied
           THEN 0 ELSE indexAt[f]]
      /\ Deleted(S, gone)

(* Drawer::vacuum: the records in slots of exactly their length, in the    *)
(* order of the old slots, then their entries; nothing is free.            *)
Compacted ==
  LET old == InOrder({primary[k] : k \in {j \in Keys : Live(primary[j])}})
  IN  [i \in DOMAIN old |-> [data[old[i]] EXCEPT !.size = Length[data[old[i]].val]]]
CompactedIndex ==
  LET values == InOrder({Compacted[i].val : i \in DOMAIN Compacted})
  IN  [i \in DOMAIN Compacted |-> [field |-> "pk", key |-> Compacted[i].key,
                                   at |-> {i}, size |-> Compacted[i].size]]
      \o [j \in DOMAIN values |->
            [field |-> "unique", key |-> values[j], size |-> 0,
             at |-> {i \in DOMAIN Compacted : Compacted[i].val = values[j]}]]

BugVacuumFree == free
VacuumFree == {}

Vacuum ==
  LET SlotOf(k) == {i \in DOMAIN Compacted : Compacted[i].key = k}
  IN  /\ AtRest
      /\ ops < MaxOps
      /\ op' = [name |-> "vacuum", keys |-> {}, val |-> Absent]
      /\ todo' = Rewrite("data", Compacted) \o Rewrite("index", CompactedIndex)
      /\ primary' = [k \in Keys |->
           IF SlotOf(k) = {} THEN 0 ELSE Max(SlotOf(k))]
      /\ unique' = [v \in Vals |-> {i \in DOMAIN Compacted : Compacted[i].val = v}]
      /\ indexAt' = [f \in Fields |->
           LET at == {n \in DOMAIN CompactedIndex :
                        CompactedIndex[n].field = f[1] /\ CompactedIndex[n].key = f[2]}
           IN  IF at = {} THEN 0 ELSE Max(at)]
      /\ blocks' = [i \in DOMAIN Compacted |-> Compacted[i].size]
      /\ free' = VacuumFree
      /\ scanned' = TRUE
      /\ freeIndex' = {}
      /\ torn' = IF torn = "whole" THEN "whole" ELSE "compacted"
      /\ before' = Records
      /\ ops' = ops + 1
      /\ UNCHANGED <<files, stops>>

Emptied ==
  /\ primary' = [k \in Keys |-> 0] /\ unique' = [v \in Vals |-> {}]
  /\ indexAt' = [f \in Fields |-> 0]
  /\ blocks' = <<>> /\ free' = {} /\ scanned' = FALSE /\ freeIndex' = {}

(* The process ends, at rest or between two writes.                        *)
Stop ==
  /\ AtRest \/ op.name \in StopsIn
  /\ stops < MaxStops
  /\ op' = Down
  /\ todo' = <<>>
  /\ torn' = IF op.name \in {"upsert", "delete", "vacuum"} THEN "torn" ELSE torn
  /\ before' = NoRecords
  /\ stops' = stops + 1
  /\ Emptied
  /\ UNCHANGED <<files, ops>>

Open ==
  /\ op = Down
  /\ primary' = OpenedPrimary
  /\ unique' = OpenedUnique
  /\ indexAt' = OpenedEntries
  /\ blocks' = OpenedBlocks
  /\ free' = {}
  /\ scanned' = FALSE
  /\ freeIndex' = {n \in DOMAIN index : index[n].field = "dead"}
  /\ LET stale == InOrder(Replaced)
     IN  todo' = [i \in DOMAIN stale |-> KillEntry(stale[i])]
  /\ op' = IF Replaced = {} THEN None ELSE [name |-> "open", keys |-> {}, val |-> Absent]
  /\ UNCHANGED <<files, torn, before, ops, stops>>

Init ==
  /\ data = <<>> /\ index = <<>>
  /\ primary = [k \in Keys |-> 0] /\ unique = [v \in Vals |-> {}]
  /\ indexAt = [f \in Fields |-> 0]
  /\ blocks = <<>> /\ free = {} /\ scanned = FALSE /\ freeIndex = {}
  /\ op = Down /\ todo = <<>>
  /\ torn = "whole" /\ before = NoRecords
  /\ ops = 0 /\ stops = 0

Next ==
  \/ \E k \in Keys, v \in Vals : Upsert(k, v)
  \/ \E k \in Keys : Delete(k)
  \/ \E S \in SUBSET Keys : DeleteSet(S)
  \/ Vacuum
  \/ WriteNext
  \/ Stop
  \/ Open

Spec == Init /\ [][Next]_vars

---------------------------------------------------------------------------
(* Properties.                                                             *)

(* Types; at rest, every offset in memory is that of a slot or an entry.   *)
TypeOK ==
  /\ data \in Seq(Slot) /\ index \in Seq(Entry)
  /\ primary \in [Keys -> Nat]
  /\ unique \in [Vals -> SUBSET Nat]
  /\ indexAt \in [Fields -> Nat]
  /\ blocks \in [DOMAIN blocks -> Nat \ {0}]
  /\ free \subseteq [at : Nat, size : Nat \ {0}]
  /\ scanned \in BOOLEAN /\ torn \in {"whole", "torn", "compacted"}
  /\ op.name \in Operations \cup {"none", "down"} /\ op.keys \subseteq Keys
  /\ before \in [Keys -> Vals \cup {Absent}]
  /\ ops \in 0..MaxOps /\ stops \in 0..MaxStops
  /\ AtRest =>
       /\ todo = <<>>
       /\ DOMAIN blocks \cup {f.at : f \in free} \subseteq DOMAIN data
       /\ freeIndex \subseteq DOMAIN index

(* A key of the primary index leads to the key's own record: never to a    *)
(* tombstone and never to the record another key put into a recycled slot. *)
ReadsOwnRecord ==
  AtRest => \A k \in Keys : primary[k] # 0 => Live(primary[k]) /\ data[primary[k]].key = k

(* Unless the process stopped inside an operation, the unique index has    *)
(* exactly the records with a value, and no value is taken twice.  After   *)
(* such a stop a vacuum makes the index exact again.                       *)
UniqueIndexExact ==
  /\ AtRest /\ torn # "torn" =>
       \A v \in Vals : unique[v] = {primary[k] : k \in {j \in Keys : OldValue(j) = v}}
  /\ AtRest /\ torn = "whole" => \A v \in Vals : Cardinality(unique[v]) <= 1

(* A slot the recycler would hand out is a tombstone, is registered once   *)
(* and with the size it has in the file; the sizes kept for the slots in   *)
(* use are theirs too.                                                     *)
NoDoubleAllocation ==
  AtRest =>
    /\ \A f \in free : f.at \in DOMAIN data /\ ~Live(f.at) /\ f.size = data[f.at].size
    /\ \A k \in Keys : primary[k] # 0 => primary[k] \in DOMAIN blocks
    /\ \A o \in DOMAIN blocks : blocks[o] = data[o].size

(* At rest, a drawer that is closed and opened has the indexes it has now. *)
MemoryMatchesFiles ==
  AtRest => /\ OpenedPrimary = primary
            /\ OpenedUnique = unique
            /\ Replaced = {}

(* A slot keeps its size, so that the frames of the file stay adjacent;    *)
(* only a vacuum lays the file out anew.                                   *)
SlotsKeepTheirSize ==
  [][op.name # "vacuum" =>
       \A o \in DOMAIN data : o \in DOMAIN data' /\ data'[o].size = data[o].size]_vars

(* README.md:714 promises "Write-ahead log verification and recovery for   *)
(* incomplete operations".  A lookup by key would then never return the    *)
(* record of another key.  It does: a process that stops in a delete       *)
(* between the two tombstones leaves the primary entry of a free slot, and *)
(* the slot is recycled for another key.                                   *)
ReadsNoOtherRecord ==
  AtRest => \A k \in Keys : Live(primary[k]) => data[primary[k]].key = k

(* The drawer is the map DrawerMap specifies: an operation changes the     *)
(* records it names and no others, in whatever order its writes reach the  *)
(* two files, and a stop inside it leaves each record old or new.          *)
Map == INSTANCE DrawerMap WITH
  records <- IF op.name = "vacuum" THEN before ELSE Records,
  status <- IF op.name \in {"down", "open"} THEN "down"
            ELSE IF op.name \in {"upsert", "delete"} THEN "busy" ELSE "idle",
  call <- IF op.name \in {"upsert", "delete"}
          THEN [keys |-> op.keys, val |-> op.val]
          ELSE [keys |-> {}, val |-> Absent]
ImplementsDrawerMap == Map!Spec
===========================================================================
