------------------------ MODULE DrawerStorage_proofs ------------------------
(***************************************************************************)
(* Proofs about DrawerStorage, whose process stops nowhere but inside an   *)
(* upsert or an open: its types, that a key reads its own record, that the *)
(* unique index is exact, that a slot is handed out once and keeps its     *)
(* size, that what is in memory is what an open would read, and that the   *)
(* drawer is the map DrawerMap specifies.                                  *)
(***************************************************************************)
EXTENDS DrawerStorage, FiniteSetTheorems, WellFoundedInduction, TLAPS

---------------------------------------------------------------------------
(* Slots, entries and the writes of them.                                  *)

LiveSlot == [size : Nat \ {0}, key : Keys, val : Vals]
Tombstone == [size : Nat \ {0}, key : {Absent}, val : {Absent}]
Slots == LiveSlot \cup Tombstone
PkEntry == [field : {"pk"}, key : Keys, at : SUBSET Nat, size : Nat]
UniqueEntry == [field : {"unique"}, key : Vals, at : SUBSET Nat, size : Nat]
Entries == PkEntry \cup UniqueEntry \cup {DeadEntry}

Write ==
  [do : {"put"}, at : Nat, slot : LiveSlot]
    \cup [do : {"kill"}, at : Nat, entry : Nat]
    \cup [do : {"log"}, entry : PkEntry \cup UniqueEntry]
    \cup [do : {"killEntry"}, at : Nat]

(* Files d and ix, the entries at and the free entries fr in memory, the   *)
(* writes W still to be made by the operation o.                           *)
Alive(d, o) == o \in DOMAIN d /\ d[o].key # Absent
IsOf(e, f) == e.field = f[1] /\ e.key = f[2]
Dying(W, n) == \E w \in W : (w.do = "killEntry" /\ w.at = n) \/ (w.do = "kill" /\ w.entry = n)
Freeing(W, o) == \E w \in W : w.do = "kill" /\ w.at = o
Putting(W, o) == \E w \in W : w.do = "put" /\ w.at = o
PuttingFor(W, k) == \E w \in W : w.do = "put" /\ w.slot.key = k
Logging(W, f) == \E w \in W : w.do = "log" /\ IsOf(w.entry, f)

(* Memory knows the one entry of each field and key that will stay, and    *)
(* the entries that are free.                                              *)
EntriesInv(ix, at, fr, W) ==
  /\ \A n \in DOMAIN ix, f \in Fields : IsOf(ix[n], f) /\ ~Dying(W, n) => at[f] = n
  /\ \A f \in Fields : at[f] # 0 =>
       at[f] \in DOMAIN ix /\ IsOf(ix[at[f]], f) /\ ~Dying(W, at[f])
  /\ \A n \in fr : n \in DOMAIN ix /\ ix[n] = DeadEntry /\ ~Dying(W, n)
  /\ \A n : Dying(W, n) => n \in DOMAIN ix \cup {0}

(* A primary entry leads to a slot of its key, of the size it says.        *)
Leads(d, e) ==
  \E o \in DOMAIN d : e.at = {o} /\ e.size = d[o].size /\ d[o].key = e.key
FilesInv(d, ix, W, o) ==
  \A n \in DOMAIN ix : ix[n].field = "pk" =>
    (o.name = "delete" /\ Dying(W, n)) \/ Leads(d, ix[n])

(* The primary index in memory is that of the files, but for entries still *)
(* to be written, and leads to the slot of each key, or to where it will   *)
(* be put.                                                                 *)
PrimaryInv(d, ix, at, W) ==
  \A k \in Keys :
    LET n == at[<<"pk", k>>]
    IN  /\ ~Logging(W, <<"pk", k>>) =>
             IF n = 0 THEN primary[k] = 0 ELSE primary[k] # 0 /\ ix[n].at = {primary[k]}
        /\ primary[k] # 0 =>
             /\ primary[k] \in DOMAIN blocks
             /\ ~Freeing(W, primary[k])
             /\ PuttingFor(W, k) \/ (Alive(d, primary[k]) /\ d[primary[k]].key = k)

(* What is still to be written is what memory says.                        *)
PutInv(d, W, o) ==
  \A w \in W : w.do = "put" =>
    /\ w.slot.key \in o.keys /\ w.at = primary[w.slot.key] /\ w.slot.val = o.val
    /\ w.at \in 1..(Len(d) + 1) /\ ~Alive(d, w.at)
    /\ w.at \in DOMAIN d => d[w.at].size = w.slot.size
    /\ w.at \in DOMAIN blocks /\ blocks[w.at] = w.slot.size
LogInv(W, o) ==
  \A w \in W : w.do = "log" =>
    IF w.entry.field = "pk"
    THEN /\ w.entry.key \in o.keys /\ primary[w.entry.key] # 0
         /\ w.entry.at = {primary[w.entry.key]}
         /\ w.entry.size = blocks[primary[w.entry.key]]
    ELSE w.entry.at = unique[w.entry.key]

(* The sizes in memory are those of the slots, and a slot that may be      *)
(* handed out is a tombstone, or will be before the operation ends.        *)
SlotsInv(d, ix, at, W) ==
  /\ \A o \in DOMAIN blocks : Putting(W, o) \/ (o \in DOMAIN d /\ blocks[o] = d[o].size)
  /\ \A f \in free :
       /\ f.at \in DOMAIN d /\ f.size = d[f.at].size
       /\ ~Alive(d, f.at) \/ Freeing(W, f.at)
       /\ ~Putting(W, f.at)
FreeingInv(d, ix, at, W) ==
  \A o : Freeing(W, o) =>
    /\ o \in DOMAIN d
    /\ \A n \in DOMAIN ix : (ix[n].field = "pk" /\ o \in ix[n].at) =>
         Dying(W, n) \/ (Logging(W, <<"pk", ix[n].key>>) /\ n = at[<<"pk", ix[n].key>>])

(* The unique index in memory is that of the files, but for entries still  *)
(* to be written, and has the slots of the records with each value.        *)
ValueIn(d, k, o) ==
  IF o.name = "upsert" /\ k \in o.keys THEN o.val
  ELSE IF Alive(d, primary[k]) THEN d[primary[k]].val ELSE Absent
UniqueFileInv(ix, at, W) ==
  \A v \in Vals :
    LET n == at[<<"unique", v>>]
    IN  ~Logging(W, <<"unique", v>>) => unique[v] = IF n = 0 THEN {} ELSE ix[n].at
ValuesInv(d, o) ==
  /\ torn # "torn" => \A v \in Vals : unique[v] = {primary[k] : k \in {j \in Keys : ValueIn(d, j, o) = v}}
  /\ torn = "whole" => \A j, k \in Keys :
       (ValueIn(d, j, o) = ValueIn(d, k, o) /\ ValueIn(d, j, o) # Absent) => j = k

(* The record an upsert writes is in its slot, or will be.                 *)
TargetInv(d, W, o) ==
  o.name = "upsert" => \A k \in o.keys :
    /\ primary[k] # 0
    /\ PuttingFor(W, k) \/ (Alive(d, primary[k]) /\ d[primary[k]].val = o.val)

Sound(d, ix, at, fr, W, o) ==
  /\ EntriesInv(ix, at, fr, W)
  /\ FilesInv(d, ix, W, o)
  /\ PrimaryInv(d, ix, at, W)
  /\ PutInv(d, W, o) /\ LogInv(W, o)
  /\ SlotsInv(d, ix, at, W) /\ FreeingInv(d, ix, at, W)
  /\ UniqueFileInv(ix, at, W) /\ ValuesInv(d, o) /\ TargetInv(d, W, o)

(* The order in which an operation writes.                                 *)
OrderInv ==
  /\ op.name = "open" => \A i \in DOMAIN todo : todo[i].do = "killEntry"
  /\ op.name = "delete" => \A i \in DOMAIN todo :
       /\ todo[i].do \in {"kill", "killEntry", "log"}
       /\ todo[i].do = "log" => todo[i].entry.field = "unique"
  /\ op.name = "upsert" => \A i \in DOMAIN todo :
       /\ todo[i].do = "put" => i = 1
       /\ todo[i].do = "kill" => i = Len(todo) /\ todo[i].entry = 0

(* An open leaves the last entry of each field and key.                    *)
OpenInv ==
  op.name = "open" => \A n \in DOMAIN index, f \in Fields :
    IsOf(index[n], f) => n <= indexAt[f]

(* A drawer that is not open can be opened.                                *)
OpenedValue(k) == IF Alive(data, OpenedPrimary[k]) THEN data[OpenedPrimary[k]].val ELSE Absent
DownInv ==
  /\ \A n \in DOMAIN index : index[n].field = "pk" => Leads(data, index[n])
  /\ torn # "torn" => \A v \in Vals :
       OpenedUnique[v] = {OpenedPrimary[k] : k \in {j \in Keys : OpenedValue(j) = v}}
  /\ torn = "whole" => \A j, k \in Keys :
       (OpenedValue(j) = OpenedValue(k) /\ OpenedValue(j) # Absent) => j = k

(* A vacuum writes the files that it has in memory, with the same records. *)
Cut(file) == [do |-> "cut", file |-> file]
Fill(file, content) == [do |-> "fill", file |-> file, content |-> content]
Saved(d) == \A k \in Keys :
  before[k] = IF primary[k] = 0 THEN Absent ELSE d[primary[k]].val
Rewriting(d, ix) ==
  /\ d \in Seq(Slots) /\ ix \in Seq(Entries) /\ Saved(d)
  /\ Sound(d, ix, indexAt, freeIndex, {}, op)
  /\ \/ todo = <<Cut("data"), Fill("data", d), Cut("index"), Fill("index", ix)>>
     \/ data = <<>> /\ todo = <<Fill("data", d), Cut("index"), Fill("index", ix)>>
     \/ data = d /\ todo = <<Cut("index"), Fill("index", ix)>>
     \/ data = d /\ index = <<>> /\ todo = <<Fill("index", ix)>>

Operation ==
  [name : {"none", "down", "open", "vacuum"}, keys : {{}}, val : {Absent}]
    \cup [name : {"upsert"}, keys : SUBSET Keys, val : Vals]
    \cup [name : {"delete"}, keys : SUBSET Keys, val : {Absent}]

TypeInv ==
  /\ data \in Seq(Slots) /\ index \in Seq(Entries)
  /\ primary \in [Keys -> Nat]
  /\ unique \in [Vals -> SUBSET Nat]
  /\ indexAt \in [Fields -> Nat]
  /\ blocks \in [DOMAIN blocks -> Nat \ {0}]
  /\ free \subseteq [at : Nat, size : Nat \ {0}]
  /\ scanned \in BOOLEAN /\ torn \in {"whole", "torn", "compacted"}
  /\ op \in Operation
  /\ op.name # "vacuum" => todo \in Seq(Write)
  /\ op.name \in {"none", "down"} => todo = <<>>
  /\ before \in [Keys -> Vals \cup {Absent}]
  /\ ops \in 0..MaxOps /\ stops \in 0..MaxStops

Running == op.name \in {"none", "open", "upsert", "delete"}
Inv ==
  /\ TypeInv /\ OrderInv /\ OpenInv
  /\ Running => Sound(data, index, indexAt, freeIndex, Range(todo), op)
  /\ op.name = "down" => DownInv
  /\ op.name = "vacuum" => \E d, ix : Rewriting(d, ix)

---------------------------------------------------------------------------
(* Finite sets of numbers.                                                 *)

LEMMA LeastExists ==
  ASSUME NEW S \in SUBSET Nat, S # {}
  PROVE  \E x \in S : \A y \in S : x <= y
<1>1. PICK x \in S : \A y \in S : ~(<<y, x>> \in OpToRel(<, Nat))
  BY WFMin, NatLessThanWellFounded
<1>2. \A y \in S : ~(y < x)
  BY <1>1 DEF OpToRel
<1>3. QED
  BY <1>2

LEMMA MaxIs ==
  ASSUME NEW N \in Nat, NEW S \in SUBSET (1 .. N), S # {}
  PROVE  Max(S) \in S /\ \A y \in S : y <= Max(S)
<1> DEFINE D == {N - x : x \in S}
<1>1. D \in SUBSET Nat /\ D # {}
  <2>1. \A x \in S : N - x \in Nat
    OBVIOUS
  <2>2. PICK x \in S : TRUE
    OBVIOUS
  <2>3. QED
    BY <2>1, <2>2
<1>2. PICK d \in D : \A e \in D : d <= e
  BY <1>1, LeastExists
<1>3. PICK x \in S : d = N - x
  BY <1>2
<1>4. S \subseteq Int
  <2>1. 1 .. N \subseteq Int
    OBVIOUS
  <2>2. QED
    BY <2>1
<1>5. Max(S) \in S /\ \A y \in S : Max(S) >= y
  <2>1. SUFFICES ASSUME NEW y \in S
                 PROVE  x >= y
    BY DEF Max
  <2>2. N - y \in D
    OBVIOUS
  <2>3. N - x <= N - y
    BY <1>2, <1>3, <2>2
  <2>4. x \in Int /\ y \in Int
    BY <1>4
  <2>5. QED
    BY <2>3, <2>4
<1>6. \A y \in S : y \in Int
  BY <1>4
<1>7. \A a, b \in Int : a >= b => b <= a
  OBVIOUS
<1>8. QED
  BY <1>5, <1>6, <1>7

(* The sequences of a set have the set as range.                           *)
LEMMA SeqsOfSet ==
  ASSUME NEW S, IsFiniteSet(S), NEW s \in SetToSeqs(S)
  PROVE  /\ s \in Seq(S) /\ DOMAIN s = 1 .. Len(s)
         /\ Len(s) = Cardinality(S)
         /\ \A i, j \in DOMAIN s : s[i] = s[j] => i = j
         /\ \A x \in S : \E i \in DOMAIN s : s[i] = x
         /\ \A i \in DOMAIN s : s[i] \in S
<1> DEFINE D == 1 .. Cardinality(S)
<1>1. Cardinality(S) \in Nat
  BY FS_CardinalityType
<1>2. s \in [D -> S] /\ \A i, j \in D : i # j => s[i] # s[j]
  BY DEF SetToSeqs
<1>3. s \in Injection(D, S)
  BY <1>2 DEF Injection, IsInjective
<1>4. Cardinality(D) = Cardinality(S)
  BY <1>1, FS_Interval
<1>5. s \in Surjection(D, S)
  BY <1>3, <1>4, FS_Injection
<1>6. \A x \in S : \E i \in D : s[i] = x
  BY <1>5 DEF Surjection
<1>7. s \in Seq(S) /\ Len(s) = Cardinality(S) /\ DOMAIN s = D
  BY <1>1, <1>2
<1>8. QED
  BY <1>2, <1>6, <1>7

Sorted(s) == \A i, j \in DOMAIN s : i < j => s[i] < s[j]

LEMMA SortedPrepended ==
  ASSUME NEW S \in SUBSET Nat, IsFiniteSet(S), NEW x \in S,
         \A y \in S : x <= y,
         NEW s \in SetToSeqs(S \ {x}), Sorted(s)
  PROVE  \E t \in SetToSeqs(S) : Sorted(t)
<1> DEFINE R == S \ {x}
           t == [i \in 1 .. Cardinality(S) |-> IF i = 1 THEN x ELSE s[i - 1]]
<1>1. /\ IsFiniteSet(R) /\ Cardinality(R) = Cardinality(S) - 1
      /\ Cardinality(R) \in Nat /\ Cardinality(S) \in Nat
  BY FS_RemoveElement, FS_CardinalityType
<1>2. /\ DOMAIN s = 1 .. (Cardinality(S) - 1)
      /\ \A i \in DOMAIN s : s[i] \in R
      /\ \A i, j \in DOMAIN s : s[i] = s[j] => i = j
  BY <1>1, SeqsOfSet
<1>3. \A i \in 1 .. Cardinality(S) : i # 1 => i - 1 \in DOMAIN s
  BY <1>1, <1>2
<1>4. t \in [1 .. Cardinality(S) -> S]
  BY <1>2, <1>3
<1>5. ASSUME NEW i \in 1 .. Cardinality(S), NEW j \in 1 .. Cardinality(S), i < j
      PROVE  t[i] < t[j]
  <2>1. j # 1 /\ t[j] = s[j - 1] /\ j - 1 \in DOMAIN s
    BY <1>1, <1>3, <1>5
  <2>2. CASE i = 1
    <3>1. t[i] = x /\ t[j] \in R
      BY <1>2, <2>1, <2>2
    <3>2. x <= t[j] /\ x # t[j] /\ x \in Nat /\ t[j] \in Nat
      BY <3>1
    <3>3. QED
      BY <3>1, <3>2
  <2>3. CASE i # 1
    <3>1. t[i] = s[i - 1] /\ i - 1 \in DOMAIN s /\ i - 1 < j - 1
      BY <1>1, <1>3, <1>5, <2>3
    <3>2. QED
      BY <2>1, <3>1 DEF Sorted
  <2>4. QED
    BY <2>2, <2>3
<1>6. Sorted(t)
  BY <1>4, <1>5 DEF Sorted
<1>7. ASSUME NEW i \in 1 .. Cardinality(S), NEW j \in 1 .. Cardinality(S), i # j
      PROVE  t[i] # t[j]
  <2>1. i < j \/ j < i
    BY <1>1, <1>7
  <2>2. t[i] < t[j] \/ t[j] < t[i]
    BY <1>5, <2>1
  <2>3. t[i] \in Nat /\ t[j] \in Nat
    BY <1>4
  <2> HIDE DEF t
  <2>4. QED
    BY <2>2, <2>3
<1>8. t \in SetToSeqs(S)
  BY <1>4, <1>7 DEF SetToSeqs
<1>9. QED
  BY <1>6, <1>8

(* A finite set of numbers can be put in order: a smallest one that cannot *)
(* would have a least member, and without it one fewer.                    *)
LEMMA SortedExists ==
  ASSUME NEW S \in SUBSET Nat, IsFiniteSet(S)
  PROVE  \E s \in SetToSeqs(S) : Sorted(s)
<1> DEFINE Bad == {n \in Nat : \E T \in SUBSET Nat :
                     /\ IsFiniteSet(T) /\ Cardinality(T) = n
                     /\ ~\E s \in SetToSeqs(T) : Sorted(s)}
<1>1. ASSUME Bad # {}
      PROVE  FALSE
  <2>1. PICK n \in Bad : \A m \in Bad : n <= m
    BY <1>1, LeastExists
  <2>2. PICK T \in SUBSET Nat : /\ IsFiniteSet(T) /\ Cardinality(T) = n
                                /\ ~\E s \in SetToSeqs(T) : Sorted(s)
    BY <2>1
  <2>3. CASE T = {}
    <3>1. Cardinality(T) = 0
      BY <2>3, FS_EmptySet
    <3>2. <<>> \in SetToSeqs(T) /\ Sorted(<<>>)
      BY <3>1 DEF SetToSeqs, Sorted
    <3>3. QED
      BY <2>2, <3>2
  <2>4. CASE T # {}
    <3>1. PICK x \in T : \A y \in T : x <= y
      BY <2>4, LeastExists
    <3>2. IsFiniteSet(T \ {x}) /\ Cardinality(T \ {x}) = n - 1
      BY <2>2, <3>1, FS_RemoveElement
    <3>3. n \in Nat /\ n - 1 \in Nat
      BY <3>2, FS_CardinalityType, <2>1
    <3>4. n - 1 \notin Bad
      BY <2>1, <3>3
    <3>5. PICK s \in SetToSeqs(T \ {x}) : Sorted(s)
      BY <3>2, <3>3, <3>4
    <3>6. QED
      BY <2>2, <3>1, <3>5, SortedPrepended
  <2>5. QED
    BY <2>3, <2>4
<1>2. Cardinality(S) \in Nat
  BY FS_CardinalityType
<1>3. QED
  BY <1>1, <1>2

LEMMA InOrderIs ==
  ASSUME NEW S \in SUBSET Nat, IsFiniteSet(S)
  PROVE  /\ InOrder(S) \in Seq(S) /\ DOMAIN InOrder(S) = 1 .. Len(InOrder(S))
         /\ \A i, j \in DOMAIN InOrder(S) : InOrder(S)[i] = InOrder(S)[j] => i = j
         /\ \A x \in S : \E i \in DOMAIN InOrder(S) : InOrder(S)[i] = x
         /\ \A i \in DOMAIN InOrder(S) : InOrder(S)[i] \in S
<1>1. \E s \in SetToSeqs(S) : Sorted(s)
  BY SortedExists
<1>2. InOrder(S) \in SetToSeqs(S)
  BY <1>1 DEF InOrder, Sorted
<1>3. QED
  BY <1>2, SeqsOfSet

---------------------------------------------------------------------------
(* Types of slots, entries and writes.                                     *)

LEMMA FieldsAre ==
  /\ \A k \in Keys : <<"pk", k>> \in Fields
  /\ \A v \in Vals : <<"unique", v>> \in Fields
  /\ \A f \in Fields : \/ f[1] = "pk" /\ f[2] \in Keys /\ f = <<"pk", f[2]>>
                       \/ f[1] = "unique" /\ f[2] \in Vals /\ f = <<"unique", f[2]>>
BY DEF Fields

LEMMA SlotParts ==
  ASSUME NEW s \in Slots
  PROVE  /\ s = [size |-> s.size, key |-> s.key, val |-> s.val]
         /\ s.size \in Nat \ {0}
         /\ \/ s.key \in Keys /\ s.val \in Vals /\ s.key # Absent /\ s.val # Absent
            \/ s.key = Absent /\ s.val = Absent
BY AbsentAssumption DEF Slots, LiveSlot, Tombstone

LEMMA EntryParts ==
  ASSUME NEW e \in Entries
  PROVE  /\ e.field \in {"pk", "unique", "dead"}
         /\ e.field = "pk" => e \in PkEntry /\ e.key \in Keys
         /\ e.field = "unique" => e \in UniqueEntry /\ e.key \in Vals
         /\ e.field = "dead" <=> e = DeadEntry
         /\ e.at \subseteq Nat
BY DEF Entries, PkEntry, UniqueEntry, DeadEntry

LEMMA WriteParts ==
  ASSUME NEW w \in Write
  PROVE  /\ w.do \in {"put", "kill", "log", "killEntry"}
         /\ w.do = "put" => w.at \in Nat /\ w.slot \in LiveSlot
         /\ w.do = "kill" => w.at \in Nat /\ w.entry \in Nat
         /\ w.do = "log" => w.entry \in PkEntry \cup UniqueEntry
         /\ w.do = "killEntry" => w.at \in Nat
BY DEF Write

LEMMA WritesMade ==
  /\ \A o \in Nat, s \in LiveSlot : PutData(o, s) \in Write
  /\ \A o, n \in Nat : KillData(o, n) \in Write
  /\ \A k \in Keys, at \in SUBSET Nat, size \in Nat : Log("pk", k, at, size) \in Write
  /\ \A v \in Vals, at \in SUBSET Nat, size \in Nat : Log("unique", v, at, size) \in Write
  /\ \A n \in Nat : KillEntry(n) \in Write
BY DEF PutData, KillData, Log, KillEntry, Write, PkEntry, UniqueEntry

LEMMA SizesPositive ==
  ASSUME NEW v \in Vals
  PROVE  Aligned(Length[v]) \in Nat \ {0} /\ Length[v] \in Nat \ {0}
<1>1. Length[v] \in Nat \ {0}
  BY ValsAssumption
<1>2. \A n, m \in Nat \ {0} : n % m \in 0 .. (m - 1)
  OBVIOUS
<1>3. \A n \in Nat \ {0} : Aligned(n) \in Nat \ {0}
  BY <1>2, AlignAssumption DEF Aligned
<1>4. QED
  BY <1>1, <1>3

(* The writes left after the first one of them.                            *)
LEMMA WritesLeft ==
  ASSUME NEW S, NEW s \in Seq(S), s # <<>>
  PROVE  /\ Tail(s) \in Seq(S) /\ Head(s) = s[1] /\ Head(s) \in S
         /\ Range(s) = {Head(s)} \cup Range(Tail(s))
         /\ \A i \in DOMAIN Tail(s) : i + 1 \in DOMAIN s /\ Tail(s)[i] = s[i + 1]
         /\ Len(Tail(s)) = Len(s) - 1
<1>1. /\ Tail(s) \in Seq(S) /\ Head(s) = s[1] /\ Head(s) \in S /\ 1 \in DOMAIN s
      /\ \A i \in DOMAIN Tail(s) : i + 1 \in DOMAIN s /\ Tail(s)[i] = s[i + 1]
      /\ \A i \in DOMAIN s : i = 1 \/ (i - 1 \in DOMAIN Tail(s) /\ Tail(s)[i - 1] = s[i])
      /\ Len(Tail(s)) = Len(s) - 1
  OBVIOUS
<1>2. Range(s) = {Head(s)} \cup Range(Tail(s))
  BY <1>1 DEF Range
<1>3. QED
  BY <1>1, <1>2

LEMMA WritesPushed ==
  ASSUME NEW S, NEW s \in Seq(S), NEW w \in S
  PROVE  /\ <<w>> \o s \in Seq(S) /\ <<w>> \o s # <<>>
         /\ Range(<<w>> \o s) = {w} \cup Range(s)
         /\ \A i \in DOMAIN (<<w>> \o s) :
              \/ i = 1 /\ (<<w>> \o s)[i] = w
              \/ i - 1 \in DOMAIN s /\ (<<w>> \o s)[i] = s[i - 1]
         /\ Len(<<w>> \o s) = Len(s) + 1
<1> DEFINE t == <<w>> \o s
<1>1. t \in Seq(S) /\ Len(t) = Len(s) + 1 /\ DOMAIN t = 1 .. (Len(s) + 1)
  OBVIOUS
<1>2. t # <<>>
  BY <1>1
<1>3. \A i \in DOMAIN t : t[i] = IF i = 1 THEN w ELSE s[i - 1]
  <2>1. t[1] = w
    OBVIOUS
  <2>2. \A i \in 1 .. (Len(s) + 1) : i # 1 => t[i] = s[i - 1]
    OBVIOUS
  <2>3. QED
    BY <1>1, <2>1, <2>2
<1>4. DOMAIN s = 1 .. Len(s) /\ Len(s) \in Nat
  OBVIOUS
<1> HIDE DEF t
<1>5. /\ 1 \in DOMAIN t /\ t[1] = w
      /\ \A i \in DOMAIN t :
           \/ i = 1 /\ t[i] = w
           \/ i - 1 \in DOMAIN s /\ t[i] = s[i - 1]
      /\ \A i \in DOMAIN s : i + 1 \in DOMAIN t /\ t[i + 1] = s[i]
  BY <1>1, <1>3, <1>4
<1>6. Range(t) = {w} \cup Range(s)
  BY <1>5 DEF Range
<1>7. QED
  BY <1>1, <1>2, <1>5, <1>6 DEF t

LEMMA Overwritten ==
  ASSUME NEW S, NEW s \in Seq(S), NEW x \in S, NEW n \in Nat
  PROVE  /\ [s EXCEPT ![n] = x] \in Seq(S)
         /\ DOMAIN [s EXCEPT ![n] = x] = DOMAIN s
         /\ \A i \in DOMAIN s : [s EXCEPT ![n] = x][i] = IF i = n THEN x ELSE s[i]
<1> DEFINE t == [s EXCEPT ![n] = x]
<1>1. /\ s \in [1 .. Len(s) -> S] /\ Len(s) \in Nat
      /\ \A N \in Nat : \A z \in [1 .. N -> S] : z \in Seq(S)
  OBVIOUS
<1>2. t \in [1 .. Len(s) -> S] /\ \A i \in 1 .. Len(s) : t[i] = IF i = n THEN x ELSE s[i]
  BY <1>1
<1>3. DOMAIN t = DOMAIN s /\ DOMAIN s = 1 .. Len(s)
  BY <1>1
<1> HIDE DEF t
<1>4. QED
  BY <1>1, <1>2, <1>3 DEF t

(* The sequence t is s with x written at n.                                *)
IsWritten(t, s, n, x) ==
  /\ DOMAIN t = DOMAIN s \cup {n} /\ t[n] = x
  /\ \A i \in DOMAIN s : i # n => t[i] = s[i]

LEMMA WrittenAt ==
  ASSUME NEW S, NEW s \in Seq(S), NEW x \in S, NEW n \in 1 .. (Len(s) + 1)
  PROVE  PutAt(s, n, x) \in Seq(S) /\ IsWritten(PutAt(s, n, x), s, n, x)
<1> DEFINE t == PutAt(s, n, x)
<1> SUFFICES t \in Seq(S) /\ IsWritten(t, s, n, x)
  OBVIOUS
<1>1. CASE n \in DOMAIN s
  <2>1. t = [s EXCEPT ![n] = x] /\ n \in Nat
    BY <1>1 DEF PutAt
  <2>2. /\ t \in Seq(S) /\ DOMAIN t = DOMAIN s
        /\ \A i \in DOMAIN s : t[i] = IF i = n THEN x ELSE s[i]
    BY <2>1, Overwritten
  <2>3. DOMAIN s = DOMAIN s \cup {n}
    BY <1>1
  <2> HIDE DEF t
  <2>4. QED
    BY <1>1, <2>2, <2>3 DEF IsWritten
<1>2. CASE n \notin DOMAIN s
  <2>1. t = Append(s, x) /\ n = Len(s) + 1
    BY <1>2 DEF PutAt
  <2> HIDE DEF t
  <2>2. QED
    BY <1>2, <2>1 DEF IsWritten
<1>3. QED
  BY <1>1, <1>2

---------------------------------------------------------------------------
(* A write keeps what is sound.                                            *)

(* The first write and the others.                                         *)
LEMMA NextWrite ==
  ASSUME TypeInv, op.name # "vacuum", todo # <<>>
  PROVE  /\ Head(todo) \in Write /\ Head(todo) = todo[1] /\ 1 \in DOMAIN todo
         /\ Tail(todo) \in Seq(Write)
         /\ Range(todo) = {Head(todo)} \cup Range(Tail(todo))
         /\ Range(todo) \subseteq Write /\ Range(Tail(todo)) \subseteq Write
         /\ Len(todo) = 1 => Range(Tail(todo)) = {}
         /\ \A x \in Range(Tail(todo)) : \E i \in DOMAIN todo : i # 1 /\ todo[i] = x
<1>1. todo \in Seq(Write)
  BY DEF TypeInv
<1>2. /\ Tail(todo) \in Seq(Write) /\ Head(todo) = todo[1] /\ Head(todo) \in Write
      /\ Range(todo) = {Head(todo)} \cup Range(Tail(todo))
      /\ \A i \in DOMAIN Tail(todo) : i + 1 \in DOMAIN todo /\ Tail(todo)[i] = todo[i + 1]
      /\ Len(Tail(todo)) = Len(todo) - 1
  BY <1>1, WritesLeft
<1>3. 1 \in DOMAIN todo
  BY <1>1
<1>4. \A s \in Seq(Write) : /\ \A i \in DOMAIN s : s[i] \in Write /\ i \in Nat \ {0}
                            /\ Len(s) = 0 => DOMAIN s = {}
  OBVIOUS
<1>5. Range(Tail(todo)) \subseteq Write /\ (Len(todo) = 1 => Range(Tail(todo)) = {})
  BY <1>2, <1>4 DEF Range
<1>6. \A x \in Range(Tail(todo)) : \E i \in DOMAIN todo : i # 1 /\ todo[i] = x
  <2>1. ASSUME NEW i \in DOMAIN Tail(todo)
        PROVE  i + 1 \in DOMAIN todo /\ i + 1 # 1 /\ Tail(todo)[i] = todo[i + 1]
    BY <1>2, <1>4
  <2>2. QED
    BY <2>1 DEF Range
<1>7. QED
  BY <1>2, <1>3, <1>5, <1>6

LEMMA DataParts ==
  ASSUME TypeInv
  PROVE  /\ \A o \in DOMAIN data : data[o] \in Slots /\ o \in Nat \ {0}
         /\ DOMAIN data = 1 .. Len(data) /\ Len(data) \in Nat
         /\ \A n \in DOMAIN index : index[n] \in Entries /\ n \in Nat \ {0}
         /\ DOMAIN index = 1 .. Len(index) /\ Len(index) \in Nat
<1>1. data \in Seq(Slots) /\ index \in Seq(Entries)
  BY DEF TypeInv
<1>2. QED
  BY <1>1

(* The tombstone of a record.                                              *)
LEMMA Tombstoned ==
  ASSUME TypeInv, WriteKill(Head(todo)), Head(todo).at \in DOMAIN data
  PROVE  /\ data' \in Seq(Slots) /\ DOMAIN data' = DOMAIN data /\ Len(data') = Len(data)
         /\ \A o \in DOMAIN data : data'[o].size = data[o].size
         /\ \A o \in DOMAIN data : o # Head(todo).at => data'[o] = data[o]
         /\ data'[Head(todo).at].key = Absent
<1> DEFINE o == Head(todo).at
           s == [size |-> data[o].size, key |-> Absent, val |-> Absent]
<1>1. data \in Seq(Slots) /\ data[o] \in Slots
  BY DataParts DEF TypeInv
<1>2. data' = [data EXCEPT ![o] = s]
  BY DEF WriteKill
<1>3. s \in Slots /\ s.size = data[o].size /\ s.key = Absent
  <2>1. data[o].size \in Nat \ {0}
    BY <1>1, SlotParts
  <2>2. QED
    BY <2>1 DEF Slots, Tombstone
<1> HIDE DEF s
<1>4. data' \in Seq(Slots) /\ DOMAIN data' = DOMAIN data /\ Len(data') = Len(data)
  BY <1>1, <1>2, <1>3
<1>5. \A p \in DOMAIN data : data'[p] = IF p = o THEN s ELSE data[p]
  BY <1>1, <1>2
<1>6. QED
  BY <1>3, <1>4, <1>5

LEMMA KillKeepsSound ==
  ASSUME TypeInv, OrderInv, Running, todo # <<>>, WriteKill(Head(todo)),
         Sound(data, index, indexAt, freeIndex, Range(todo), op)
  PROVE  Sound(data', index', indexAt', freeIndex', Range(todo'), op)
<1> DEFINE w == Head(todo)
           W == Range(todo)
           T == Range(Tail(todo))
           V == Range(todo')
<1>1. /\ w \in Write /\ w = todo[1] /\ 1 \in DOMAIN todo /\ W = {w} \cup T
      /\ W \subseteq Write /\ T \subseteq Write /\ Tail(todo) \in Seq(Write)
      /\ w.do = "kill" /\ w.entry \in Nat
      /\ Len(todo) = 1 => T = {}
  BY NextWrite, WriteParts DEF Running, WriteKill
<1>2. UNCHANGED <<index, indexAt, freeIndex>>
  BY DEF WriteKill
<1>3. Freeing(W, w.at) /\ w.at \in DOMAIN data
  BY <1>1 DEF Freeing, Sound, FreeingInv
<1>4. /\ DOMAIN data' = DOMAIN data /\ Len(data') = Len(data)
      /\ \A o \in DOMAIN data : data'[o].size = data[o].size
      /\ \A o \in DOMAIN data : o # w.at => data'[o] = data[o]
      /\ data'[w.at].key = Absent
  BY <1>3, Tombstoned
<1>5. /\ \A o : Alive(data', o) <=> Alive(data, o) /\ o # w.at
      /\ \A o : Alive(data', o) => data'[o] = data[o]
  BY <1>3, <1>4 DEF Alive
<1>6. /\ T \subseteq V
      /\ \A x \in V : x \in T \/ (x.do = "killEntry" /\ x.at = w.entry /\ w.entry # 0)
      /\ w.entry # 0 => \E x \in V : x.do = "killEntry" /\ x.at = w.entry
  <2>1. CASE w.entry = 0
    BY <2>1 DEF WriteKill
  <2>2. CASE w.entry # 0
    <3>1. todo' = <<KillEntry(w.entry)>> \o Tail(todo)
      BY <2>2 DEF WriteKill
    <3>2. KillEntry(w.entry) \in Write
      BY <1>1, WritesMade
    <3>3. V = {KillEntry(w.entry)} \cup T
      BY <1>1, <3>1, <3>2, WritesPushed
    <3>4. KillEntry(w.entry).do = "killEntry" /\ KillEntry(w.entry).at = w.entry
      BY DEF KillEntry
    <3> HIDE DEF w, T, V
    <3>5. QED
      BY <2>2, <3>3, <3>4
  <2>3. QED
    BY <2>1, <2>2
<1>7. /\ \A n : Dying(V, n) => Dying(W, n)
      /\ \A n : Dying(W, n) /\ n # 0 => Dying(V, n)
  BY <1>1, <1>6 DEF Dying
<1>8. /\ \A o : Freeing(V, o) => Freeing(W, o)
      /\ \A o : Freeing(W, o) => o = w.at \/ Freeing(V, o)
  BY <1>1, <1>6 DEF Freeing
<1>9. /\ \A x \in V : x.do \in {"put", "log"} => x \in W
      /\ \A x \in W : x.do \in {"put", "log"} => x \in V
  BY <1>1, <1>6
<1>10. /\ \A o : Putting(V, o) <=> Putting(W, o)
       /\ \A k : PuttingFor(V, k) <=> PuttingFor(W, k)
       /\ \A f : Logging(V, f) <=> Logging(W, f)
  BY <1>9 DEF Putting, PuttingFor, Logging
<1> HIDE DEF w, W, T, V
<1>11. \A n \in DOMAIN index : n # 0 /\ index[n] \in Entries
  BY DataParts
<1>12. EntriesInv(index', indexAt', freeIndex', V)
  <2>1. EntriesInv(index, indexAt, freeIndex, W)
    BY DEF Sound, W
  <2>2. \A f \in Fields : indexAt[f] # 0 => ~Dying(V, indexAt[f])
    BY <1>7, <2>1 DEF EntriesInv
  <2>3. \A n \in DOMAIN index : Dying(V, n) <=> Dying(W, n)
    BY <1>7, <1>11
  <2>4. QED
    BY <1>2, <1>7, <2>1, <2>2, <2>3 DEF EntriesInv
<1>13. FilesInv(data', index', V, op)
  <2> SUFFICES ASSUME NEW n \in DOMAIN index, index[n].field = "pk"
               PROVE  (op.name = "delete" /\ Dying(V, n)) \/ Leads(data', index[n])
    BY <1>2 DEF FilesInv
  <2>1. (op.name = "delete" /\ Dying(W, n)) \/ Leads(data, index[n])
    BY DEF Sound, FilesInv, W
  <2>2. CASE op.name = "delete" /\ Dying(W, n)
    BY <2>2, <1>7, <1>11
  <2>3. CASE ~(op.name = "delete" /\ Dying(W, n))
    <3>1. PICK o \in DOMAIN data : /\ index[n].at = {o} /\ index[n].size = data[o].size
                                   /\ data[o].key = index[n].key
      BY <2>1, <2>3 DEF Leads
    <3>2. CASE o # w.at
      <4>1. data'[o] = data[o] /\ o \in DOMAIN data'
        BY <1>4, <3>2
      <4>2. QED
        BY <3>1, <4>1 DEF Leads
    <3>3. CASE o = w.at
      <4>1. Dying(W, n) \/ Logging(W, <<"pk", index[n].key>>)
        BY <1>3, <3>1, <3>3 DEF Sound, FreeingInv, W
      <4>2. op.name \in {"upsert", "delete"}
        <5>1. op.name # "none" /\ (op.name = "open" => todo[1].do = "killEntry")
          BY <1>1 DEF OrderInv, TypeInv
        <5>2. QED
          BY <1>1, <5>1 DEF Running
      <4>3. CASE op.name = "delete"
        <5>1. ~Logging(W, <<"pk", index[n].key>>)
          <6>1. \A x \in W : x.do = "log" => x.entry.field = "unique"
            BY <4>3 DEF OrderInv, W, Range
          <6>2. QED
            BY <6>1 DEF Logging, IsOf
        <5>2. QED
          BY <4>1, <4>3, <5>1, <2>3
      <4>4. CASE op.name = "upsert"
        <5>1. w.entry = 0 /\ T = {}
          BY <1>1, <4>4 DEF OrderInv
        <5>2. ~Dying(W, n) /\ ~Logging(W, <<"pk", index[n].key>>)
          BY <1>1, <1>11, <5>1 DEF Dying, Logging
        <5>3. QED
          BY <4>1, <5>2
      <4>5. QED
        BY <4>2, <4>3, <4>4
    <3>4. QED
      BY <3>2, <3>3
  <2>4. QED
    BY <2>2, <2>3
<1>14. \A k \in Keys : primary[k] # 0 => primary[k] # w.at
  BY <1>3 DEF Sound, PrimaryInv, W
<1>15. PrimaryInv(data', index', indexAt', V)
  <2> SUFFICES ASSUME NEW k \in Keys
               PROVE  LET n == indexAt[<<"pk", k>>]
                      IN  /\ ~Logging(V, <<"pk", k>>) =>
                               IF n = 0 THEN primary[k] = 0
                               ELSE primary[k] # 0 /\ index[n].at = {primary[k]}
                          /\ primary[k] # 0 =>
                               /\ primary[k] \in DOMAIN blocks
                               /\ ~Freeing(V, primary[k])
                               /\ \/ PuttingFor(V, k)
                                  \/ Alive(data', primary[k]) /\ data'[primary[k]].key = k
    BY <1>2 DEF PrimaryInv
  <2>1. PrimaryInv(data, index, indexAt, W)
    BY DEF Sound, W
  <2>2. ASSUME primary[k] # 0
        PROVE  /\ primary[k] \in DOMAIN blocks
               /\ ~Freeing(V, primary[k])
               /\ \/ PuttingFor(V, k)
                  \/ Alive(data', primary[k]) /\ data'[primary[k]].key = k
    BY <1>5, <1>8, <1>10, <1>14, <2>1, <2>2 DEF PrimaryInv
  <2>3. QED
    BY <1>10, <2>1, <2>2 DEF PrimaryInv
<1>16. PutInv(data', V, op)
  <2>1. PutInv(data, W, op)
    BY DEF Sound, W
  <2>2. QED
    BY <1>4, <1>5, <1>9, <2>1 DEF PutInv
<1>17. LogInv(V, op)
  BY <1>9 DEF Sound, LogInv, W
<1>18. SlotsInv(data', index', indexAt', V)
  <2>1. SlotsInv(data, index, indexAt, W)
    BY DEF Sound, W
  <2>2. QED
    BY <1>4, <1>5, <1>8, <1>10, <2>1 DEF SlotsInv
<1>19. FreeingInv(data', index', indexAt', V)
  <2>1. FreeingInv(data, index, indexAt, W)
    BY DEF Sound, W
  <2>2. QED
    BY <1>2, <1>4, <1>7, <1>8, <1>10, <1>11, <2>1 DEF FreeingInv
<1>20. UniqueFileInv(index', indexAt', V)
  BY <1>2, <1>10 DEF Sound, UniqueFileInv, W
<1>21. \A k \in Keys : /\ Alive(data', primary[k]) <=> Alive(data, primary[k])
                       /\ Alive(data, primary[k]) => data'[primary[k]] = data[primary[k]]
  BY <1>5, <1>14, DataParts DEF Alive
<1>22. ValuesInv(data', op)
  <2>1. \A k \in Keys : ValueIn(data', k, op) = ValueIn(data, k, op)
    BY <1>21 DEF ValueIn
  <2>2. QED
    BY <2>1 DEF Sound, ValuesInv
<1>23. TargetInv(data', V, op)
  BY <1>10, <1>21 DEF Sound, TargetInv, W, TypeInv, Operation
<1>24. QED
  BY <1>12, <1>13, <1>15, <1>16, <1>17, <1>18, <1>19, <1>20, <1>22, <1>23 DEF Sound, V

LEMMA KillEntryKeepsSound ==
  ASSUME TypeInv, Running, todo # <<>>, WriteKillEntry(Head(todo)),
         Sound(data, index, indexAt, freeIndex, Range(todo), op)
  PROVE  /\ Sound(data', index', indexAt', freeIndex', Range(todo'), op)
         /\ index' \in Seq(Entries) /\ DOMAIN index' = DOMAIN index
         /\ \A n \in DOMAIN index : index'[n] \in {index[n], DeadEntry}
<1> DEFINE w == Head(todo)
           W == Range(todo)
           V == Range(todo')
<1>1. /\ w \in Write /\ W = {w} \cup V
      /\ W \subseteq Write
      /\ w.do = "killEntry" /\ w.at \in Nat
      /\ UNCHANGED <<data, indexAt, freeIndex>>
  BY NextWrite, WriteParts DEF Running, WriteKillEntry
<1>2. /\ \A n \in DOMAIN index : index[n] \in Entries /\ n # 0
      /\ index \in Seq(Entries) /\ DeadEntry \in Entries
  BY DataParts DEF TypeInv, Entries
<1>3. /\ index' \in Seq(Entries) /\ DOMAIN index' = DOMAIN index
      /\ \A n \in DOMAIN index : index'[n] = IF n = w.at THEN DeadEntry ELSE index[n]
  <2>1. index' = [index EXCEPT ![w.at] = DeadEntry]
    BY DEF WriteKillEntry
  <2>2. w.at \in Nat /\ index \in Seq(Entries) /\ DeadEntry \in Entries
    BY <1>1, <1>2
  <2> HIDE DEF w
  <2>3. QED
    BY <2>1, <2>2, Overwritten
<1>4. DeadEntry.field = "dead" /\ \A f \in Fields : ~IsOf(DeadEntry, f)
  BY FieldsAre DEF DeadEntry, IsOf
<1>5. /\ \A n : Dying(V, n) => Dying(W, n)
      /\ \A n : Dying(W, n) => n = w.at \/ Dying(V, n)
      /\ Dying(W, w.at)
  BY <1>1 DEF Dying
<1>6. /\ \A o : Freeing(V, o) <=> Freeing(W, o)
      /\ \A o : Putting(V, o) <=> Putting(W, o)
      /\ \A k : PuttingFor(V, k) <=> PuttingFor(W, k)
      /\ \A f : Logging(V, f) <=> Logging(W, f)
  BY <1>1 DEF Freeing, Putting, PuttingFor, Logging
<1>7. \A x \in V : x \in W
  BY <1>1
<1> HIDE DEF w, W, V
<1>8. EntriesInv(index, indexAt, freeIndex, W)
  BY DEF Sound, W
<1>9. \A f \in Fields : indexAt[f] # 0 => indexAt[f] # w.at
  BY <1>5, <1>8 DEF EntriesInv
<1>10. EntriesInv(index', indexAt', freeIndex', V)
  <2>1. \A n \in DOMAIN index', f \in Fields :
           IsOf(index'[n], f) /\ ~Dying(V, n) => indexAt[f] = n
    BY <1>3, <1>4, <1>5, <1>8 DEF EntriesInv
  <2>2. \A f \in Fields : indexAt[f] # 0 =>
           indexAt[f] \in DOMAIN index' /\ IsOf(index'[indexAt[f]], f) /\ ~Dying(V, indexAt[f])
    BY <1>3, <1>5, <1>8, <1>9 DEF EntriesInv
  <2>3. \A n \in freeIndex : n \in DOMAIN index' /\ index'[n] = DeadEntry /\ ~Dying(V, n)
    BY <1>3, <1>5, <1>8 DEF EntriesInv
  <2>4. \A n : Dying(V, n) => n \in DOMAIN index' \cup {0}
    BY <1>3, <1>5, <1>8 DEF EntriesInv
  <2>5. QED
    BY <1>1, <2>1, <2>2, <2>3, <2>4 DEF EntriesInv
<1>11. \A n \in DOMAIN index : index'[n].field = "pk" => index'[n] = index[n] /\ n # w.at
  BY <1>3, <1>4
<1>12. FilesInv(data', index', V, op)
  <2>1. FilesInv(data, index, W, op)
    BY DEF Sound, W
  <2>2. QED
    BY <1>1, <1>3, <1>5, <1>11, <2>1 DEF FilesInv
<1>13. PrimaryInv(data', index', indexAt', V)
  <2>1. PrimaryInv(data, index, indexAt, W)
    BY DEF Sound, W
  <2>2. \A k \in Keys : indexAt[<<"pk", k>>] # 0 =>
          index'[indexAt[<<"pk", k>>]] = index[indexAt[<<"pk", k>>]]
    BY <1>3, <1>8, <1>9, FieldsAre DEF EntriesInv
  <2>3. QED
    BY <1>1, <1>6, <2>1, <2>2 DEF PrimaryInv
<1>14. PutInv(data', V, op) /\ LogInv(V, op)
  <2>1. PutInv(data, W, op) /\ LogInv(W, op)
    BY DEF Sound, W
  <2>2. PutInv(data', V, op)
    BY <1>1, <1>7, <2>1 DEF PutInv
  <2>3. LogInv(V, op)
    BY <1>7, <2>1 DEF LogInv
  <2>4. QED
    BY <2>2, <2>3
<1>15. SlotsInv(data', index', indexAt', V)
  <2>1. SlotsInv(data, index, indexAt, W)
    BY DEF Sound, W
  <2>2. QED
    BY <1>1, <1>6, <2>1 DEF SlotsInv
<1>16. FreeingInv(data', index', indexAt', V)
  <2>1. FreeingInv(data, index, indexAt, W)
    BY DEF Sound, W
  <2>2. QED
    BY <1>1, <1>3, <1>5, <1>6, <1>11, <2>1 DEF FreeingInv
<1>17. UniqueFileInv(index', indexAt', V)
  <2>1. UniqueFileInv(index, indexAt, W)
    BY DEF Sound, W
  <2>2. \A v \in Vals : indexAt[<<"unique", v>>] # 0 =>
          index'[indexAt[<<"unique", v>>]] = index[indexAt[<<"unique", v>>]]
    BY <1>3, <1>8, <1>9, FieldsAre DEF EntriesInv
  <2>3. QED
    BY <1>1, <1>6, <2>1, <2>2 DEF UniqueFileInv
<1>18. ValuesInv(data', op) /\ TargetInv(data', V, op)
  <2>1. ValuesInv(data, op) /\ TargetInv(data, W, op)
    BY DEF Sound, W
  <2>2. ValuesInv(data', op)
    BY <1>1, <2>1
  <2>3. TargetInv(data', V, op)
    BY <1>1, <1>6, <2>1 DEF TargetInv
  <2>4. QED
    BY <2>2, <2>3
<1>19. \A n \in DOMAIN index : index'[n] \in {index[n], DeadEntry}
  BY <1>3
<1>20. QED
  BY <1>3, <1>10, <1>12, <1>13, <1>14, <1>15, <1>16, <1>17, <1>18, <1>19 DEF Sound, V

LEMMA LogKeepsSound ==
  ASSUME TypeInv, OrderInv, Running, todo # <<>>, WriteLog(Head(todo)),
         Sound(data, index, indexAt, freeIndex, Range(todo), op)
  PROVE  /\ Sound(data', index', indexAt', freeIndex', Range(todo'), op)
         /\ index' \in Seq(Entries) /\ indexAt' \in [Fields -> Nat]
         /\ todo' \in Seq(Write)
<1> DEFINE w == Head(todo)
           e == w.entry
           f == <<e.field, e.key>>
           old == indexAt[f]
           W == Range(todo)
           T == Range(Tail(todo))
           V == Range(todo')
<1>1. /\ w \in Write /\ w = todo[1] /\ 1 \in DOMAIN todo /\ W = {w} \cup T
      /\ W \subseteq Write /\ T \subseteq Write /\ Tail(todo) \in Seq(Write)
      /\ w.do = "log" /\ e \in PkEntry \cup UniqueEntry /\ w \in W
  BY NextWrite, WriteParts DEF Running, WriteLog
<1>2. /\ f \in Fields /\ IsOf(e, f) /\ e \in Entries
      /\ e.field = "pk" => e \in PkEntry /\ e.key \in Keys
      /\ e.field = "unique" => e \in UniqueEntry /\ e.key \in Vals
      /\ e.field \in {"pk", "unique"}
  <2>1. e \in Entries /\ e.field \in {"pk", "unique"}
    BY <1>1 DEF Entries, PkEntry, UniqueEntry
  <2>2. /\ e.field = "pk" => e \in PkEntry /\ e.key \in Keys
        /\ e.field = "unique" => e \in UniqueEntry /\ e.key \in Vals
    BY <2>1, EntryParts
  <2>3. f \in Fields /\ f[1] = e.field /\ f[2] = e.key
    BY <2>1, <2>2, FieldsAre
  <2>4. QED
    BY <2>1, <2>2, <2>3 DEF IsOf
<1>3. \A g \in Fields, h \in Fields : \A x : IsOf(x, g) /\ IsOf(x, h) => g = h
  <2>1. \A g \in Fields, h \in Fields : g[1] = h[1] /\ g[2] = h[2] => g = h
    BY FieldsAre
  <2>2. QED
    BY <2>1 DEF IsOf
<1>4. PICK n \in IF freeIndex = {} THEN {Len(index) + 1} ELSE freeIndex :
         /\ index' = PutAt(index, n, e)
         /\ freeIndex' = freeIndex \ {n}
         /\ indexAt' = [indexAt EXCEPT ![f] = n]
         /\ todo' = IF old = 0 \/ old = n THEN Tail(todo) ELSE <<KillEntry(old)>> \o Tail(todo)
  BY DEF WriteLog
<1>5. UNCHANGED data
  BY DEF WriteLog
<1>6. /\ \A m \in DOMAIN index : index[m] \in Entries /\ m # 0
      /\ index \in Seq(Entries) /\ indexAt \in [Fields -> Nat]
      /\ DOMAIN index = 1 .. Len(index) /\ Len(index) \in Nat
  BY DataParts DEF TypeInv
<1>7. EntriesInv(index, indexAt, freeIndex, W)
  BY DEF Sound, W
<1>8. DeadEntry.field = "dead" /\ \A g \in Fields : ~IsOf(DeadEntry, g)
  BY FieldsAre DEF DeadEntry, IsOf
<1>9. /\ n \in 1 .. (Len(index) + 1) /\ n # 0
      /\ n \in DOMAIN index => index[n] = DeadEntry
      /\ ~Dying(W, n)
      /\ n \in freeIndex \/ n \notin DOMAIN index
  <2>1. CASE freeIndex = {}
    <3>1. n = Len(index) + 1
      BY <2>1
    <3>2. n \notin DOMAIN index \cup {0} /\ n \in 1 .. (Len(index) + 1)
      BY <1>6, <3>1
    <3>3. QED
      BY <1>7, <3>2 DEF EntriesInv
  <2>2. CASE freeIndex # {}
    <3>1. n \in DOMAIN index /\ index[n] = DeadEntry /\ ~Dying(W, n) /\ n \in freeIndex
      BY <1>7, <2>2 DEF EntriesInv
    <3>2. QED
      BY <1>6, <3>1
  <2>3. QED
    BY <2>1, <2>2
<1>10. \A g \in Fields : indexAt[g] # n
  BY <1>7, <1>8, <1>9 DEF EntriesInv
<1>11. /\ index' \in Seq(Entries) /\ DOMAIN index' = DOMAIN index \cup {n}
       /\ index'[n] = e
       /\ \A m \in DOMAIN index : m # n => index'[m] = index[m]
  <2> HIDE DEF e
  <2>1. e \in Entries /\ n \in 1 .. (Len(index) + 1) /\ index \in Seq(Entries)
    BY <1>2, <1>6, <1>9
  <2>2. index' = PutAt(index, n, e)
    BY <1>4
  <2>3. index' \in Seq(Entries) /\ IsWritten(index', index, n, e)
    BY <2>1, <2>2, WrittenAt
  <2>4. QED
    BY <2>3 DEF IsWritten
<1>12. /\ indexAt' \in [Fields -> Nat] /\ indexAt'[f] = n
       /\ \A g \in Fields : g # f => indexAt'[g] = indexAt[g]
       /\ old \in Nat /\ old # n
  BY <1>2, <1>4, <1>6, <1>9, <1>10
<1>13. /\ todo' \in Seq(Write) /\ T \subseteq V
       /\ \A x \in V : x \in T \/ (x.do = "killEntry" /\ x.at = old /\ old # 0)
       /\ old # 0 => \E x \in V : x.do = "killEntry" /\ x.at = old
  <2>1. CASE old = 0
    BY <1>1, <1>4, <2>1
  <2>2. CASE old # 0
    <3>1. todo' = <<KillEntry(old)>> \o Tail(todo)
      BY <1>4, <1>12, <2>2
    <3>2. KillEntry(old) \in Write
      BY <1>12, WritesMade
    <3>3. V = {KillEntry(old)} \cup T /\ todo' \in Seq(Write)
      BY <1>1, <3>1, <3>2, WritesPushed
    <3>4. KillEntry(old).do = "killEntry" /\ KillEntry(old).at = old
      BY DEF KillEntry
    <3> HIDE DEF w, T, V, old
    <3>5. QED
      BY <2>2, <3>3, <3>4
  <2>3. QED
    BY <2>1, <2>2
<1>14. /\ \A m : Dying(V, m) => Dying(W, m) \/ (m = old /\ old # 0)
       /\ \A m : Dying(W, m) => Dying(V, m)
       /\ old # 0 => Dying(V, old)
  BY <1>1, <1>13 DEF Dying
<1>15. /\ \A o : Freeing(V, o) <=> Freeing(W, o)
       /\ \A o : Putting(V, o) <=> Putting(W, o)
       /\ \A k : PuttingFor(V, k) <=> PuttingFor(W, k)
  BY <1>1, <1>13 DEF Freeing, Putting, PuttingFor
<1>16. /\ \A g : Logging(V, g) => Logging(W, g)
       /\ \A g \in Fields : Logging(W, g) => g = f \/ Logging(V, g)
  BY <1>1, <1>2, <1>3, <1>13 DEF Logging
<1>17. /\ \A x \in V : x.do \in {"put", "log"} => x \in W
       /\ e.field = "pk" => /\ e.key \in op.keys /\ primary[e.key] # 0
                            /\ e.at = {primary[e.key]} /\ e.size = blocks[primary[e.key]]
       /\ e.field = "unique" => e.at = unique[e.key]
  <2>1. LogInv(W, op)
    BY DEF Sound, W
  <2>2. QED
    BY <1>1, <1>2, <1>13, <2>1 DEF LogInv
<1>18. ~\E o : Putting(W, o)
  <2>1. op.name # "none" /\ op.name # "open" /\ op.name \in {"upsert", "delete"}
    BY <1>1 DEF OrderInv, TypeInv, Running
  <2>2. \A i \in DOMAIN todo : todo[i].do # "put"
    BY <1>1, <2>1 DEF OrderInv
  <2>3. QED
    BY <2>2 DEF Putting, W, Range
<1>19. \A k : ~PuttingFor(W, k)
  BY <1>18 DEF Putting, PuttingFor
<1>20. f[1] = e.field /\ f[2] = e.key
  OBVIOUS
<1> HIDE DEF w, W, T, V, e, f, old
<1>21. EntriesInv(index', indexAt', freeIndex', V)
  <2>1. ASSUME NEW m \in DOMAIN index', NEW g \in Fields, IsOf(index'[m], g), ~Dying(V, m)
        PROVE  indexAt'[g] = m
    <3>1. CASE m = n
      BY <1>2, <1>3, <1>11, <1>12, <2>1, <3>1
    <3>2. CASE m # n
      <4>1. m \in DOMAIN index /\ index'[m] = index[m] /\ ~Dying(W, m)
        BY <1>11, <1>14, <2>1, <3>2
      <4>2. indexAt[g] = m /\ m # 0
        BY <1>6, <1>7, <2>1, <4>1 DEF EntriesInv
      <4>3. g # f
        BY <1>14, <2>1, <4>2 DEF old
      <4>4. QED
        BY <1>12, <4>2, <4>3
    <3>3. QED
      BY <3>1, <3>2
  <2>2. ASSUME NEW g \in Fields, indexAt'[g] # 0
        PROVE  indexAt'[g] \in DOMAIN index' /\ IsOf(index'[indexAt'[g]], g) /\ ~Dying(V, indexAt'[g])
    <3>1. CASE g = f
      BY <1>2, <1>9, <1>11, <1>12, <1>14, <3>1
    <3>2. CASE g # f
      <4>1. /\ indexAt'[g] = indexAt[g] /\ indexAt[g] # 0 /\ indexAt[g] # n
            /\ indexAt[g] \in DOMAIN index /\ IsOf(index[indexAt[g]], g) /\ ~Dying(W, indexAt[g])
        BY <1>7, <1>10, <1>12, <2>2, <3>2 DEF EntriesInv
      <4>2. old # 0 => old # indexAt[g]
        BY <1>2, <1>3, <1>7, <3>2, <4>1 DEF EntriesInv, old
      <4>3. QED
        BY <1>11, <1>14, <4>1, <4>2
    <3>3. QED
      BY <3>1, <3>2
  <2>3. ASSUME NEW m \in freeIndex'
        PROVE  m \in DOMAIN index' /\ index'[m] = DeadEntry /\ ~Dying(V, m)
    <3>1. m \in freeIndex /\ m # n
      BY <1>4
    <3>2. m \in DOMAIN index /\ index[m] = DeadEntry /\ ~Dying(W, m)
      BY <1>7, <3>1 DEF EntriesInv
    <3>3. old # 0 => old # m
      BY <1>2, <1>7, <1>8, <3>2 DEF EntriesInv, old
    <3>4. QED
      BY <1>11, <1>14, <3>1, <3>2, <3>3
  <2>4. ASSUME NEW m, Dying(V, m)
        PROVE  m \in DOMAIN index' \cup {0}
    BY <1>2, <1>7, <1>11, <1>14, <2>4 DEF EntriesInv, old
  <2>5. QED
    BY <2>1, <2>2, <2>3, <2>4 DEF EntriesInv
<1>22. FilesInv(data', index', V, op)
  <2>1. FilesInv(data, index, W, op)
    BY DEF Sound, W
  <2>2. ASSUME e.field = "pk"
        PROVE  Leads(data, e)
    <3> DEFINE k == e.key
    <3>1. k \in Keys /\ primary[k] # 0 /\ e.at = {primary[k]} /\ e.size = blocks[primary[k]]
      BY <1>2, <1>17, <2>2
    <3>2. primary[k] \in DOMAIN blocks /\ Alive(data, primary[k]) /\ data[primary[k]].key = k
      BY <1>19, <3>1 DEF Sound, PrimaryInv, W
    <3>3. blocks[primary[k]] = data[primary[k]].size
      BY <1>18, <3>2 DEF Sound, SlotsInv, W
    <3>4. QED
      BY <3>1, <3>2, <3>3 DEF Leads, Alive
  <2>3. ASSUME NEW m \in DOMAIN index', index'[m].field = "pk"
        PROVE  (op.name = "delete" /\ Dying(V, m)) \/ Leads(data, index'[m])
    BY <1>11, <1>14, <2>1, <2>2, <2>3 DEF FilesInv
  <2>4. QED
    BY <1>5, <2>3 DEF FilesInv
<1>23. PrimaryInv(data', index', indexAt', V)
  <2>1. PrimaryInv(data, index, indexAt, W)
    BY DEF Sound, W
  <2>2. ASSUME NEW k \in Keys, ~Logging(V, <<"pk", k>>)
        PROVE  IF indexAt'[<<"pk", k>>] = 0 THEN primary[k] = 0
               ELSE primary[k] # 0 /\ index'[indexAt'[<<"pk", k>>]].at = {primary[k]}
    <3>1. <<"pk", k>> \in Fields
      BY FieldsAre
    <3>2. CASE <<"pk", k>> = f
      <4>1. e.field = "pk" /\ e.key = k
        BY <1>20, <3>2
      <4>2. QED
        BY <1>9, <1>11, <1>12, <1>17, <3>2, <4>1
    <3>3. CASE <<"pk", k>> # f
      <4>1. ~Logging(W, <<"pk", k>>) /\ indexAt'[<<"pk", k>>] = indexAt[<<"pk", k>>]
        BY <1>12, <1>16, <2>2, <3>1, <3>3
      <4>2. indexAt[<<"pk", k>>] # 0 => index'[indexAt[<<"pk", k>>]] = index[indexAt[<<"pk", k>>]]
        BY <1>7, <1>10, <1>11, <3>1 DEF EntriesInv
      <4>3. QED
        BY <2>1, <4>1, <4>2 DEF PrimaryInv
    <3>4. QED
      BY <3>2, <3>3
  <2>3. QED
    BY <1>5, <1>15, <2>1, <2>2 DEF PrimaryInv
<1>24. PutInv(data', V, op) /\ LogInv(V, op)
  <2>1. PutInv(data, W, op) /\ LogInv(W, op)
    BY DEF Sound, W
  <2>2. PutInv(data', V, op)
    BY <1>5, <1>17, <2>1 DEF PutInv
  <2>3. LogInv(V, op)
    BY <1>17, <2>1 DEF LogInv
  <2>4. QED
    BY <2>2, <2>3
<1>25. SlotsInv(data', index', indexAt', V)
  <2>1. SlotsInv(data, index, indexAt, W)
    BY DEF Sound, W
  <2>2. QED
    BY <1>5, <1>15, <2>1 DEF SlotsInv
<1>26. FreeingInv(data', index', indexAt', V)
  <2>1. FreeingInv(data, index, indexAt, W) /\ PrimaryInv(data, index, indexAt, W)
    BY DEF Sound, W
  <2>2. ASSUME NEW o, Freeing(W, o), NEW m \in DOMAIN index', index'[m].field = "pk",
               o \in index'[m].at
        PROVE  \/ Dying(V, m)
               \/ Logging(V, <<"pk", index'[m].key>>) /\ m = indexAt'[<<"pk", index'[m].key>>]
    <3>1. m # n
      <4>1. SUFFICES ASSUME m = n
                     PROVE  FALSE
        OBVIOUS
      <4>2. o = primary[e.key] /\ e.key \in Keys /\ primary[e.key] # 0
        BY <1>2, <1>11, <1>17, <2>2, <4>1
      <4>3. QED
        BY <2>1, <2>2, <4>2 DEF PrimaryInv
    <3>2. m \in DOMAIN index /\ index'[m] = index[m]
      BY <1>11, <3>1
    <3> DEFINE g == <<"pk", index[m].key>>
    <3>3. CASE Dying(W, m)
      BY <1>14, <3>3
    <3>4. CASE Logging(W, g) /\ m = indexAt[g]
      <4>1. g \in Fields
        BY <1>6, <2>2, <3>2, EntryParts, FieldsAre
      <4>2. CASE g = f
        BY <1>6, <1>14, <3>2, <3>4, <4>2 DEF old
      <4>3. CASE g # f
        BY <1>12, <1>16, <3>2, <3>4, <4>1, <4>3
      <4>4. QED
        BY <4>2, <4>3
    <3>5. QED
      BY <2>1, <2>2, <3>2, <3>3, <3>4 DEF FreeingInv
  <2>3. QED
    BY <1>5, <1>15, <2>1, <2>2 DEF FreeingInv
<1>27. UniqueFileInv(index', indexAt', V)
  <2>1. UniqueFileInv(index, indexAt, W)
    BY DEF Sound, W
  <2>2. ASSUME NEW v \in Vals, ~Logging(V, <<"unique", v>>)
        PROVE  unique[v] = IF indexAt'[<<"unique", v>>] = 0 THEN {}
                           ELSE index'[indexAt'[<<"unique", v>>]].at
    <3>1. <<"unique", v>> \in Fields
      BY FieldsAre
    <3>2. CASE <<"unique", v>> = f
      <4>1. e.field = "unique" /\ e.key = v
        BY <1>20, <3>2
      <4>2. QED
        BY <1>9, <1>11, <1>12, <1>17, <3>2, <4>1
    <3>3. CASE <<"unique", v>> # f
      <4>1. ~Logging(W, <<"unique", v>>) /\ indexAt'[<<"unique", v>>] = indexAt[<<"unique", v>>]
        BY <1>12, <1>16, <2>2, <3>1, <3>3
      <4>2. indexAt[<<"unique", v>>] # 0 =>
              index'[indexAt[<<"unique", v>>]] = index[indexAt[<<"unique", v>>]]
        BY <1>7, <1>10, <1>11, <3>1 DEF EntriesInv
      <4>3. QED
        BY <2>1, <4>1, <4>2 DEF UniqueFileInv
    <3>4. QED
      BY <3>2, <3>3
  <2>3. QED
    BY <2>2 DEF UniqueFileInv
<1>28. ValuesInv(data', op) /\ TargetInv(data', V, op)
  <2>1. ValuesInv(data, op) /\ TargetInv(data, W, op)
    BY DEF Sound, W
  <2>2. ValuesInv(data', op)
    BY <1>5, <2>1
  <2>3. TargetInv(data', V, op)
    BY <1>5, <1>15, <2>1 DEF TargetInv
  <2>4. QED
    BY <2>2, <2>3
<1>29. QED
  BY <1>11, <1>12, <1>13, <1>21, <1>22, <1>23, <1>24, <1>25, <1>26, <1>27, <1>28 DEF Sound, V

LEMMA PutKeepsSound ==
  ASSUME TypeInv, OrderInv, Running, todo # <<>>, WritePut(Head(todo)),
         Sound(data, index, indexAt, freeIndex, Range(todo), op)
  PROVE  /\ Sound(data', index', indexAt', freeIndex', Range(todo'), op)
         /\ data' \in Seq(Slots)
         /\ \A o \in DOMAIN data : o \in DOMAIN data' /\ data'[o].size = data[o].size
<1> DEFINE w == Head(todo)
           s == w.slot
           W == Range(todo)
           V == Range(todo')
<1>1. /\ w \in Write /\ w = todo[1] /\ 1 \in DOMAIN todo /\ W = {w} \cup V
      /\ w \in W /\ w.do = "put" /\ w.at \in Nat /\ s \in LiveSlot
      /\ UNCHANGED <<index, indexAt, freeIndex>>
      /\ data' = PutAt(data, w.at, s)
  BY NextWrite, WriteParts DEF Running, WritePut
<1>2. op.name = "upsert" /\ ~\E o : Putting(V, o)
  <2>1. op.name = "upsert"
    BY <1>1 DEF OrderInv, TypeInv, Running
  <2>2. \A x \in V : \E i \in DOMAIN todo : i # 1 /\ todo[i] = x
    BY NextWrite DEF Running, WritePut
  <2>3. \A x \in V : x.do # "put"
    BY <2>1, <2>2 DEF OrderInv
  <2>4. QED
    BY <2>1, <2>3 DEF Putting
<1>3. /\ s \in Slots /\ s.key \in Keys /\ s.val \in Vals /\ s.key # Absent
      /\ s.size \in Nat \ {0}
  BY <1>1, AbsentAssumption DEF Slots, LiveSlot
<1>4. /\ s.key \in op.keys /\ w.at = primary[s.key] /\ s.val = op.val
      /\ w.at \in 1 .. (Len(data) + 1) /\ ~Alive(data, w.at)
      /\ w.at \in DOMAIN data => data[w.at].size = s.size
      /\ w.at \in DOMAIN blocks /\ blocks[w.at] = s.size
  BY <1>1 DEF Sound, PutInv, W
<1>5. w.at # 0
  BY <1>4
<1>6. /\ data' \in Seq(Slots) /\ DOMAIN data' = DOMAIN data \cup {w.at}
      /\ data'[w.at] = s
      /\ \A o \in DOMAIN data : o # w.at => data'[o] = data[o]
  <2> HIDE DEF w, s
  <2>1. data \in Seq(Slots)
    BY DEF TypeInv
  <2>2. data' \in Seq(Slots) /\ IsWritten(data', data, w.at, s)
    BY <1>1, <1>3, <1>4, <2>1, WrittenAt
  <2>3. QED
    BY <2>2 DEF IsWritten
<1>7. /\ \A o : Alive(data, o) => Alive(data', o) /\ o # w.at /\ data'[o] = data[o]
      /\ \A o : Alive(data', o) => o = w.at \/ Alive(data, o)
      /\ Alive(data', w.at)
  BY <1>3, <1>4, <1>6 DEF Alive
<1>8. \A o \in DOMAIN data : o \in DOMAIN data' /\ data'[o].size = data[o].size
  BY <1>4, <1>6
<1>9. /\ \A n : Dying(V, n) <=> Dying(W, n)
      /\ \A o : Freeing(V, o) <=> Freeing(W, o)
      /\ \A f : Logging(V, f) <=> Logging(W, f)
      /\ \A k : PuttingFor(V, k) => PuttingFor(W, k)
      /\ \A k : PuttingFor(W, k) => k = s.key
      /\ \A o : Putting(W, o) => o = w.at
      /\ Putting(W, w.at)
  BY <1>1, <1>2 DEF Dying, Freeing, Logging, Putting, PuttingFor
<1>10. \A x \in V : x \in W /\ x.do # "put"
  BY <1>1, <1>2 DEF Putting
<1> HIDE DEF w, W, V, s
<1>11. EntriesInv(index', indexAt', freeIndex', V)
  BY <1>1, <1>9 DEF Sound, EntriesInv, W
<1>12. FilesInv(data', index', V, op)
  <2>1. \A e \in PkEntry : Leads(data, e) => Leads(data', e)
    <3>1. SUFFICES ASSUME NEW e \in PkEntry, Leads(data, e)
                   PROVE  Leads(data', e)
      OBVIOUS
    <3>2. PICK o \in DOMAIN data : e.at = {o} /\ e.size = data[o].size /\ data[o].key = e.key
      BY <3>1 DEF Leads
    <3>3. QED
      <4>1. e.key # Absent
        BY AbsentAssumption DEF PkEntry
      <4>2. Alive(data, o)
        BY <3>2, <4>1 DEF Alive
      <4>3. o \in DOMAIN data' /\ data'[o] = data[o]
        BY <1>7, <1>8, <4>2
      <4>4. QED
        BY <3>2, <4>3 DEF Leads
  <2>2. \A n \in DOMAIN index : index[n].field = "pk" => index[n] \in PkEntry
    BY DataParts, EntryParts
  <2>3. QED
    BY <1>1, <1>9, <2>1, <2>2 DEF Sound, FilesInv, W
<1>13. \A k \in Keys : primary[k] # 0 =>
          Alive(data', primary[k]) /\ data'[primary[k]].key = k
  <2>1. SUFFICES ASSUME NEW k \in Keys, primary[k] # 0
                 PROVE  Alive(data', primary[k]) /\ data'[primary[k]].key = k
    OBVIOUS
  <2>2. CASE PuttingFor(W, k)
    BY <1>4, <1>6, <1>7, <1>9, <2>2
  <2>3. CASE ~PuttingFor(W, k)
    <3>1. Alive(data, primary[k]) /\ data[primary[k]].key = k
      BY <2>1, <2>3 DEF Sound, PrimaryInv, W
    <3>2. QED
      BY <1>7, <3>1
  <2>4. QED
    BY <2>2, <2>3
<1>14. PrimaryInv(data', index', indexAt', V)
  <2>1. PrimaryInv(data, index, indexAt, W)
    BY DEF Sound, W
  <2>2. QED
    BY <1>1, <1>9, <1>13, <2>1 DEF PrimaryInv
<1>15. PutInv(data', V, op) /\ LogInv(V, op)
  <2>1. PutInv(data', V, op)
    BY <1>10 DEF PutInv
  <2>2. LogInv(V, op)
    BY <1>10 DEF Sound, LogInv, W
  <2>3. QED
    BY <2>1, <2>2
<1>16. SlotsInv(data', index', indexAt', V)
  <2>1. SlotsInv(data, index, indexAt, W)
    BY DEF Sound, W
  <2>2. \A o \in DOMAIN blocks : o \in DOMAIN data' /\ blocks[o] = data'[o].size
    BY <1>4, <1>6, <1>8, <1>9, <2>1 DEF SlotsInv
  <2>3. \A f \in free : /\ f.at \in DOMAIN data' /\ f.size = data'[f.at].size
                        /\ ~Alive(data', f.at) \/ Freeing(V, f.at)
                        /\ ~Putting(V, f.at)
    BY <1>2, <1>7, <1>8, <1>9, <2>1 DEF SlotsInv
  <2>4. QED
    BY <2>2, <2>3 DEF SlotsInv
<1>17. FreeingInv(data', index', indexAt', V)
  BY <1>1, <1>8, <1>9 DEF Sound, FreeingInv, W
<1>18. UniqueFileInv(index', indexAt', V)
  BY <1>1, <1>9 DEF Sound, UniqueFileInv, W
<1>19. ValuesInv(data', op)
  <2>1. ASSUME NEW k \in Keys
        PROVE  ValueIn(data', k, op) = ValueIn(data, k, op)
    <3>1. CASE k \in op.keys
      BY <1>2, <3>1 DEF ValueIn
    <3>2. CASE k \notin op.keys
      <4>1. ~PuttingFor(W, k)
        BY <1>4, <1>9, <3>2
      <4>2. primary[k] = 0 \/ (Alive(data, primary[k]))
        BY <4>1 DEF Sound, PrimaryInv, W
      <4>3. ~Alive(data', 0) /\ ~Alive(data, 0)
        BY <1>5, <1>7, DataParts DEF Alive
      <4>4. Alive(data', primary[k]) <=> Alive(data, primary[k])
        BY <1>7, <4>2, <4>3
      <4>5. Alive(data, primary[k]) => data'[primary[k]] = data[primary[k]]
        BY <1>7
      <4>6. QED
        BY <3>2, <4>4, <4>5 DEF ValueIn
    <3>3. QED
      BY <3>1, <3>2
  <2>2. QED
    BY <2>1 DEF Sound, ValuesInv
<1>20. TargetInv(data', V, op)
  <2>1. SUFFICES ASSUME NEW k \in op.keys
                 PROVE  /\ primary[k] # 0
                        /\ Alive(data', primary[k]) /\ data'[primary[k]].val = op.val
    BY DEF TargetInv
  <2>2. /\ primary[k] # 0
        /\ PuttingFor(W, k) \/ (Alive(data, primary[k]) /\ data[primary[k]].val = op.val)
    BY <1>2 DEF Sound, TargetInv, W
  <2>3. CASE PuttingFor(W, k)
    BY <1>4, <1>6, <1>7, <1>9, <2>2, <2>3
  <2>4. CASE Alive(data, primary[k]) /\ data[primary[k]].val = op.val
    BY <1>7, <2>2, <2>4
  <2>5. QED
    BY <2>2, <2>3, <2>4
<1>21. QED
  BY <1>6, <1>8, <1>11, <1>12, <1>14, <1>15, <1>16, <1>17, <1>18, <1>19, <1>20 DEF Sound, V

---------------------------------------------------------------------------
(* The writes of an operation keep the invariant.                          *)

LEMMA SoundSettles ==
  ASSUME TypeInv, NEW d, NEW ix, NEW at, NEW fr, Sound(d, ix, at, fr, {}, op)
  PROVE  Sound(d, ix, at, fr, {}, None)
<1>1. None.name = "none"
  BY DEF None
<1>2. /\ ~\E n : Dying({}, n)
      /\ ~\E k : PuttingFor({}, k)
  BY DEF Dying, PuttingFor
<1>3. FilesInv(d, ix, {}, None)
  BY <1>2 DEF Sound, FilesInv
<1>4. PutInv(d, {}, None) /\ LogInv({}, None)
  BY DEF PutInv, LogInv
<1>5. \A k \in Keys : ValueIn(d, k, None) = ValueIn(d, k, op)
  BY <1>1, <1>2 DEF Sound, TargetInv, ValueIn
<1>6. ValuesInv(d, None)
  BY <1>5 DEF Sound, ValuesInv
<1>7. TargetInv(d, {}, None)
  BY <1>1 DEF TargetInv
<1>8. QED
  BY <1>3, <1>4, <1>6, <1>7 DEF Sound

(* What is left of the writes.                                             *)
LEMMA TodoNext ==
  ASSUME TypeInv, op.name # "vacuum", WriteNext
  PROVE  /\ todo' \in Seq(Write)
         /\ Head(todo).do # "kill" /\ Head(todo).do # "log" =>
              todo' = Tail(todo)
         /\ \A i \in DOMAIN todo' :
              \/ todo'[i].do = "killEntry"
              \/ \E j \in DOMAIN todo : /\ j # 1 /\ todo'[i] = todo[j]
                                        /\ j = Len(todo) => i = Len(todo')
<1>1. todo # <<>> /\ Head(todo) \in Write /\ todo \in Seq(Write)
  BY NextWrite DEF WriteNext, TypeInv
<1>2. /\ Tail(todo) \in Seq(Write) /\ Len(Tail(todo)) = Len(todo) - 1
      /\ \A i \in DOMAIN Tail(todo) : i + 1 \in DOMAIN todo /\ Tail(todo)[i] = todo[i + 1]
      /\ \A i \in DOMAIN Tail(todo) : i \in Nat \ {0}
      /\ Len(todo) \in Nat /\ DOMAIN todo = 1 .. Len(todo)
  <2>1. /\ Tail(todo) \in Seq(Write) /\ Len(Tail(todo)) = Len(todo) - 1
        /\ \A i \in DOMAIN Tail(todo) : i + 1 \in DOMAIN todo /\ Tail(todo)[i] = todo[i + 1]
    BY <1>1, WritesLeft
  <2>2. \A s \in Seq(Write) : /\ \A i \in DOMAIN s : i \in Nat \ {0}
                              /\ Len(s) \in Nat /\ DOMAIN s = 1 .. Len(s)
    OBVIOUS
  <2>3. QED
    BY <1>1, <2>1, <2>2
<1>3. \/ todo' = Tail(todo)
      \/ \E m \in Nat : todo' = <<KillEntry(m)>> \o Tail(todo)
  <2>1. CASE WriteKill(Head(todo))
    BY <1>1, <2>1, WriteParts DEF WriteKill
  <2>2. CASE WriteLog(Head(todo))
    <3> DEFINE e == Head(todo).entry
               f == <<e.field, e.key>>
    <3>1. e \in PkEntry \cup UniqueEntry
      BY <1>1, <2>2, WriteParts DEF WriteLog
    <3>2. f \in Fields
      BY <3>1, FieldsAre DEF PkEntry, UniqueEntry
    <3>3. indexAt[f] \in Nat
      BY <3>2 DEF TypeInv
    <3>4. todo' = Tail(todo) \/ todo' = <<KillEntry(indexAt[f])>> \o Tail(todo)
      BY <2>2 DEF WriteLog
    <3>5. QED
      BY <3>3, <3>4
  <2>3. QED
    BY <2>1, <2>2 DEF WriteNext, WritePut, WriteKillEntry, WriteAll
<1>4. Head(todo).do # "kill" /\ Head(todo).do # "log" => todo' = Tail(todo)
  BY DEF WriteNext, WritePut, WriteKill, WriteLog, WriteKillEntry, WriteAll
<1>5. CASE todo' = Tail(todo)
  <2>1. \A i \in DOMAIN todo' : /\ i + 1 \in DOMAIN todo /\ i + 1 # 1 /\ todo'[i] = todo[i + 1]
                                /\ i + 1 = Len(todo) => i = Len(todo')
    BY <1>2, <1>5
  <2>2. QED
    BY <1>2, <1>4, <1>5, <2>1
<1>6. CASE \E m \in Nat : todo' = <<KillEntry(m)>> \o Tail(todo)
  <2>1. PICK m \in Nat : todo' = <<KillEntry(m)>> \o Tail(todo)
    BY <1>6
  <2>2. KillEntry(m) \in Write /\ KillEntry(m).do = "killEntry"
    BY WritesMade DEF KillEntry
  <2>3. /\ todo' \in Seq(Write) /\ Len(todo') = Len(Tail(todo)) + 1
        /\ \A i \in DOMAIN todo' :
             \/ i = 1 /\ todo'[i] = KillEntry(m)
             \/ i - 1 \in DOMAIN Tail(todo) /\ todo'[i] = Tail(todo)[i - 1]
    BY <1>2, <2>1, <2>2, WritesPushed
  <2>4. ASSUME NEW i \in DOMAIN todo', todo'[i].do # "killEntry"
        PROVE  /\ i \in DOMAIN todo /\ i # 1 /\ todo'[i] = todo[i]
               /\ i = Len(todo) => i = Len(todo')
    <3>1. i - 1 \in DOMAIN Tail(todo) /\ todo'[i] = Tail(todo)[i - 1]
      BY <2>2, <2>3, <2>4
    <3>2. i \in Int
      BY <2>3
    <3>3. (i - 1) + 1 = i /\ i # 1
      BY <1>2, <3>1, <3>2
    <3>4. QED
      BY <1>2, <2>3, <3>1, <3>3
  <2>5. QED
    BY <1>4, <2>3, <2>4
<1>7. QED
  BY <1>3, <1>5, <1>6

LEMMA OrderKept ==
  ASSUME TypeInv, OrderInv, op.name # "vacuum", WriteNext
  PROVE  OrderInv'
<1>1. \A i \in DOMAIN todo' :
        \/ todo'[i].do = "killEntry"
        \/ \E j \in DOMAIN todo : /\ j # 1 /\ todo'[i] = todo[j]
                                  /\ j = Len(todo) => i = Len(todo')
  BY TodoNext
<1>2. op'.name # "none" => op' = op
  BY DEF WriteNext, None
<1>3. CASE op'.name = "none"
  BY <1>3 DEF OrderInv
<1>4. CASE op' = op
  <2>1. op.name = "open" => \A i \in DOMAIN todo' : todo'[i].do = "killEntry"
    BY <1>1 DEF OrderInv
  <2>2. op.name = "delete" => \A i \in DOMAIN todo' :
          /\ todo'[i].do \in {"kill", "killEntry", "log"}
          /\ todo'[i].do = "log" => todo'[i].entry.field = "unique"
    BY <1>1 DEF OrderInv
  <2>3. op.name = "upsert" => \A i \in DOMAIN todo' :
          /\ todo'[i].do = "put" => i = 1
          /\ todo'[i].do = "kill" => i = Len(todo') /\ todo'[i].entry = 0
    BY <1>1 DEF OrderInv
  <2>4. QED
    BY <1>4, <2>1, <2>2, <2>3 DEF OrderInv
<1>5. QED
  BY <1>2, <1>3, <1>4

LEMMA WriteKeepsInv ==
  ASSUME Inv, Running, WriteNext
  PROVE  /\ Inv' /\ Running'
         /\ \A o \in DOMAIN data : o \in DOMAIN data' /\ data'[o].size = data[o].size
<1> DEFINE w == Head(todo)
<1>1. /\ TypeInv /\ OrderInv /\ OpenInv /\ op.name # "vacuum" /\ todo # <<>>
      /\ Sound(data, index, indexAt, freeIndex, Range(todo), op)
  BY DEF Inv, Running, WriteNext
<1>2. w \in Write /\ w.do \in {"put", "kill", "log", "killEntry"} /\ w \in Range(todo)
  BY <1>1, NextWrite, WriteParts
<1>3. WritePut(w) \/ WriteKill(w) \/ WriteLog(w) \/ WriteKillEntry(w)
  BY <1>2 DEF WriteNext, WriteAll
<1>4. /\ Sound(data', index', indexAt', freeIndex', Range(todo'), op)
      /\ data' \in Seq(Slots) /\ index' \in Seq(Entries) /\ indexAt' \in [Fields -> Nat]
      /\ \A o \in DOMAIN data : o \in DOMAIN data' /\ data'[o].size = data[o].size
  <2>1. data \in Seq(Slots) /\ index \in Seq(Entries) /\ indexAt \in [Fields -> Nat]
    BY <1>1 DEF TypeInv
  <2>2. CASE WritePut(w)
    BY <1>1, <2>1, <2>2, PutKeepsSound DEF WritePut
  <2>3. CASE WriteKill(w)
    <3>1. Freeing(Range(todo), w.at)
      BY <1>2, <2>3 DEF Freeing, WriteKill
    <3>2. w.at \in DOMAIN data
      BY <1>1, <3>1 DEF Sound, FreeingInv
    <3>3. data' \in Seq(Slots) /\ DOMAIN data' = DOMAIN data
          /\ \A o \in DOMAIN data : data'[o].size = data[o].size
      BY <1>1, <2>3, <3>2, Tombstoned
    <3>4. Sound(data', index', indexAt', freeIndex', Range(todo'), op)
      BY <1>1, <2>3, KillKeepsSound
    <3>5. QED
      BY <2>1, <2>3, <3>3, <3>4 DEF WriteKill
  <2>4. CASE WriteLog(w)
    BY <1>1, <2>1, <2>4, LogKeepsSound DEF WriteLog
  <2>5. CASE WriteKillEntry(w)
    BY <1>1, <2>1, <2>5, KillEntryKeepsSound DEF WriteKillEntry
  <2>6. QED
    BY <1>3, <2>2, <2>3, <2>4, <2>5
<1>5. /\ op' = IF todo' = <<>> THEN None ELSE op
      /\ before' = IF todo' = <<>> THEN NoRecords ELSE before
      /\ UNCHANGED <<primary, unique, blocks, free, scanned, torn, ops, stops>>
  BY DEF WriteNext
<1>6. None.name = "none" /\ None \in Operation /\ NoRecords \in [Keys -> Vals \cup {Absent}]
  BY DEF None, Operation, NoRecords
<1>7. todo' \in Seq(Write)
  BY <1>1, TodoNext
<1>8. Running' /\ op' \in Operation /\ op'.name \notin {"vacuum", "down"}
  <2>1. op \in Operation
    BY <1>1 DEF TypeInv
  <2>2. QED
    BY <1>5, <1>6, <2>1 DEF Running
<1>9. TypeInv'
  <2>1. /\ primary' \in [Keys -> Nat] /\ unique' \in [Vals -> SUBSET Nat]
        /\ blocks' \in [DOMAIN blocks' -> Nat \ {0}]
        /\ free' \subseteq [at : Nat, size : Nat \ {0}]
        /\ scanned' \in BOOLEAN /\ torn' \in {"whole", "torn", "compacted"}
        /\ ops' \in 0 .. MaxOps /\ stops' \in 0 .. MaxStops
    BY <1>1, <1>5 DEF TypeInv
  <2>2. before' \in [Keys -> Vals \cup {Absent}]
    BY <1>1, <1>5, <1>6 DEF TypeInv
  <2>3. op'.name \in {"none", "down"} => todo' = <<>>
    <3>1. op.name # "none" /\ op.name # "down"
      BY <1>1 DEF TypeInv, Running
    <3>2. QED
      BY <1>5, <3>1
  <2>4. QED
    BY <1>4, <1>7, <1>8, <2>1, <2>2, <2>3 DEF TypeInv
<1>10. OrderInv'
  BY <1>1, OrderKept
<1>11. OpenInv'
  <2>1. SUFFICES ASSUME op'.name = "open"
                 PROVE  \A n \in DOMAIN index', f \in Fields :
                          IsOf(index'[n], f) => n <= indexAt'[f]
    BY DEF OpenInv
  <2>2. op.name = "open"
    BY <1>5, <1>6, <2>1
  <2>3. todo[1].do = "killEntry" /\ w = todo[1]
    BY <1>1, <2>2, NextWrite DEF OrderInv
  <2>4. WriteKillEntry(w)
    BY <1>3, <2>3 DEF WritePut, WriteKill, WriteLog
  <2>5. DOMAIN index' = DOMAIN index /\ \A n \in DOMAIN index : index'[n] \in {index[n], DeadEntry}
    BY <1>1, <2>4, KillEntryKeepsSound
  <2>6. \A f \in Fields : ~IsOf(DeadEntry, f)
    BY FieldsAre DEF DeadEntry, IsOf
  <2>7. \A n \in DOMAIN index, f \in Fields : IsOf(index[n], f) => n <= indexAt[f]
    BY <1>1, <2>2 DEF OpenInv
  <2>8. indexAt' = indexAt
    BY <2>4 DEF WriteKillEntry
  <2>9. QED
    BY <2>5, <2>6, <2>7, <2>8
<1>12. Sound(data', index', indexAt', freeIndex', Range(todo'), op')
  <2>1. CASE todo' # <<>>
    BY <1>4, <1>5, <2>1
  <2>2. CASE todo' = <<>>
    <3>1. Range(todo') = {}
      BY <2>2 DEF Range
    <3>2. QED
      BY <1>1, <1>4, <1>5, <2>2, <3>1, SoundSettles
  <2>3. QED
    BY <2>1, <2>2
<1>13. Sound(data, index, indexAt, freeIndex, Range(todo), op)'
  BY <1>5, <1>12 DEF Sound, EntriesInv, FilesInv, PrimaryInv, PutInv, LogInv, SlotsInv,
     FreeingInv, UniqueFileInv, ValuesInv, ValueIn, TargetInv
<1>14. QED
  BY <1>4, <1>8, <1>9, <1>10, <1>11, <1>13 DEF Inv

LEMMA VacuumWritesKeepInv ==
  ASSUME Inv, op.name = "vacuum", WriteNext
  PROVE  Inv'
<1> DEFINE w == Head(todo)
<1>1. PICK d, ix : Rewriting(d, ix)
  BY DEF Inv
<1>2. /\ TypeInv /\ todo # <<>> /\ op \in Operation
      /\ d \in Seq(Slots) /\ ix \in Seq(Entries)
      /\ Sound(d, ix, indexAt, freeIndex, {}, op) /\ Saved(d)
  BY <1>1 DEF Inv, TypeInv, WriteNext, Rewriting
<1>3. /\ op' = IF todo' = <<>> THEN None ELSE op
      /\ before' = IF todo' = <<>> THEN NoRecords ELSE before
      /\ UNCHANGED <<primary, unique, blocks, free, scanned, torn, ops, stops>>
  BY DEF WriteNext
<1>4. None.name = "none" /\ None \in Operation /\ NoRecords \in [Keys -> Vals \cup {Absent}]
  BY DEF None, Operation, NoRecords
<1>5. <<>> \in Seq(Slots) /\ <<>> \in Seq(Entries)
  OBVIOUS
<1>6. /\ \A f : Cut(f).do = "cut" /\ Cut(f).file = f
      /\ \A f, c : Fill(f, c).do = "fill" /\ Fill(f, c).file = f /\ Fill(f, c).content = c
  BY DEF Cut, Fill
<1>7. w.do \in {"cut", "fill"} => WriteAll(w)
  BY DEF WriteNext, WritePut, WriteKill, WriteLog, WriteKillEntry
<1>8. \/ todo' # <<>> /\ Rewriting(d, ix)' /\ data' \in Seq(Slots) /\ index' \in Seq(Entries)
         /\ UNCHANGED <<indexAt, freeIndex>>
      \/ todo' = <<>> /\ data' = d /\ index' = ix /\ UNCHANGED <<indexAt, freeIndex>>
  <2>1. ASSUME todo' # <<>>, UNCHANGED <<indexAt, freeIndex>>
        PROVE  Sound(d, ix, indexAt, freeIndex, {}, op)' /\ Saved(d)'
    BY <1>2, <1>3, <2>1 DEF Saved, Sound, EntriesInv, FilesInv, PrimaryInv, PutInv, LogInv, SlotsInv,
       FreeingInv, UniqueFileInv, ValuesInv, ValueIn, TargetInv
  <2>2. CASE todo = <<Cut("data"), Fill("data", d), Cut("index"), Fill("index", ix)>>
    <3>1. w = Cut("data") /\ Tail(todo) = <<Fill("data", d), Cut("index"), Fill("index", ix)>>
      BY <2>2
    <3>2. /\ data' = <<>> /\ index' = index /\ todo' = Tail(todo)
          /\ UNCHANGED <<indexAt, freeIndex>>
      BY <1>6, <1>7, <3>1 DEF WriteAll
    <3>3. todo' # <<>>
      BY <3>1, <3>2
    <3>4. QED
      BY <1>2, <1>5, <2>1, <3>1, <3>2, <3>3 DEF Rewriting, TypeInv
  <2>3. CASE data = <<>> /\ todo = <<Fill("data", d), Cut("index"), Fill("index", ix)>>
    <3>1. w = Fill("data", d) /\ Tail(todo) = <<Cut("index"), Fill("index", ix)>>
      BY <2>3
    <3>2. /\ data' = d /\ index' = index /\ todo' = Tail(todo)
          /\ UNCHANGED <<indexAt, freeIndex>>
      BY <1>6, <1>7, <3>1 DEF WriteAll
    <3>3. todo' # <<>>
      BY <3>1, <3>2
    <3>4. QED
      BY <1>2, <1>5, <2>1, <3>1, <3>2, <3>3 DEF Rewriting, TypeInv
  <2>4. CASE data = d /\ todo = <<Cut("index"), Fill("index", ix)>>
    <3>1. w = Cut("index") /\ Tail(todo) = <<Fill("index", ix)>>
      BY <2>4
    <3>2. /\ data' = data /\ index' = <<>> /\ todo' = Tail(todo)
          /\ UNCHANGED <<indexAt, freeIndex>>
      BY <1>6, <1>7, <3>1 DEF WriteAll
    <3>3. todo' # <<>>
      BY <3>1, <3>2
    <3>4. QED
      BY <1>2, <1>5, <2>1, <2>4, <3>1, <3>2, <3>3 DEF Rewriting
  <2>5. CASE data = d /\ index = <<>> /\ todo = <<Fill("index", ix)>>
    <3>1. w = Fill("index", ix) /\ Tail(todo) = <<>>
      BY <2>5
    <3>2. /\ data' = data /\ index' = ix /\ todo' = Tail(todo)
          /\ UNCHANGED <<indexAt, freeIndex>>
      BY <1>6, <1>7, <3>1 DEF WriteAll
    <3>3. QED
      BY <2>5, <3>1, <3>2
  <2>6. QED
    BY <1>1, <2>2, <2>3, <2>4, <2>5 DEF Rewriting
<1>9. /\ primary' \in [Keys -> Nat] /\ unique' \in [Vals -> SUBSET Nat]
      /\ blocks' \in [DOMAIN blocks' -> Nat \ {0}]
      /\ free' \subseteq [at : Nat, size : Nat \ {0}]
      /\ scanned' \in BOOLEAN /\ torn' \in {"whole", "torn", "compacted"}
      /\ ops' \in 0 .. MaxOps /\ stops' \in 0 .. MaxStops
      /\ before' \in [Keys -> Vals \cup {Absent}]
      /\ indexAt \in [Fields -> Nat]
  BY <1>2, <1>3, <1>4 DEF TypeInv
<1>10. CASE todo' # <<>> /\ Rewriting(d, ix)' /\ data' \in Seq(Slots) /\ index' \in Seq(Entries)
            /\ UNCHANGED <<indexAt, freeIndex>>
  <2>1. op' = op /\ op'.name = "vacuum"
    BY <1>3, <1>10
  <2>2. TypeInv'
    BY <1>2, <1>9, <1>10, <2>1 DEF TypeInv
  <2>3. OrderInv' /\ OpenInv' /\ ~Running'
    BY <2>1 DEF OrderInv, OpenInv, Running
  <2>4. (\E e, x : Rewriting(e, x))'
    BY <1>10
  <2>5. QED
    BY <2>1, <2>2, <2>3, <2>4 DEF Inv
<1>11. CASE todo' = <<>> /\ data' = d /\ index' = ix /\ UNCHANGED <<indexAt, freeIndex>>
  <2>1. op' = None /\ op'.name = "none"
    BY <1>3, <1>4, <1>11
  <2>2. TypeInv'
    <3>1. todo' \in Seq(Write)
      BY <1>11
    <3>2. QED
      BY <1>2, <1>4, <1>9, <1>11, <2>1, <3>1 DEF TypeInv
  <2>3. OrderInv' /\ OpenInv'
    BY <2>1 DEF OrderInv, OpenInv
  <2>4. Sound(d, ix, indexAt, freeIndex, {}, None)
    BY <1>2, SoundSettles
  <2>5. Range(todo') = {}
    BY <1>11 DEF Range
  <2>6. Sound(data', index', indexAt', freeIndex', Range(todo'), op')
    BY <1>11, <2>1, <2>4, <2>5
  <2>7. Sound(data, index, indexAt, freeIndex, Range(todo), op)'
    BY <1>3, <2>6 DEF Sound, EntriesInv, FilesInv, PrimaryInv, PutInv, LogInv, SlotsInv,
       FreeingInv, UniqueFileInv, ValuesInv, ValueIn, TargetInv
  <2>8. QED
    BY <2>1, <2>2, <2>3, <2>7 DEF Inv
<1>12. QED
  BY <1>8, <1>10, <1>11

---------------------------------------------------------------------------
(* A stop and an open.                                                     *)

LEMMA EntryOfIs ==
  ASSUME TypeInv, NEW f \in Fields
  PROVE  /\ EntryOf(f[1], f[2]) \in Nat
         /\ EntryOf(f[1], f[2]) = 0 => \A m \in DOMAIN index : ~IsOf(index[m], f)
         /\ EntryOf(f[1], f[2]) # 0 =>
              EntryOf(f[1], f[2]) \in DOMAIN index /\ IsOf(index[EntryOf(f[1], f[2])], f)
         /\ \A m \in DOMAIN index : IsOf(index[m], f) => m <= EntryOf(f[1], f[2])
<1> DEFINE all == EntriesOf(f[1], f[2])
           n == EntryOf(f[1], f[2])
<1>1. /\ DOMAIN index = 1 .. Len(index) /\ Len(index) \in Nat
      /\ \A m \in DOMAIN index : m # 0
  BY DataParts
<1>2. \A m : m \in all <=> m \in DOMAIN index /\ IsOf(index[m], f)
  BY DEF EntriesOf, IsOf
<1>3. n = IF all = {} THEN 0 ELSE Max(all)
  BY DEF EntryOf
<1> HIDE DEF all, n
<1>4. CASE all = {}
  BY <1>2, <1>3, <1>4 DEF n
<1>5. CASE all # {}
  <2>1. all \in SUBSET (1 .. Len(index))
    BY <1>1, <1>2
  <2>2. Max(all) \in all /\ \A m \in all : m <= Max(all)
    BY <1>1, <1>5, <2>1, MaxIs
  <2>3. n \in all /\ \A m \in all : m <= n
    BY <1>3, <1>5, <2>2
  <2>4. n \in Nat /\ n # 0
    BY <1>1, <2>1, <2>3
  <2>5. QED
    BY <1>2, <2>3, <2>4 DEF n
<1>6. QED
  BY <1>4, <1>5 DEF n

(* What an open reads: at rest, and from the moment an open begins, the    *)
(* memory itself.                                                          *)
LEMMA MemoryIs ==
  ASSUME Inv, op.name \in {"none", "open"}
  PROVE  /\ \A f \in Fields : EntryOf(f[1], f[2]) = indexAt[f]
         /\ OpenedPrimary = primary /\ OpenedUnique = unique
         /\ op.name = "none" => Replaced = {}
<1>1. /\ TypeInv /\ OrderInv /\ OpenInv
      /\ Sound(data, index, indexAt, freeIndex, Range(todo), op)
  BY DEF Inv, Running
<1>2. \A w \in Range(todo) : w.do = "killEntry" /\ op.name = "open"
  BY <1>1 DEF OrderInv, TypeInv, Range
<1>3. ~\E f : Logging(Range(todo), f)
  BY <1>2 DEF Logging
<1>4. op.name = "none" => ~\E n : Dying(Range(todo), n)
  BY <1>2 DEF Dying
<1>5. EntriesInv(index, indexAt, freeIndex, Range(todo))
  BY <1>1 DEF Sound
<1>6. /\ \A n \in DOMAIN index : n \in Nat \ {0} /\ index[n] \in Entries
      /\ \A f \in Fields : indexAt[f] \in Nat
  BY <1>1, DataParts DEF TypeInv
<1>7. \A f \in Fields, m \in DOMAIN index : IsOf(index[m], f) => m <= indexAt[f]
  <2>1. CASE op.name = "open"
    BY <1>1, <2>1 DEF OpenInv
  <2>2. CASE op.name = "none"
    <3>1. \A f \in Fields, m \in DOMAIN index : IsOf(index[m], f) => m = indexAt[f]
      BY <1>4, <1>5, <2>2 DEF EntriesInv
    <3>2. QED
      BY <1>6, <3>1
  <2>3. QED
    BY <2>1, <2>2
<1>8. ASSUME NEW f \in Fields
      PROVE  EntryOf(f[1], f[2]) = indexAt[f]
  <2> DEFINE n == EntryOf(f[1], f[2])
  <2>1. /\ n \in Nat
        /\ n # 0 => n \in DOMAIN index /\ IsOf(index[n], f)
        /\ \A m \in DOMAIN index : IsOf(index[m], f) => m <= n
    BY <1>1, EntryOfIs
  <2>2. indexAt[f] # 0 => indexAt[f] \in DOMAIN index /\ IsOf(index[indexAt[f]], f)
    BY <1>5 DEF EntriesInv
  <2> HIDE DEF n
  <2>3. n <= indexAt[f]
    BY <1>6, <1>7, <2>1
  <2>4. indexAt[f] <= n
    BY <1>6, <2>1, <2>2
  <2>5. n = indexAt[f]
    BY <1>6, <2>1, <2>3, <2>4
  <2>6. QED
    BY <2>5 DEF n
<1>9. ASSUME NEW k \in Keys
      PROVE  OpenedPrimary[k] = primary[k]
  <2> DEFINE n == indexAt[<<"pk", k>>]
  <2>1. EntryOf("pk", k) = n
    <3>1. <<"pk", k>> \in Fields
      BY FieldsAre
    <3>2. EntryOf(<<"pk", k>>[1], <<"pk", k>>[2]) = n
      BY <1>8, <3>1
    <3>3. QED
      BY <3>2
  <2>2. IF n = 0 THEN primary[k] = 0 ELSE primary[k] # 0 /\ index[n].at = {primary[k]}
    BY <1>1, <1>3 DEF Sound, PrimaryInv
  <2>3. OpenedPrimary[k] = IF OffsetsIn(n) = {} THEN 0 ELSE CHOOSE o \in OffsetsIn(n) : TRUE
    <3> DEFINE at == OffsetsIn(EntryOf("pk", k))
    <3>1. OpenedPrimary[k] = IF at = {} THEN 0 ELSE CHOOSE o \in at : TRUE
      BY DEF OpenedPrimary
    <3>2. at = OffsetsIn(n)
      BY <2>1
    <3> HIDE DEF at, n
    <3>3. QED
      BY <3>1, <3>2
  <2> HIDE DEF n
  <2>4. CASE n = 0
    BY <2>2, <2>3, <2>4 DEF OffsetsIn
  <2>5. CASE n # 0
    <3>1. OffsetsIn(n) = {primary[k]}
      BY <2>2, <2>5 DEF OffsetsIn
    <3>2. QED
      BY <2>3, <3>1
  <2>6. QED
    BY <2>4, <2>5
<1>10. ASSUME NEW v \in Vals
       PROVE  OpenedUnique[v] = unique[v]
  <2> DEFINE n == indexAt[<<"unique", v>>]
  <2>1. EntryOf("unique", v) = n
    <3>1. <<"unique", v>> \in Fields
      BY FieldsAre
    <3>2. EntryOf(<<"unique", v>>[1], <<"unique", v>>[2]) = n
      BY <1>8, <3>1
    <3>3. QED
      BY <3>2
  <2>2. unique[v] = IF n = 0 THEN {} ELSE index[n].at
    BY <1>1, <1>3 DEF Sound, UniqueFileInv
  <2>3. OpenedUnique[v] = OffsetsIn(n)
    BY <2>1 DEF OpenedUnique
  <2>4. QED
    BY <2>2, <2>3 DEF OffsetsIn
<1>11. OpenedPrimary = primary /\ OpenedUnique = unique
  <2>1. primary \in [Keys -> Nat] /\ unique \in [Vals -> SUBSET Nat]
    BY <1>1 DEF TypeInv
  <2>2. OpenedPrimary = [k \in Keys |-> OpenedPrimary[k]] /\ OpenedUnique = [v \in Vals |-> OpenedUnique[v]]
    BY DEF OpenedPrimary, OpenedUnique
  <2>3. primary = [k \in Keys |-> primary[k]] /\ unique = [v \in Vals |-> unique[v]]
    BY <2>1
  <2>4. [k \in Keys |-> OpenedPrimary[k]] = [k \in Keys |-> primary[k]]
    BY <1>9
  <2>5. [v \in Vals |-> OpenedUnique[v]] = [v \in Vals |-> unique[v]]
    BY <1>10
  <2>6. QED
    BY <2>2, <2>3, <2>4, <2>5
<1>12. ASSUME op.name = "none"
       PROVE  Replaced = {}
  <2>1. ASSUME NEW n \in DOMAIN index, index[n].field # "dead"
        PROVE  n = EntryOf(index[n].field, index[n].key)
    <3> DEFINE f == <<index[n].field, index[n].key>>
    <3>1. f \in Fields
      BY <1>6, <2>1, EntryParts, FieldsAre
    <3>2. f[1] = index[n].field /\ f[2] = index[n].key
      OBVIOUS
    <3>3. IsOf(index[n], f)
      BY <3>2 DEF IsOf
    <3>4. indexAt[f] = n
      BY <1>4, <1>5, <1>12, <3>1, <3>3 DEF EntriesInv
    <3>5. EntryOf(f[1], f[2]) = indexAt[f]
      BY <1>8, <3>1
    <3>6. QED
      BY <3>2, <3>4, <3>5
  <2>2. QED
    BY <2>1 DEF Replaced
<1>13. QED
  BY <1>8, <1>11, <1>12

LEMMA StopKeepsInv ==
  ASSUME Inv, Stop, StopsIn \subseteq {"upsert", "open"}
  PROVE  Inv'
<1>1. /\ TypeInv /\ op.name \in {"none", "upsert", "open"} /\ Running
      /\ Sound(data, index, indexAt, freeIndex, Range(todo), op)
  BY DEF Inv, Stop, AtRest, Running
<1>2. /\ op' = Down /\ todo' = <<>> /\ UNCHANGED files /\ before' = NoRecords
      /\ ops' = ops /\ stops' = stops + 1 /\ stops < MaxStops /\ Emptied
      /\ torn' = IF op.name = "upsert" THEN "torn" ELSE torn
  BY <1>1 DEF Stop
<1>3. Down.name = "down" /\ Down \in Operation /\ NoRecords \in [Keys -> Vals \cup {Absent}]
  BY DEF Down, Operation, NoRecords
<1>4. TypeInv'
  <2>1. primary' \in [Keys -> Nat] /\ unique' \in [Vals -> SUBSET Nat] /\ indexAt' \in [Fields -> Nat]
    BY <1>2 DEF Emptied
  <2>2. /\ blocks' \in [DOMAIN blocks' -> Nat \ {0}] /\ scanned' \in BOOLEAN
        /\ free' \subseteq [at : Nat, size : Nat \ {0}]
    <3>1. blocks' = <<>> /\ free' = {} /\ scanned' = FALSE
      BY <1>2 DEF Emptied
    <3>2. <<>> \in [DOMAIN <<>> -> Nat \ {0}]
      OBVIOUS
    <3>3. QED
      BY <3>1, <3>2
  <2>3. ops' \in 0 .. MaxOps /\ stops' \in 0 .. MaxStops /\ torn' \in {"whole", "torn", "compacted"}
    BY <1>1, <1>2, DrawerBoundsAssumption DEF TypeInv
  <2>4. todo' \in Seq(Write)
    BY <1>2
  <2>5. data' \in Seq(Slots) /\ index' \in Seq(Entries)
    BY <1>1, <1>2 DEF TypeInv, files
  <2>6. QED
    BY <1>2, <1>3, <2>1, <2>2, <2>3, <2>4, <2>5 DEF TypeInv
<1>5. \A n \in DOMAIN index : index[n].field = "pk" => Leads(data, index[n])
  BY <1>1 DEF Sound, FilesInv
<1>6. ASSUME torn' # "torn"
      PROVE  /\ op.name \in {"none", "open"} /\ torn' = torn
             /\ OpenedPrimary = primary /\ OpenedUnique = unique
             /\ \A k \in Keys : OpenedValue(k) = ValueIn(data, k, op)
  <2>1. op.name \in {"none", "open"} /\ torn' = torn
    BY <1>1, <1>2, <1>6
  <2>2. OpenedPrimary = primary /\ OpenedUnique = unique
    BY <2>1, MemoryIs
  <2>3. QED
    BY <2>1, <2>2 DEF OpenedValue, ValueIn
<1>7. DownInv'
  <2>1. /\ \A k \in Keys : OpenedValue(k)' = OpenedValue(k)
        /\ OpenedPrimary' = OpenedPrimary /\ OpenedUnique' = OpenedUnique
    BY <1>2 DEF files, OpenedValue, OpenedPrimary, OpenedUnique, EntryOf, EntriesOf, OffsetsIn
  <2>2. (\A n \in DOMAIN index : index[n].field = "pk" => Leads(data, index[n]))'
    BY <1>2, <1>5 DEF files
  <2>3. ASSUME torn' # "torn", NEW v \in Vals
        PROVE  OpenedUnique[v] = {OpenedPrimary[k] : k \in {j \in Keys : OpenedValue(j) = v}}
    BY <1>1, <1>6, <2>3 DEF Sound, ValuesInv
  <2>4. ASSUME torn' = "whole", NEW j \in Keys, NEW k \in Keys,
               OpenedValue(j) = OpenedValue(k), OpenedValue(j) # Absent
        PROVE  j = k
    BY <1>1, <1>6, <2>4 DEF Sound, ValuesInv
  <2>5. (torn # "torn" => \A v \in Vals :
           OpenedUnique[v] = {OpenedPrimary[k] : k \in {j \in Keys : OpenedValue(j) = v}})'
    BY <2>1, <2>3
  <2>6. (torn = "whole" => \A j, k \in Keys :
           (OpenedValue(j) = OpenedValue(k) /\ OpenedValue(j) # Absent) => j = k)'
    BY <2>1, <2>4
  <2>7. QED
    BY <2>2, <2>5, <2>6 DEF DownInv
<1>8. OrderInv' /\ OpenInv' /\ ~Running'
  BY <1>2, <1>3 DEF OrderInv, OpenInv, Running
<1>9. QED
  BY <1>2, <1>3, <1>4, <1>7, <1>8 DEF Inv

(* An open reads files that are right, and leaves only entries to clear.   *)
LEMMA OpenKeepsInv ==
  ASSUME Inv, Open
  PROVE  Inv'
<1> DEFINE V == Range(todo')
           at == OpenedEntries
<1>1. /\ TypeInv /\ DownInv /\ op.name = "down"
      /\ UNCHANGED files /\ UNCHANGED <<torn, before, ops, stops>>
      /\ primary' = OpenedPrimary /\ unique' = OpenedUnique
      /\ indexAt' = at /\ blocks' = OpenedBlocks /\ free' = {} /\ scanned' = FALSE
      /\ freeIndex' = {n \in DOMAIN index : index[n].field = "dead"}
  BY DEF Inv, Open, Down
<1>2. /\ data' = data /\ index' = index
      /\ DOMAIN index = 1 .. Len(index) /\ Len(index) \in Nat
      /\ \A n \in DOMAIN index : n \in Nat \ {0} /\ index[n] \in Entries
      /\ \A o \in DOMAIN data : o \in Nat \ {0} /\ data[o] \in Slots
  BY <1>1, DataParts DEF files
<1>3. op' \in Operation /\ op'.name \in {"none", "open"}
  BY DEF Open, None, Operation
<1>4. /\ todo' \in Seq(Write)
      /\ \A i \in DOMAIN todo' : todo'[i].do = "killEntry"
      /\ \A w \in V : w.do = "killEntry" /\ w.at \in Replaced
      /\ \A n \in Replaced : KillEntry(n) \in V
      /\ op'.name = "none" => todo' = <<>>
  <2> DEFINE s == InOrder(Replaced)
  <2>1. Replaced \in SUBSET Nat /\ IsFiniteSet(Replaced)
    <3>1. Replaced \subseteq 1 .. Len(index)
      BY <1>2 DEF Replaced
    <3>2. IsFiniteSet(1 .. Len(index)) /\ 1 .. Len(index) \subseteq Nat
      BY <1>2, FS_Interval
    <3>3. QED
      BY <3>1, <3>2, FS_Subset
  <2>2. /\ s \in Seq(Replaced) /\ DOMAIN s = 1 .. Len(s)
        /\ \A x \in Replaced : \E i \in DOMAIN s : s[i] = x
        /\ \A i \in DOMAIN s : s[i] \in Replaced
    BY <2>1, InOrderIs
  <2> HIDE DEF s
  <2>3. todo' = [i \in DOMAIN s |-> KillEntry(s[i])]
    BY DEF Open, s
  <2>4. \A i \in DOMAIN s : KillEntry(s[i]) \in Write
    BY <2>1, <2>2, WritesMade
  <2>5. Len(s) \in Nat
    BY <2>2
  <2>6. todo' \in Seq(Write) /\ DOMAIN todo' = DOMAIN s
    BY <2>2, <2>3, <2>4, <2>5
  <2>7. \A n : KillEntry(n).do = "killEntry" /\ KillEntry(n).at = n
    BY DEF KillEntry
  <2>8. \A i \in DOMAIN todo' : todo'[i] = KillEntry(s[i])
    BY <2>3
  <2>9. \A w \in V : w.do = "killEntry" /\ w.at \in Replaced
    BY <2>2, <2>6, <2>7, <2>8 DEF Range
  <2>10. \A n \in Replaced : KillEntry(n) \in V
    BY <2>2, <2>6, <2>8 DEF Range
  <2>11. op'.name = "none" => todo' = <<>>
    <3>1. op'.name = "none" => Replaced = {}
      BY DEF Open
    <3>2. Replaced = {} => DOMAIN todo' = {}
      BY <2>2, <2>6
    <3>3. DOMAIN todo' = {} => todo' = <<>>
      BY <2>6
    <3>4. QED
      BY <3>1, <3>2, <3>3
  <2>12. QED
    BY <2>6, <2>7, <2>8, <2>9, <2>10, <2>11
<1>5. /\ \A n : Dying(V, n) <=> n \in Replaced
      /\ ~\E o : Freeing(V, o)
      /\ ~\E o : Putting(V, o)
      /\ ~\E k : PuttingFor(V, k)
      /\ ~\E f : Logging(V, f)
  <2>1. \A n : KillEntry(n).do = "killEntry" /\ KillEntry(n).at = n
    BY DEF KillEntry
  <2>2. QED
    BY <1>4, <2>1 DEF Dying, Freeing, Putting, PuttingFor, Logging
<1>6. \A f \in Fields : at[f] = EntryOf(f[1], f[2])
  BY DEF OpenedEntries
<1>7. ASSUME NEW f \in Fields
      PROVE  /\ at[f] \in Nat
             /\ at[f] = 0 => \A m \in DOMAIN index : ~IsOf(index[m], f)
             /\ at[f] # 0 => at[f] \in DOMAIN index /\ IsOf(index[at[f]], f)
             /\ \A m \in DOMAIN index : IsOf(index[m], f) => m <= at[f]
             /\ \A m \in DOMAIN index : IsOf(index[m], f) => (m \in Replaced <=> m # at[f])
  <2>1. /\ EntryOf(f[1], f[2]) \in Nat
        /\ EntryOf(f[1], f[2]) = 0 => \A m \in DOMAIN index : ~IsOf(index[m], f)
        /\ EntryOf(f[1], f[2]) # 0 =>
             EntryOf(f[1], f[2]) \in DOMAIN index /\ IsOf(index[EntryOf(f[1], f[2])], f)
        /\ \A m \in DOMAIN index : IsOf(index[m], f) => m <= EntryOf(f[1], f[2])
    BY <1>1, EntryOfIs
  <2>2. f[1] # "dead"
    BY FieldsAre
  <2>3. \A m \in DOMAIN index : IsOf(index[m], f) =>
          (m \in Replaced <=> m # EntryOf(f[1], f[2]))
    BY <2>2 DEF IsOf, Replaced
  <2>4. QED
    BY <1>6, <2>1, <2>3
<1> HIDE DEF V, at
<1>8. EntriesInv(index, at, freeIndex', V)
  <2>1. \A n \in DOMAIN index, f \in Fields : IsOf(index[n], f) /\ ~Dying(V, n) => at[f] = n
    BY <1>5, <1>7
  <2>2. \A f \in Fields : at[f] # 0 =>
          at[f] \in DOMAIN index /\ IsOf(index[at[f]], f) /\ ~Dying(V, at[f])
    BY <1>5, <1>7
  <2>3. \A n \in freeIndex' : n \in DOMAIN index /\ index[n] = DeadEntry /\ ~Dying(V, n)
    BY <1>1, <1>2, <1>5, EntryParts DEF Replaced
  <2>4. \A n : Dying(V, n) => n \in DOMAIN index \cup {0}
    BY <1>5 DEF Replaced
  <2>5. QED
    BY <2>1, <2>2, <2>3, <2>4 DEF EntriesInv
<1>9. \A n \in DOMAIN index : index[n].field = "pk" => Leads(data, index[n])
  BY <1>1 DEF DownInv
<1>10. FilesInv(data, index, V, op')
  BY <1>9 DEF FilesInv
<1>11. /\ DOMAIN OpenedBlocks = UNION {index[n].at : n \in {m \in DOMAIN index : index[m].field = "pk"}}
       /\ \A o \in DOMAIN OpenedBlocks : o \in DOMAIN data /\ OpenedBlocks[o] = data[o].size
  <2> DEFINE all == {n \in DOMAIN index : index[n].field = "pk"}
             D == UNION {index[n].at : n \in all}
             L(o) == {n \in all : o \in index[n].at}
  <2>1. OpenedBlocks = [o \in D |-> index[Max(L(o))].size]
    BY DEF OpenedBlocks
  <2>2. ASSUME NEW o \in D
        PROVE  o \in DOMAIN data /\ index[Max(L(o))].size = data[o].size
    <3>1. L(o) \in SUBSET (1 .. Len(index)) /\ L(o) # {}
      BY <1>2, <2>2
    <3>2. Max(L(o)) \in L(o)
      BY <1>2, <3>1, MaxIs
    <3>3. PICK n \in all : n = Max(L(o)) /\ o \in index[n].at
      BY <3>2
    <3>4. Leads(data, index[n])
      BY <1>9, <3>3
    <3>5. QED
      BY <3>3, <3>4 DEF Leads
  <2> HIDE DEF D, L
  <2>3. DOMAIN OpenedBlocks = D /\ \A o \in D : OpenedBlocks[o] = index[Max(L(o))].size
    BY <2>1
  <2>4. QED
    BY <2>2, <2>3 DEF D
<1>12. ASSUME NEW k \in Keys
       PROVE  LET n == at[<<"pk", k>>]
              IN  /\ IF n = 0 THEN OpenedPrimary[k] = 0
                              ELSE OpenedPrimary[k] # 0 /\ index[n].at = {OpenedPrimary[k]}
                  /\ OpenedPrimary[k] \in Nat
                  /\ OpenedPrimary[k] # 0 =>
                       /\ OpenedPrimary[k] \in DOMAIN OpenedBlocks
                       /\ Alive(data, OpenedPrimary[k]) /\ data[OpenedPrimary[k]].key = k
  <2> DEFINE n == at[<<"pk", k>>]
             S == OffsetsIn(n)
  <2>1. <<"pk", k>> \in Fields /\ <<"pk", k>>[1] = "pk" /\ <<"pk", k>>[2] = k
    BY FieldsAre
  <2>2. n = EntryOf("pk", k)
    BY <1>6, <2>1
  <2>3. n # 0 => n \in DOMAIN index /\ index[n].field = "pk" /\ index[n].key = k
    BY <1>7, <2>1 DEF IsOf
  <2>4. OpenedPrimary[k] = IF S = {} THEN 0 ELSE CHOOSE o \in S : TRUE
    <3> DEFINE R == OffsetsIn(EntryOf("pk", k))
    <3>1. OpenedPrimary[k] = IF R = {} THEN 0 ELSE CHOOSE o \in R : TRUE
      BY DEF OpenedPrimary
    <3>2. R = S
      BY <2>2
    <3> HIDE DEF R, S
    <3>3. QED
      BY <3>1, <3>2
  <2>5. S = IF n = 0 THEN {} ELSE index[n].at
    BY DEF OffsetsIn
  <2> HIDE DEF n, S
  <2>6. CASE n = 0
    BY <2>4, <2>5, <2>6 DEF n
  <2>7. CASE n # 0
    <3>1. Leads(data, index[n])
      BY <1>9, <2>3, <2>7
    <3>2. PICK o \in DOMAIN data : index[n].at = {o} /\ data[o].key = k
      BY <2>3, <2>7, <3>1 DEF Leads
    <3>3. OpenedPrimary[k] = o
      BY <2>4, <2>5, <2>7, <3>2
    <3>4. o \in Nat \ {0} /\ k # Absent
      BY <1>2, AbsentAssumption
    <3>5. o \in DOMAIN OpenedBlocks
      BY <1>11, <2>3, <2>7, <3>2
    <3>6. QED
      BY <2>7, <3>2, <3>3, <3>4, <3>5 DEF n, Alive
  <2>8. QED
    BY <2>6, <2>7
<1>13. PrimaryInv(data, index, indexAt, Range(todo))'
  BY <1>1, <1>2, <1>5, <1>12 DEF PrimaryInv, V
<1>14. PutInv(data, Range(todo), op)' /\ LogInv(Range(todo), op)'
  BY <1>4 DEF PutInv, LogInv, V
<1>15. SlotsInv(data, index, indexAt, Range(todo))' /\ FreeingInv(data, index, indexAt, Range(todo))'
  BY <1>1, <1>2, <1>5, <1>11 DEF SlotsInv, FreeingInv, V
<1>16. UniqueFileInv(index, indexAt, Range(todo))'
  <2>1. ASSUME NEW v \in Vals
        PROVE  OpenedUnique[v] = IF at[<<"unique", v>>] = 0 THEN {} ELSE index[at[<<"unique", v>>]].at
    <3> DEFINE n == at[<<"unique", v>>]
    <3>1. <<"unique", v>> \in Fields /\ <<"unique", v>>[1] = "unique" /\ <<"unique", v>>[2] = v
      BY FieldsAre
    <3>2. n = EntryOf("unique", v)
      BY <1>6, <3>1
    <3>3. OpenedUnique[v] = OffsetsIn(n)
      BY <3>2 DEF OpenedUnique
    <3>4. QED
      BY <3>3 DEF OffsetsIn
  <2>2. QED
    BY <1>1, <1>2, <2>1 DEF UniqueFileInv
<1>17. ValuesInv(data, op)'
  <2>1. \A k \in Keys : ValueIn(data, k, op)' = OpenedValue(k)
    BY <1>1, <1>2, <1>3 DEF ValueIn, OpenedValue
  <2>2. ASSUME torn # "torn", NEW v \in Vals
        PROVE  OpenedUnique[v] = {OpenedPrimary[k] : k \in {j \in Keys : OpenedValue(j) = v}}
    BY <1>1, <2>2 DEF DownInv
  <2>3. ASSUME torn = "whole", NEW j \in Keys, NEW k \in Keys,
               OpenedValue(j) = OpenedValue(k), OpenedValue(j) # Absent
        PROVE  j = k
    BY <1>1, <2>3 DEF DownInv
  <2>4. (torn # "torn" => \A v \in Vals :
           unique[v] = {primary[k] : k \in {j \in Keys : ValueIn(data, j, op) = v}})'
    BY <1>1, <2>1, <2>2
  <2>5. (torn = "whole" => \A j, k \in Keys :
           (ValueIn(data, j, op) = ValueIn(data, k, op) /\ ValueIn(data, j, op) # Absent) => j = k)'
    BY <1>1, <2>1, <2>3
  <2>6. QED
    BY <2>4, <2>5 DEF ValuesInv
<1>18. TargetInv(data, Range(todo), op)'
  BY <1>3 DEF TargetInv
<1>19. Sound(data, index, indexAt, freeIndex, Range(todo), op)'
  <2>1. EntriesInv(index, indexAt, freeIndex, Range(todo))'
    BY <1>1, <1>2, <1>8 DEF EntriesInv, V
  <2>2. FilesInv(data, index, Range(todo), op)'
    BY <1>2, <1>10 DEF FilesInv, V
  <2>3. QED
    BY <1>13, <1>14, <1>15, <1>16, <1>17, <1>18, <2>1, <2>2 DEF Sound
<1>20. TypeInv'
  <2>1. primary' \in [Keys -> Nat]
    BY <1>1, <1>12 DEF OpenedPrimary
  <2>2. unique' \in [Vals -> SUBSET Nat]
    <3>1. \A n \in Nat : n # 0 /\ n \in DOMAIN index => index[n].at \in SUBSET Nat
      BY <1>2, EntryParts
    <3>2. ASSUME NEW v \in Vals
          PROVE  OffsetsIn(EntryOf("unique", v)) \in SUBSET Nat
      <4>1. <<"unique", v>> \in Fields /\ <<"unique", v>>[1] = "unique" /\ <<"unique", v>>[2] = v
        BY FieldsAre
      <4>2. EntryOf("unique", v) \in Nat /\ (EntryOf("unique", v) # 0 => EntryOf("unique", v) \in DOMAIN index)
        BY <1>6, <1>7, <4>1
      <4>3. QED
        BY <3>1, <4>2 DEF OffsetsIn
    <3>3. QED
      BY <1>1, <3>2 DEF OpenedUnique
  <2>3. indexAt' \in [Fields -> Nat]
    <3>1. \A f \in Fields : EntryOf(f[1], f[2]) \in Nat
      BY <1>6, <1>7
    <3>2. QED
      BY <1>1, <3>1 DEF OpenedEntries, at
  <2>4. blocks' \in [DOMAIN blocks' -> Nat \ {0}]
    <3>1. \A o \in DOMAIN OpenedBlocks : OpenedBlocks[o] \in Nat \ {0}
      BY <1>2, <1>11, SlotParts
    <3>2. OpenedBlocks = [o \in DOMAIN OpenedBlocks |-> OpenedBlocks[o]]
      BY DEF OpenedBlocks
    <3>3. OpenedBlocks \in [DOMAIN OpenedBlocks -> Nat \ {0}]
      BY <3>1, <3>2
    <3>4. QED
      BY <1>1, <3>3
  <2>5. QED
    BY <1>1, <1>2, <1>3, <1>4, <2>1, <2>2, <2>3, <2>4 DEF TypeInv
<1>21. OrderInv'
  BY <1>3, <1>4 DEF OrderInv
<1>22. OpenInv'
  BY <1>1, <1>2, <1>7 DEF OpenInv
<1>23. op'.name # "down" /\ op'.name # "vacuum"
  BY <1>3
<1>24. QED
  BY <1>19, <1>20, <1>21, <1>22, <1>23 DEF Inv

---------------------------------------------------------------------------
(* An operation begins at rest.                                            *)

LEMMA AtRestIs ==
  ASSUME Inv, AtRest
  PROVE  /\ TypeInv /\ todo = <<>> /\ EntriesInv(index, indexAt, freeIndex, {})
         /\ \A n \in DOMAIN index : index[n].field = "pk" => Leads(data, index[n])
         /\ \A k \in Keys : primary[k] # 0 =>
              /\ primary[k] \in DOMAIN blocks /\ primary[k] \in DOMAIN data
              /\ Alive(data, primary[k]) /\ data[primary[k]].key = k
         /\ \A k \in Keys :
              IF indexAt[<<"pk", k>>] = 0 THEN primary[k] = 0
              ELSE primary[k] # 0 /\ index[indexAt[<<"pk", k>>]].at = {primary[k]}
         /\ \A o \in DOMAIN blocks : o \in DOMAIN data /\ blocks[o] = data[o].size
         /\ \A f \in free : /\ f.at \in DOMAIN data /\ f.size = data[f.at].size
                            /\ ~Alive(data, f.at)
         /\ \A v \in Vals : unique[v] = IF indexAt[<<"unique", v>>] = 0 THEN {}
                                        ELSE index[indexAt[<<"unique", v>>]].at
         /\ torn # "torn" => \A v \in Vals :
              unique[v] = {primary[k] : k \in {j \in Keys : OldValue(j) = v}}
         /\ torn = "whole" => \A j, k \in Keys :
              (OldValue(j) = OldValue(k) /\ OldValue(j) # Absent) => j = k
<1>1. /\ TypeInv /\ op.name = "none" /\ todo = <<>>
      /\ Sound(data, index, indexAt, freeIndex, Range(todo), op)
  BY DEF Inv, AtRest, Running, TypeInv
<1>2. Range(todo) = {}
  BY <1>1 DEF Range
<1>3. Sound(data, index, indexAt, freeIndex, {}, op)
  BY <1>1, <1>2
<1>4. /\ ~\E o : Freeing({}, o)
      /\ ~\E o : Putting({}, o)
      /\ ~\E k : PuttingFor({}, k)
      /\ ~\E f : Logging({}, f)
  BY DEF Freeing, Putting, PuttingFor, Logging
<1>5. \A k \in Keys : ValueIn(data, k, op) = OldValue(k)
  BY <1>1 DEF ValueIn, OldValue, Live, Alive
<1>6. /\ EntriesInv(index, indexAt, freeIndex, {})
      /\ \A n \in DOMAIN index : index[n].field = "pk" => Leads(data, index[n])
  BY <1>1, <1>3 DEF Sound, FilesInv
<1>7. /\ \A k \in Keys : primary[k] # 0 =>
           /\ primary[k] \in DOMAIN blocks /\ primary[k] \in DOMAIN data
           /\ Alive(data, primary[k]) /\ data[primary[k]].key = k
      /\ \A k \in Keys :
           IF indexAt[<<"pk", k>>] = 0 THEN primary[k] = 0
           ELSE primary[k] # 0 /\ index[indexAt[<<"pk", k>>]].at = {primary[k]}
  BY <1>3, <1>4 DEF Sound, PrimaryInv, Alive
<1>8. /\ \A o \in DOMAIN blocks : o \in DOMAIN data /\ blocks[o] = data[o].size
      /\ \A f \in free : /\ f.at \in DOMAIN data /\ f.size = data[f.at].size
                         /\ ~Alive(data, f.at)
  BY <1>3, <1>4 DEF Sound, SlotsInv
<1>9. \A v \in Vals : unique[v] = IF indexAt[<<"unique", v>>] = 0 THEN {}
                                  ELSE index[indexAt[<<"unique", v>>]].at
  BY <1>3, <1>4 DEF Sound, UniqueFileInv
<1>10. ASSUME torn # "torn", NEW v \in Vals
       PROVE  unique[v] = {primary[k] : k \in {j \in Keys : OldValue(j) = v}}
  BY <1>3, <1>5, <1>10 DEF Sound, ValuesInv
<1>11. ASSUME torn = "whole", NEW j \in Keys, NEW k \in Keys,
              OldValue(j) = OldValue(k), OldValue(j) # Absent
       PROVE  j = k
  BY <1>3, <1>5, <1>11 DEF Sound, ValuesInv
<1>12. QED
  BY <1>1, <1>6, <1>7, <1>8, <1>9, <1>10, <1>11

(* A slot an upsert takes is a tombstone of exactly its size, or new.      *)
LEMMA FreeSlotsAre ==
  ASSUME Inv, AtRest
  PROVE  /\ FreeSlots \subseteq [at : Nat, size : Nat \ {0}]
         /\ \A f \in FreeSlots : /\ f.at \in DOMAIN data /\ f.size = data[f.at].size
                                 /\ ~Alive(data, f.at)
<1>1. /\ TypeInv
      /\ \A f \in free : /\ f.at \in DOMAIN data /\ f.size = data[f.at].size
                         /\ ~Alive(data, f.at)
  BY AtRestIs
<1>2. \A o \in DOMAIN data : o \in Nat /\ data[o].size \in Nat \ {0}
  BY <1>1, DataParts, SlotParts
<1> DEFINE dead == {[at |-> o, size |-> data[o].size] : o \in {p \in DOMAIN data : ~Live(p)}}
<1>3. FreeSlots \subseteq free \cup dead
  BY DEF FreeSlots
<1>4. \A f \in dead : /\ f \in [at : Nat, size : Nat \ {0}]
                      /\ f.at \in DOMAIN data /\ f.size = data[f.at].size
                      /\ ~Alive(data, f.at)
  BY <1>2 DEF Live, Alive
<1>5. free \subseteq [at : Nat, size : Nat \ {0}]
  BY <1>1 DEF TypeInv
<1> HIDE DEF dead
<1>6. QED
  BY <1>1, <1>3, <1>4, <1>5

LEMMA SlotTaken ==
  ASSUME Inv, AtRest, NEW size \in Nat \ {0}, NEW o \in SlotsFor(size)
  PROVE  /\ o \in 1 .. (Len(data) + 1) /\ o \in Nat \ {0} /\ ~Alive(data, o)
         /\ o \in DOMAIN data => data[o].size = size
         /\ \A k \in Keys : primary[k] # o
<1>1. /\ DOMAIN data = 1 .. Len(data) /\ Len(data) \in Nat
      /\ \A k \in Keys : primary[k] # 0 => Alive(data, primary[k])
  BY AtRestIs, DataParts
<1>2. \/ o = Len(data) + 1
      \/ \E f \in FreeSlots : f.size = size /\ o = f.at
  BY DEF SlotsFor
<1>3. CASE o = Len(data) + 1
  <2>1. o \notin DOMAIN data /\ o \in 1 .. (Len(data) + 1) /\ o \in Nat \ {0}
    BY <1>1, <1>3
  <2>2. QED
    BY <1>1, <2>1 DEF Alive
<1>4. CASE \E f \in FreeSlots : f.size = size /\ o = f.at
  <2>1. o \in DOMAIN data /\ data[o].size = size /\ ~Alive(data, o)
    BY <1>4, FreeSlotsAre
  <2>2. o \in 1 .. (Len(data) + 1) /\ o \in Nat \ {0}
    BY <1>1, <2>1
  <2>3. QED
    BY <1>1, <2>1, <2>2
<1>5. QED
  BY <1>2, <1>3, <1>4

IsJoined(u, s, t) ==
  /\ Len(u) = Len(s) + Len(t) /\ Range(u) = Range(s) \cup Range(t)
  /\ \A i \in DOMAIN u : \/ i \in DOMAIN s /\ u[i] = s[i]
                         \/ i - Len(s) \in DOMAIN t /\ u[i] = t[i - Len(s)]

LEMMA Joined ==
  ASSUME NEW S, NEW s \in Seq(S), NEW t \in Seq(S)
  PROVE  s \o t \in Seq(S) /\ IsJoined(s \o t, s, t)
<1> DEFINE u == s \o t
<1>1. /\ u \in Seq(S) /\ Len(u) = Len(s) + Len(t) /\ DOMAIN u = 1 .. (Len(s) + Len(t))
      /\ Len(s) \in Nat /\ Len(t) \in Nat /\ DOMAIN s = 1 .. Len(s) /\ DOMAIN t = 1 .. Len(t)
      /\ \A i \in DOMAIN u : u[i] = IF i <= Len(s) THEN s[i] ELSE t[i - Len(s)]
  OBVIOUS
<1> HIDE DEF u
<1>2. \A i \in DOMAIN u : \/ i \in DOMAIN s /\ u[i] = s[i]
                          \/ i - Len(s) \in DOMAIN t /\ u[i] = t[i - Len(s)]
  <2>1. TAKE i \in DOMAIN u
  <2>2. CASE i <= Len(s)
    BY <1>1, <2>2
  <2>3. CASE ~(i <= Len(s))
    <3>1. i - Len(s) \in DOMAIN t /\ u[i] = t[i - Len(s)]
      BY <1>1, <2>3
    <3>2. QED
      BY <3>1
  <2>4. QED
    BY <2>2, <2>3
<1>3. \A i \in DOMAIN s : i \in DOMAIN u /\ u[i] = s[i]
  BY <1>1
<1>4. \A i \in DOMAIN t : i + Len(s) \in DOMAIN u /\ u[i + Len(s)] = t[i]
  <2>1. TAKE i \in DOMAIN t
  <2>2. i + Len(s) \in DOMAIN u /\ ~(i + Len(s) <= Len(s)) /\ i + Len(s) - Len(s) = i
    BY <1>1
  <2>3. QED
    BY <1>1, <2>2
<1>5. Range(u) = Range(s) \cup Range(t)
  BY <1>2, <1>3, <1>4 DEF Range
<1>6. QED
  BY <1>1, <1>2, <1>5 DEF u, IsJoined

(* What a key's record holds now.                                          *)
LEMMA OldValueIs ==
  ASSUME Inv, AtRest, NEW k \in Keys
  PROVE  /\ OldValue(k) \in Vals \cup {Absent}
         /\ primary[k] \in Nat
         /\ OldValue(k) # Absent <=> primary[k] # 0
         /\ primary[k] # 0 => OldValue(k) = data[primary[k]].val
<1>1. /\ TypeInv
      /\ primary[k] # 0 => /\ primary[k] \in DOMAIN data
                           /\ Alive(data, primary[k]) /\ data[primary[k]].key = k
  BY AtRestIs
<1>2. primary[k] \in Nat /\ 0 \notin DOMAIN data
  BY <1>1, DataParts DEF TypeInv
<1>3. primary[k] # 0 => data[primary[k]].val \in Vals /\ data[primary[k]].val # Absent
  BY <1>1, DataParts, SlotParts, AbsentAssumption
<1>4. QED
  BY <1>1, <1>2, <1>3 DEF OldValue, Live, Alive

(* s is what Upsert has still to write of key k's new record v at the free *)
(* block o, the unique entries being U: the record first, the kill last.    *)
WritesOfUpsert(s, k, v, o, U) ==
  /\ s \in Seq(Write)
  /\ PutData(o, [size |-> Aligned(Length[v]), key |-> k, val |-> v]) \in Range(s)
  /\ Log("pk", k, {o}, Aligned(Length[v])) \in Range(s)
  /\ \A u \in {v, OldValue(k)} \ {Absent} : Log("unique", u, U[u], 0) \in Range(s)
  /\ primary[k] # 0 => KillData(primary[k], 0) \in Range(s)
  /\ \A w \in Range(s) :
       \/ w = PutData(o, [size |-> Aligned(Length[v]), key |-> k, val |-> v])
       \/ w = Log("pk", k, {o}, Aligned(Length[v]))
       \/ \E u \in {v, OldValue(k)} \ {Absent} : w = Log("unique", u, U[u], 0)
       \/ primary[k] # 0 /\ w = KillData(primary[k], 0)
  /\ \A i \in DOMAIN s : /\ s[i].do = "put" => i = 1
                         /\ s[i].do = "kill" => i = Len(s) /\ s[i].entry = 0
                         /\ s[i].do = "log" /\ s[i].entry.field = "pk" => i = 2

LEMMA UpsertWritesAre ==
  ASSUME Inv, AtRest, NEW k \in Keys, NEW v \in Vals, NEW o \in Nat \ {0}, o # primary[k],
         NEW s, s = UpsertWrites(k, v, o), NEW U, U = UniqueAfter(k, v, o)
  PROVE  WritesOfUpsert(s, k, v, o, U)
<1> DEFINE S == {v, OldValue(k)} \ {Absent}
           p == PutData(o, [size |-> Aligned(Length[v]), key |-> k, val |-> v])
           l == Log("pk", k, {o}, Aligned(Length[v]))
           vs == InOrder(S)
           L(u) == Log("unique", u, U[u], 0)
           B == [i \in DOMAIN vs |-> L(vs[i])]
           C == IF primary[k] = 0 THEN <<>> ELSE <<KillData(primary[k], 0)>>
<1>1. /\ TypeInv /\ primary[k] \in Nat /\ OldValue(k) \in Vals \cup {Absent}
      /\ Aligned(Length[v]) \in Nat \ {0} /\ Vals \subseteq Nat
  BY AtRestIs, OldValueIs, SizesPositive, ValsAssumption
<1>2. S \subseteq Vals /\ S \in SUBSET Nat /\ IsFiniteSet(S)
  <2>1. IsFiniteSet({v, OldValue(k)}) /\ S \subseteq {v, OldValue(k)}
    <3>1. IsFiniteSet({v} \cup {OldValue(k)})
      BY FS_Singleton, FS_Union
    <3>2. {v} \cup {OldValue(k)} = {v, OldValue(k)}
      OBVIOUS
    <3>3. QED
      BY <3>1, <3>2
  <2>2. QED
    BY <1>1, <2>1, FS_Subset, AbsentAssumption
<1>3. /\ vs \in Seq(S) /\ DOMAIN vs = 1 .. Len(vs)
      /\ \A x \in S : \E i \in DOMAIN vs : vs[i] = x
      /\ \A i \in DOMAIN vs : vs[i] \in S
  BY <1>2, InOrderIs
<1>4. \A u \in S : L(u) \in Write
  <2>1. \A u \in S : U[u] \in SUBSET Nat
    <3>1. \A u \in Vals : unique[u] \in SUBSET Nat
      BY <1>1 DEF TypeInv
    <3>2. QED
      BY <1>2, <3>1 DEF UniqueAfter
  <2>2. QED
    BY <1>2, <2>1, WritesMade
<1>5. p \in Write /\ l \in Write /\ p.do = "put" /\ l.do = "log"
  <2>1. [size |-> Aligned(Length[v]), key |-> k, val |-> v] \in LiveSlot
    BY <1>1 DEF LiveSlot
  <2>2. p \in Write /\ l \in Write
    BY <1>1, <2>1, WritesMade
  <2>3. QED
    BY <2>2 DEF PutData, Log
<1>6. \A u : L(u).do = "log" /\ L(u).entry.field # "pk"
  BY DEF Log
<1>7. \A q : KillData(q, 0).do = "kill" /\ KillData(q, 0).entry = 0
  BY DEF KillData
<1>8. s = <<p, l>> \o B \o C
  <2>1. primary[k] \in {0, o} <=> primary[k] = 0
    OBVIOUS
  <2>2. QED
    BY <2>1 DEF UpsertWrites
<1> HIDE DEF S, p, l, vs, L
<1>9. /\ B \in Seq(Write) /\ Range(B) = {L(u) : u \in S}
      /\ \A i \in DOMAIN B : B[i].do = "log" /\ B[i].entry.field # "pk"
  <2>1. Len(vs) \in Nat
    BY <1>3
  <2>2. B \in Seq(Write)
    BY <1>3, <1>4, <2>1
  <2>3. Range(B) = {L(u) : u \in S}
    BY <1>3 DEF Range
  <2>4. QED
    BY <1>6, <2>2, <2>3
<1>10. /\ C \in Seq(Write) /\ Range(C) = {x \in {KillData(primary[k], 0)} : primary[k] # 0}
       /\ \A i \in DOMAIN C : i = Len(C) /\ C[i].do = "kill" /\ C[i].entry = 0
  <2>1. CASE primary[k] = 0
    BY <2>1 DEF Range
  <2>2. CASE primary[k] # 0
    <3>1. C = <<KillData(primary[k], 0)>> /\ KillData(primary[k], 0) \in Write
      BY <1>1, <2>2, WritesMade
    <3> HIDE DEF C
    <3>2. DOMAIN C = {1} /\ C[1] = KillData(primary[k], 0) /\ Len(C) = 1
      BY <3>1
    <3>3. C \in Seq(Write)
      BY <3>1
    <3>4. QED
      BY <1>7, <2>2, <3>2, <3>3 DEF Range
  <2>3. QED
    BY <2>1, <2>2
<1>11. /\ <<p, l>> \in Seq(Write) /\ Range(<<p, l>>) = {p, l}
       /\ \A i \in DOMAIN <<p, l>> : i = 1 \/ <<p, l>>[i].do = "log"
       /\ \A i \in DOMAIN <<p, l>> : <<p, l>>[i].do # "kill"
       /\ \A i \in DOMAIN <<p, l>> : <<p, l>>[i].do = "log" => i = 2
  <2>1. <<p, l>> \in Seq(Write) /\ DOMAIN <<p, l>> = {1, 2} /\ <<p, l>>[1] = p /\ <<p, l>>[2] = l
    BY <1>5
  <2>2. QED
    BY <1>5, <2>1 DEF Range
<1> DEFINE A == <<p, l>>
           AB == A \o B
<1> HIDE DEF A, B, C
<1>12. /\ AB \in Seq(Write) /\ Range(AB) = {p, l} \cup {L(u) : u \in S}
       /\ \A i \in DOMAIN AB : i = 1 \/ AB[i].do = "log"
       /\ \A i \in DOMAIN AB : AB[i].do # "kill"
       /\ \A i \in DOMAIN AB : AB[i].do = "log" /\ AB[i].entry.field = "pk" => i = 2
  <2>1. /\ AB \in Seq(Write) /\ Range(AB) = Range(A) \cup Range(B)
        /\ \A i \in DOMAIN AB : \/ i \in DOMAIN A /\ AB[i] = A[i]
                                \/ i - Len(A) \in DOMAIN B /\ AB[i] = B[i - Len(A)]
    <3>1. A \in Seq(Write)
      BY <1>11 DEF A
    <3>2. AB \in Seq(Write) /\ IsJoined(AB, A, B)
      BY <1>9, <3>1, Joined
    <3>3. QED
      BY <3>2 DEF IsJoined
  <2>2. QED
    BY <1>9, <1>11, <2>1 DEF A
<1> HIDE DEF AB
<1>13. /\ s = AB \o C /\ s \in Seq(Write) /\ Range(s) = Range(AB) \cup Range(C)
       /\ Len(s) = Len(AB) + Len(C)
       /\ \A i \in DOMAIN s : \/ i \in DOMAIN AB /\ s[i] = AB[i]
                              \/ i - Len(AB) \in DOMAIN C /\ s[i] = C[i - Len(AB)]
  <2>1. s = AB \o C
    BY <1>8 DEF A, AB, B, C
  <2>2. QED
    <3>1. AB \o C \in Seq(Write) /\ IsJoined(AB \o C, AB, C)
      BY <1>10, <1>12, Joined
    <3>2. QED
      BY <2>1, <3>1 DEF IsJoined
<1>14. \A i \in DOMAIN s : /\ s[i].do = "put" => i = 1
                           /\ s[i].do = "kill" => i = Len(s) /\ s[i].entry = 0
                           /\ s[i].do = "log" /\ s[i].entry.field = "pk" => i = 2
  <2>1. TAKE i \in DOMAIN s
  <2>2. CASE i \in DOMAIN AB /\ s[i] = AB[i]
    BY <1>12, <2>2
  <2>3. CASE i - Len(AB) \in DOMAIN C /\ s[i] = C[i - Len(AB)]
    <3>1. i - Len(AB) = Len(C) /\ s[i].do = "kill" /\ s[i].entry = 0
      BY <1>10, <2>3
    <3>2. i \in Nat /\ Len(AB) \in Nat /\ Len(C) \in Nat
      BY <1>10, <1>12, <1>13
    <3>3. i = Len(s)
      BY <1>13, <3>1, <3>2
    <3>4. QED
      BY <3>1, <3>3
  <2>4. QED
    BY <1>13, <2>2, <2>3
<1>15. /\ p \in Range(s) /\ l \in Range(s)
       /\ \A u \in S : L(u) \in Range(s)
       /\ primary[k] # 0 => KillData(primary[k], 0) \in Range(s)
       /\ \A w \in Range(s) : \/ w = p
                              \/ w = l
                              \/ \E u \in S : w = L(u)
                              \/ primary[k] # 0 /\ w = KillData(primary[k], 0)
  BY <1>10, <1>12, <1>13
<1>16. QED
  BY <1>13, <1>14, <1>15 DEF p, l, L, S, WritesOfUpsert

(* A free slot is not the slot of a key: the upsert frees the old slot and *)
(* takes the new one, and nobody else's.                                   *)
LEMMA UpsertKeepsInv ==
  ASSUME Inv, NEW k \in Keys, NEW v \in Vals, Upsert(k, v)
  PROVE  Inv' /\ UNCHANGED data
<1> DEFINE old == primary[k]
           size == Aligned(Length[v])
           U == UniqueAfter(k, v, primary'[k])
           V == Range(todo')
           S == {v, OldValue(k)} \ {Absent}
<1>1. /\ TypeInv /\ todo = <<>> /\ EntriesInv(index, indexAt, freeIndex, {})
      /\ \A n \in DOMAIN index : index[n].field = "pk" => Leads(data, index[n])
      /\ \A j \in Keys : primary[j] # 0 =>
           /\ primary[j] \in DOMAIN blocks /\ primary[j] \in DOMAIN data
           /\ Alive(data, primary[j]) /\ data[primary[j]].key = j
      /\ \A j \in Keys :
           IF indexAt[<<"pk", j>>] = 0 THEN primary[j] = 0
           ELSE primary[j] # 0 /\ index[indexAt[<<"pk", j>>]].at = {primary[j]}
      /\ \A q \in DOMAIN blocks : q \in DOMAIN data /\ blocks[q] = data[q].size
      /\ \A u \in Vals : unique[u] = IF indexAt[<<"unique", u>>] = 0 THEN {}
                                     ELSE index[indexAt[<<"unique", u>>]].at
      /\ AtRest
  BY AtRestIs DEF Upsert
<1>2. /\ size \in Nat \ {0} /\ old \in Nat
      /\ OldValue(k) \in Vals \cup {Absent} /\ (OldValue(k) # Absent <=> old # 0)
      /\ \A j \in Keys : primary[j] \in Nat /\ OldValue(j) \in Vals \cup {Absent}
      /\ \A j \in Keys : OldValue(j) # Absent <=> primary[j] # 0
  BY <1>1, SizesPositive, OldValueIs
<1> HIDE DEF size
<1>3. PICK o \in SlotsFor(size) :
        /\ op' = [name |-> "upsert", keys |-> {k}, val |-> v]
        /\ todo' = UpsertWrites(k, v, o)
        /\ primary' = [primary EXCEPT ![k] = o]
        /\ unique' = UniqueAfter(k, v, o)
        /\ blocks' = [p \in (DOMAIN blocks \ {old}) \cup {o} |->
                        IF p = o THEN size ELSE blocks[p]]
        /\ free' = AfterUse(o, size) \cup (IF old \in {0, o} THEN {} ELSE {Freed(old)})
  BY DEF Upsert, size
<1>4. /\ o \in 1 .. (Len(data) + 1) /\ o \in Nat \ {0} /\ ~Alive(data, o)
      /\ o \in DOMAIN data => data[o].size = size
      /\ \A j \in Keys : primary[j] # o
  BY <1>1, <1>2, <1>3, SlotTaken
<1>5. /\ data' = data /\ index' = index
      /\ UNCHANGED <<indexAt, freeIndex, torn, before, stops>>
      /\ scanned' = TRUE /\ ops' = ops + 1 /\ ops < MaxOps
      /\ unique[v] \subseteq {old}
  BY DEF Upsert, files
<1>6. /\ primary' \in [Keys -> Nat] /\ primary'[k] = o
      /\ \A j \in Keys : j # k => primary'[j] = primary[j]
  BY <1>1, <1>3, <1>4 DEF TypeInv
<1>7. /\ op'.name = "upsert" /\ op'.keys = {k} /\ op'.val = v /\ op' \in Operation
  BY <1>3 DEF Operation
<1>8. /\ todo' \in Seq(Write)
      /\ PutData(o, [size |-> size, key |-> k, val |-> v]) \in V
      /\ Log("pk", k, {o}, size) \in V
      /\ \A u \in S : Log("unique", u, unique'[u], 0) \in V
      /\ old # 0 => KillData(old, 0) \in V
      /\ \A w \in V :
           \/ w = PutData(o, [size |-> size, key |-> k, val |-> v])
           \/ w = Log("pk", k, {o}, size)
           \/ \E u \in S : w = Log("unique", u, unique'[u], 0)
           \/ old # 0 /\ w = KillData(old, 0)
      /\ \A i \in DOMAIN todo' : /\ todo'[i].do = "put" => i = 1
                                 /\ todo'[i].do = "kill" => i = Len(todo') /\ todo'[i].entry = 0
  <2>1. o # primary[k]
    BY <1>4
  <2>2. WritesOfUpsert(todo', k, v, o, unique')
    BY <1>1, <1>3, <1>4, <2>1, UpsertWritesAre
  <2>3. QED
    BY <2>2 DEF WritesOfUpsert, size, V, S
<1>9. /\ S \subseteq Vals /\ "pk" # "unique"
      /\ \A u \in Vals : u # v /\ u # OldValue(k) => u \notin S
  BY <1>2
<1> HIDE DEF V, S
<1>10. \A w \in V :
         \/ w.do = "put" /\ w.at = o /\ w.slot = [size |-> size, key |-> k, val |-> v]
         \/ w.do = "log" /\ w.entry = [field |-> "pk", key |-> k, at |-> {o}, size |-> size]
         \/ \E u \in S : /\ w.do = "log"
                         /\ w.entry = [field |-> "unique", key |-> u, at |-> unique'[u], size |-> 0]
         \/ old # 0 /\ w.do = "kill" /\ w.at = old /\ w.entry = 0
  <2>1. /\ \A x : PutData(o, x).do = "put" /\ PutData(o, x).at = o /\ PutData(o, x).slot = x
        /\ \A f, j, at, n : /\ Log(f, j, at, n).do = "log"
                            /\ Log(f, j, at, n).entry = [field |-> f, key |-> j, at |-> at, size |-> n]
        /\ KillData(old, 0).do = "kill" /\ KillData(old, 0).at = old /\ KillData(old, 0).entry = 0
    BY DEF PutData, Log, KillData
  <2> DEFINE x == [size |-> size, key |-> k, val |-> v]
  <2> HIDE DEF x
  <2>2. \A w \in V : \/ w = PutData(o, x)
                     \/ w = Log("pk", k, {o}, size)
                     \/ \E u \in S : w = Log("unique", u, unique'[u], 0)
                     \/ old # 0 /\ w = KillData(old, 0)
    BY <1>8 DEF x
  <2> DEFINE E(f, j, at, n) == [field |-> f, key |-> j, at |-> at, size |-> n]
  <2> HIDE DEF E
  <2>3. /\ \A f, j, at, n : /\ Log(f, j, at, n).do = "log"
                           /\ Log(f, j, at, n).entry = E(f, j, at, n)
    BY <2>1 DEF E
  <2>4. \A w \in V :
         \/ w.do = "put" /\ w.at = o /\ w.slot = x
         \/ w.do = "log" /\ w.entry = E("pk", k, {o}, size)
         \/ \E u \in S : w.do = "log" /\ w.entry = E("unique", u, unique'[u], 0)
         \/ old # 0 /\ w.do = "kill" /\ w.at = old /\ w.entry = 0
    <3>1. TAKE w \in V
    <3>2. CASE w = PutData(o, x)
      BY <2>1, <3>2
    <3>3. CASE w = Log("pk", k, {o}, size)
      BY <2>3, <3>3
    <3>4. CASE \E u \in S : w = Log("unique", u, unique'[u], 0)
      BY <2>3, <3>4
    <3>5. CASE old # 0 /\ w = KillData(old, 0)
      BY <2>1, <3>5
    <3>6. QED
      BY <2>2, <3>2, <3>3, <3>4, <3>5
  <2>5. QED
    BY <2>4 DEF x, E
<1>11. /\ \A n : Dying(V, n) => n = 0
       /\ \A q : Freeing(V, q) <=> old # 0 /\ q = old
       /\ \A q : Putting(V, q) <=> q = o
       /\ \A j : PuttingFor(V, j) <=> j = k
       /\ Logging(V, <<"pk", k>>)
       /\ \A u \in S : Logging(V, <<"unique", u>>)
  <2>1. \A n : Dying(V, n) => n = 0
    BY <1>10 DEF Dying
  <2>2. \A q : Freeing(V, q) <=> old # 0 /\ q = old
    <3>1. KillData(old, 0).do = "kill" /\ KillData(old, 0).at = old
      BY DEF KillData
    <3>2. QED
      BY <1>8, <1>10, <3>1 DEF Freeing
  <2>3. (\A q : Putting(V, q) <=> q = o) /\ (\A j : PuttingFor(V, j) <=> j = k)
    <3> DEFINE p == PutData(o, [size |-> size, key |-> k, val |-> v])
    <3>1. p.do = "put" /\ p.at = o /\ p.slot.key = k
      BY DEF PutData
    <3> HIDE DEF p
    <3>2. QED
      BY <1>8, <1>10, <3>1 DEF Putting, PuttingFor, p
  <2>4. /\ Logging(V, <<"pk", k>>)
        /\ \A u \in S : Logging(V, <<"unique", u>>)
    <3>1. /\ \A f, j, at, n : /\ Log(f, j, at, n).do = "log"
                              /\ Log(f, j, at, n).entry.field = f
                              /\ Log(f, j, at, n).entry.key = j
      BY DEF Log
    <3>2. /\ \A f, j, at, n : Log(f, j, at, n) \in V => Logging(V, <<f, j>>)
      BY <3>1 DEF Logging, IsOf
    <3>3. QED
      BY <1>8, <3>2
  <2>5. QED
    BY <2>1, <2>2, <2>3, <2>4
<1>12. \A j \in Keys : primary[j] # 0 /\ j # k => primary[j] # old
  BY <1>1
<1>13. EntriesInv(index, indexAt, freeIndex, V)
  <2>1. 0 \notin DOMAIN index
    BY <1>1, DataParts
  <2>2. \A n \in DOMAIN index : ~Dying(V, n)
    BY <1>11, <2>1
  <2>3. /\ \A n \in DOMAIN index, f \in Fields : IsOf(index[n], f) => indexAt[f] = n
        /\ \A f \in Fields : indexAt[f] # 0 => indexAt[f] \in DOMAIN index /\ IsOf(index[indexAt[f]], f)
        /\ \A n \in freeIndex : n \in DOMAIN index /\ index[n] = DeadEntry
    <3>1. ~\E n : Dying({}, n)
      BY DEF Dying
    <3>2. QED
      BY <1>1, <3>1 DEF EntriesInv
  <2>4. QED
    BY <1>11, <2>2, <2>3 DEF EntriesInv
<1>14. FilesInv(data, index, Range(todo), op)'
  BY <1>1, <1>5 DEF FilesInv
<1>15. /\ DOMAIN blocks' = (DOMAIN blocks \ {old}) \cup {o}
       /\ blocks'[o] = size
       /\ \A q \in DOMAIN blocks' : q # o => q \in DOMAIN blocks /\ blocks'[q] = blocks[q]
  BY <1>3
<1>16. PrimaryInv(data, index, indexAt, Range(todo))'
  <2>1. ASSUME NEW j \in Keys, j # k, primary[j] # 0
        PROVE  primary[j] \in DOMAIN blocks' /\ ~Freeing(V, primary[j])
    BY <1>1, <1>11, <1>12, <1>15, <2>1
  <2>2. o \in DOMAIN blocks' /\ ~Freeing(V, o)
    BY <1>4, <1>11, <1>15
  <2>3. \A j \in Keys : j # k => primary'[j] = primary[j]
    BY <1>6
  <2>4. ASSUME NEW j \in Keys, j # k
        PROVE  /\ IF indexAt'[<<"pk", j>>] = 0 THEN primary'[j] = 0
                  ELSE primary'[j] # 0 /\ index'[indexAt'[<<"pk", j>>]].at = {primary'[j]}
               /\ primary'[j] # 0 => /\ primary'[j] \in DOMAIN blocks' /\ ~Freeing(V, primary'[j])
                                     /\ Alive(data', primary'[j]) /\ data'[primary'[j]].key = j
    BY <1>1, <1>5, <2>1, <2>3, <2>4
  <2>5. Logging(V, <<"pk", k>>) /\ PuttingFor(V, k)
    BY <1>11
  <2>6. QED
    BY <1>6, <2>2, <2>4, <2>5 DEF PrimaryInv, V
<1>17. PutInv(data, Range(todo), op)'
  <2>1. \A w \in V : w.do = "put" =>
          w.at = o /\ w.slot.key = k /\ w.slot.val = v /\ w.slot.size = size
    <3> DEFINE x == [size |-> size, key |-> k, val |-> v]
    <3>1. x.key = k /\ x.val = v /\ x.size = size
      OBVIOUS
    <3>2. \A w \in V : w.do = "put" => w.at = o /\ w.slot = x
      BY <1>10
    <3> HIDE DEF x
    <3>3. QED
      BY <3>1, <3>2
  <2>2. \A w \in V : w.do = "put" => primary'[w.slot.key] = o
    BY <1>6, <2>1
  <2>3. QED
    BY <1>4, <1>5, <1>7, <1>15, <2>1, <2>2 DEF PutInv, V
<1>18. LogInv(Range(todo), op)'
  <2>1. \A w \in V : w.do = "log" =>
          \/ /\ w.entry.field = "pk" /\ w.entry.key = k /\ w.entry.at = {o} /\ w.entry.size = size
          \/ /\ w.entry.field = "unique" /\ w.entry.at = unique'[w.entry.key]
    <3> DEFINE E(f, j, at, n) == [field |-> f, key |-> j, at |-> at, size |-> n]
    <3>1. \A f, j, at, n : /\ E(f, j, at, n).field = f /\ E(f, j, at, n).key = j
                          /\ E(f, j, at, n).at = at /\ E(f, j, at, n).size = n
      OBVIOUS
    <3>2. \A w \in V : w.do = "log" => \/ w.entry = E("pk", k, {o}, size)
                                      \/ \E u \in S : w.entry = E("unique", u, unique'[u], 0)
      BY <1>10
    <3> HIDE DEF E
    <3>3. QED
      BY <3>1, <3>2
  <2>2. ASSUME NEW w \in V, w.do = "log"
        PROVE  IF w.entry.field = "pk"
               THEN /\ w.entry.key \in op'.keys /\ primary'[w.entry.key] # 0
                    /\ w.entry.at = {primary'[w.entry.key]}
                    /\ w.entry.size = blocks'[primary'[w.entry.key]]
               ELSE w.entry.at = unique'[w.entry.key]
    <3>1. CASE w.entry.field = "pk" /\ w.entry.key = k /\ w.entry.at = {o} /\ w.entry.size = size
      BY <1>4, <1>6, <1>7, <1>15, <3>1
    <3>2. CASE w.entry.field = "unique" /\ w.entry.at = unique'[w.entry.key]
      BY <1>9, <3>2
    <3>3. QED
      BY <2>1, <2>2, <3>1, <3>2
  <2>3. QED
    BY <2>2 DEF LogInv, V
<1>19. /\ free' \subseteq [at : Nat, size : Nat \ {0}]
       /\ \A f \in free' : /\ f.at \in DOMAIN data /\ f.size = data[f.at].size
                           /\ f.at # o
                           /\ ~Alive(data, f.at) \/ (old # 0 /\ f.at = old)
  <2>1. /\ FreeSlots \subseteq [at : Nat, size : Nat \ {0}]
        /\ \A f \in FreeSlots : /\ f.at \in DOMAIN data /\ f.size = data[f.at].size
                                /\ ~Alive(data, f.at)
    BY <1>1, FreeSlotsAre
  <2>2. ASSUME NEW f \in AfterUse(o, size)
        PROVE  /\ f \in [at : Nat, size : Nat \ {0}]
               /\ f.at \in DOMAIN data /\ f.size = data[f.at].size
               /\ ~Alive(data, f.at) /\ f.at # o
    <3>1. f \in FreeSlots /\ f # [at |-> o, size |-> size] /\ f \in [at : Nat, size : Nat \ {0}]
      BY <2>1, <2>2 DEF AfterUse
    <3>2. f = [at |-> f.at, size |-> f.size]
      BY <3>1
    <3>3. f.at \in DOMAIN data /\ f.size = data[f.at].size
      BY <2>1, <3>1
    <3>4. f.at # o
      BY <1>4, <3>1, <3>2, <3>3
    <3>5. QED
      BY <2>1, <3>1, <3>3, <3>4
  <2>3. CASE old = 0
    <3>1. free' = AfterUse(o, size)
      BY <1>3, <2>3
    <3>2. QED
      BY <2>2, <3>1
  <2>4. CASE old # 0
    <3>1. free' = AfterUse(o, size) \cup {Freed(old)}
      BY <1>3, <1>4, <2>4
    <3>2. old \in DOMAIN data /\ old \in DOMAIN blocks /\ blocks[old] = data[old].size
      BY <1>1, <2>4
    <3>3. Freed(old) = [at |-> old, size |-> data[old].size]
      BY <3>2 DEF Freed, BlockSize
    <3>4. data[old].size \in Nat \ {0}
      BY <1>1, <3>2, DataParts, SlotParts
    <3>5. /\ Freed(old).at = old /\ Freed(old).size = data[old].size
          /\ Freed(old) \in [at : Nat, size : Nat \ {0}]
      BY <1>2, <3>3, <3>4
    <3>6. QED
      BY <1>4, <2>2, <2>4, <3>1, <3>2, <3>5
  <2>5. QED
    BY <2>3, <2>4
<1>20. SlotsInv(data, index, indexAt, Range(todo))'
  <2>1. \A q \in DOMAIN blocks' : Putting(V, q) \/ (q \in DOMAIN data /\ blocks'[q] = data[q].size)
    BY <1>1, <1>11, <1>15
  <2>2. QED
    BY <1>5, <1>11, <1>19, <2>1 DEF SlotsInv, V
<1>21. FreeingInv(data, index, indexAt, Range(todo))'
  <2>1. ASSUME old # 0, NEW n \in DOMAIN index, index[n].field = "pk", old \in index[n].at
        PROVE  index[n].key = k /\ n = indexAt[<<"pk", k>>]
    <3>1. index[n].key = k
      BY <1>1, <2>1 DEF Leads
    <3>2. IsOf(index[n], <<"pk", k>>) /\ <<"pk", k>> \in Fields
      BY <2>1, <3>1, FieldsAre DEF IsOf
    <3>3. ~Dying({}, n)
      BY DEF Dying
    <3>4. QED
      BY <1>1, <3>1, <3>2, <3>3 DEF EntriesInv
  <2>2. old # 0 => old \in DOMAIN data
    BY <1>1
  <2>3. QED
    BY <1>5, <1>11, <2>1, <2>2 DEF FreeingInv, V
<1>22. UniqueFileInv(index, indexAt, Range(todo))'
  <2>1. ASSUME NEW u \in Vals, ~Logging(V, <<"unique", u>>)
        PROVE  unique'[u] = unique[u]
    <3>1. u \notin S
      BY <1>11, <2>1
    <3>2. u # v /\ u # OldValue(k)
      BY <2>1, <3>1, AbsentAssumption DEF S
    <3>3. unique'[u] = (IF u = OldValue(k) THEN unique[u] \ {primary[k]} ELSE unique[u])
                       \cup (IF u = v THEN {o} ELSE {})
      BY <1>3 DEF UniqueAfter
    <3>4. QED
      BY <3>2, <3>3
  <2>2. QED
    BY <1>1, <1>5, <2>1 DEF UniqueFileInv, V
<1>23. ValuesInv(data, op)'
  <2>1. /\ ValueIn(data, k, op)' = v
        /\ \A j \in Keys : j # k => ValueIn(data, j, op)' = OldValue(j)
    BY <1>5, <1>6, <1>7 DEF ValueIn, OldValue, Live, Alive
  <2>2. ASSUME torn # "torn", NEW u \in Vals
        PROVE  unique'[u] = {primary'[j] : j \in {i \in Keys : ValueIn(data, i, op)' = u}}
    <3> DEFINE R == {primary'[j] : j \in {i \in Keys : ValueIn(data, i, op)' = u}}
    <3>1. unique'[u] = (IF u = OldValue(k) THEN unique[u] \ {old} ELSE unique[u])
                       \cup (IF u = v THEN {o} ELSE {})
      BY <1>3 DEF UniqueAfter
    <3>2. unique[u] = {primary[j] : j \in {i \in Keys : OldValue(i) = u}}
      BY <1>1, <2>2, AtRestIs
    <3>3. \A j \in Keys : OldValue(j) = u => primary[j] # 0
      BY <1>2, AbsentAssumption
    <3>4. ASSUME NEW x \in R
          PROVE  x \in unique'[u]
      <4>1. PICK j \in Keys : ValueIn(data, j, op)' = u /\ x = primary'[j]
        BY <3>4
      <4>2. CASE j = k
        BY <1>6, <2>1, <3>1, <4>1, <4>2
      <4>3. CASE j # k
        <5>1. x = primary[j] /\ OldValue(j) = u
          BY <1>6, <2>1, <4>1, <4>3
        <5>2. x \in unique[u] /\ x # old
          BY <1>12, <3>2, <3>3, <4>3, <5>1
        <5>3. QED
          BY <3>1, <5>2
      <4>4. QED
        BY <4>2, <4>3
    <3>5. ASSUME NEW x \in unique'[u]
          PROVE  x \in R
      <4>1. CASE u = v /\ x = o
        BY <1>6, <2>1, <4>1
      <4>2. CASE x \in unique[u] /\ (u = OldValue(k) => x # old)
        <5>1. PICK j \in Keys : OldValue(j) = u /\ x = primary[j]
          BY <3>2, <4>2
        <5>2. j # k
          BY <4>2, <5>1
        <5>3. x = primary'[j] /\ ValueIn(data, j, op)' = u
          BY <1>6, <2>1, <5>1, <5>2
        <5>4. QED
          BY <5>3
      <4>3. QED
        BY <3>1, <4>1, <4>2
    <3>6. QED
      BY <3>4, <3>5
  <2>3. ASSUME torn = "whole", NEW j \in Keys, NEW l \in Keys,
               ValueIn(data, j, op)' = ValueIn(data, l, op)', ValueIn(data, j, op)' # Absent
        PROVE  j = l
    <3>1. ASSUME NEW i \in Keys, OldValue(i) = v
          PROVE  i = k
      <4>1. primary[i] \in unique[v]
        BY <2>3, <3>1, AtRestIs, <1>1
      <4>2. primary[i] = old /\ primary[i] # 0
        BY <1>2, <1>5, <3>1, <4>1, AbsentAssumption
      <4>3. QED
        BY <1>12, <4>2
    <3>2. \A i, m \in Keys : OldValue(i) = OldValue(m) /\ OldValue(i) # Absent => i = m
      BY <1>1, <2>3, AtRestIs
    <3>3. CASE j = k
      BY <2>1, <2>3, <3>1, <3>3
    <3>4. CASE l = k
      BY <2>1, <2>3, <3>1, <3>4
    <3>5. CASE j # k /\ l # k
      BY <2>1, <2>3, <3>2, <3>5
    <3>6. QED
      BY <3>3, <3>4, <3>5
  <2>4. (torn # "torn" => \A u \in Vals :
           unique[u] = {primary[j] : j \in {i \in Keys : ValueIn(data, i, op) = u}})'
    BY <1>5, <2>2
  <2>5. (torn = "whole" => \A j, l \in Keys :
           (ValueIn(data, j, op) = ValueIn(data, l, op) /\ ValueIn(data, j, op) # Absent) => j = l)'
    BY <1>5, <2>3
  <2>6. QED
    BY <2>4, <2>5 DEF ValuesInv
<1>24. TargetInv(data, Range(todo), op)'
  BY <1>4, <1>6, <1>7, <1>11 DEF TargetInv, V
<1>25. Sound(data, index, indexAt, freeIndex, Range(todo), op)'
  <2>1. EntriesInv(index, indexAt, freeIndex, Range(todo))'
    BY <1>5, <1>13 DEF EntriesInv, V
  <2>2. QED
    BY <1>14, <1>16, <1>17, <1>18, <1>20, <1>21, <1>22, <1>23, <1>24, <2>1 DEF Sound
<1>26. TypeInv'
  <2>1. unique' \in [Vals -> SUBSET Nat]
    <3>1. \A u \in Vals : unique[u] \in SUBSET Nat
      BY <1>1 DEF TypeInv
    <3>2. QED
      BY <1>3, <1>4, <3>1 DEF UniqueAfter
  <2>2. blocks' \in [DOMAIN blocks' -> Nat \ {0}]
    <3>1. \A q \in DOMAIN blocks : blocks[q] \in Nat \ {0}
      BY <1>1 DEF TypeInv
    <3>2. QED
      BY <1>2, <1>3, <3>1
  <2>3. ops' \in 0 .. MaxOps /\ stops' \in 0 .. MaxStops
    BY <1>1, <1>5, DrawerBoundsAssumption DEF TypeInv
  <2>4. /\ data' \in Seq(Slots) /\ index' \in Seq(Entries) /\ indexAt' \in [Fields -> Nat]
        /\ scanned' \in BOOLEAN /\ torn' \in {"whole", "torn", "compacted"}
        /\ before' \in [Keys -> Vals \cup {Absent}]
    BY <1>1, <1>5 DEF TypeInv
  <2>5. QED
    BY <1>6, <1>7, <1>8, <1>19, <2>1, <2>2, <2>3, <2>4 DEF TypeInv
<1>27. OrderInv' /\ OpenInv'
  BY <1>7, <1>8 DEF OrderInv, OpenInv
<1>28. QED
  BY <1>5, <1>7, <1>25, <1>26, <1>27 DEF Inv

(* The writes of a deletion of the records of the keys G, when the unique  *)
(* entries of the values E go with them.                                   *)
SlotsOf(G) == {primary[k] : k \in G}
ValuesOf(G) == {OldValue(k) : k \in G}
WritesOfDelete(V, G, E) ==
  /\ \A k \in G : KillData(primary[k], Known("pk", k)) \in V
  /\ \A v \in E : Known("unique", v) # 0 => KillEntry(Known("unique", v)) \in V
  /\ \A v \in ValuesOf(G) \ E : Log("unique", v, unique[v] \ SlotsOf(G), 0) \in V
  /\ \A w \in V :
       \/ \E k \in G : w = KillData(primary[k], Known("pk", k))
       \/ \E v \in E : Known("unique", v) # 0 /\ w = KillEntry(Known("unique", v))
       \/ \E v \in ValuesOf(G) \ E : w = Log("unique", v, unique[v] \ SlotsOf(G), 0)
EntriesAfter(G, E) ==
  [f \in Fields |-> IF (f[1] = "pk" /\ f[2] \in G) \/ (f[1] = "unique" /\ f[2] \in E)
                    THEN 0 ELSE indexAt[f]]

IsDeletion(S, G, E) ==
  /\ AtRest /\ ops < MaxOps
  /\ S \in SUBSET Keys /\ G = {k \in S : Live(primary[k])}
  /\ E \in SUBSET ValuesOf(G) /\ \A v \in E : unique[v] \subseteq SlotsOf(G)
  /\ Deleted(S, G)
  /\ todo' \in Seq(Write) /\ WritesOfDelete(Range(todo'), G, E)
  /\ indexAt' = EntriesAfter(G, E)

(* A deletion frees the slots of its own records and clears their entries. *)
LEMMA DeletionKeepsInv ==
  ASSUME Inv, NEW S, NEW G, NEW E, IsDeletion(S, G, E)
  PROVE  Inv' /\ UNCHANGED data
<1> DEFINE V == Range(todo')
           slots == SlotsOf(G)
           values == ValuesOf(G)
<1>0. /\ AtRest /\ ops < MaxOps
      /\ S \in SUBSET Keys /\ G = {k \in S : Live(primary[k])}
      /\ E \in SUBSET ValuesOf(G) /\ \A v \in E : unique[v] \subseteq SlotsOf(G)
      /\ Deleted(S, G)
      /\ todo' \in Seq(Write) /\ WritesOfDelete(Range(todo'), G, E)
      /\ indexAt' = EntriesAfter(G, E)
  BY DEF IsDeletion
<1> USE <1>0
<1>1. /\ TypeInv /\ todo = <<>> /\ EntriesInv(index, indexAt, freeIndex, {})
      /\ \A n \in DOMAIN index : index[n].field = "pk" => Leads(data, index[n])
      /\ \A j \in Keys : primary[j] # 0 =>
           /\ primary[j] \in DOMAIN blocks /\ primary[j] \in DOMAIN data
           /\ Alive(data, primary[j]) /\ data[primary[j]].key = j
      /\ \A j \in Keys :
           IF indexAt[<<"pk", j>>] = 0 THEN primary[j] = 0
           ELSE primary[j] # 0 /\ index[indexAt[<<"pk", j>>]].at = {primary[j]}
      /\ \A q \in DOMAIN blocks : q \in DOMAIN data /\ blocks[q] = data[q].size
      /\ \A f \in free : /\ f.at \in DOMAIN data /\ f.size = data[f.at].size
                         /\ ~Alive(data, f.at)
      /\ \A u \in Vals : unique[u] = IF indexAt[<<"unique", u>>] = 0 THEN {}
                                     ELSE index[indexAt[<<"unique", u>>]].at
  BY AtRestIs
<1>2. /\ \A j \in Keys : primary[j] \in Nat /\ OldValue(j) \in Vals \cup {Absent}
      /\ \A j \in Keys : OldValue(j) # Absent <=> primary[j] # 0
      /\ 0 \notin DOMAIN data /\ 0 \notin DOMAIN index
      /\ \A f \in Fields : indexAt[f] \in Nat
  BY <1>1, OldValueIs, DataParts DEF TypeInv
<1>3. /\ G \subseteq S /\ G \subseteq Keys
      /\ \A j \in S : primary[j] # 0 <=> j \in G
      /\ values \subseteq Vals
  <2>1. \A j \in S : primary[j] # 0 <=> j \in G
    BY <1>1, <1>2 DEF Live, Alive
  <2>2. QED
    BY <1>2, <2>1 DEF ValuesOf
<1>4. /\ primary' = [k \in Keys |-> IF k \in S THEN 0 ELSE primary[k]]
      /\ unique' = [v \in Vals |-> IF v \in values THEN unique[v] \ slots ELSE unique[v]]
      /\ blocks' = [o \in DOMAIN blocks \ slots |-> blocks[o]]
      /\ free' = free \cup {Freed(o) : o \in slots}
      /\ op' = IF G = {} THEN None ELSE [name |-> "delete", keys |-> G, val |-> Absent]
      /\ ops' = ops + 1
      /\ data' = data /\ index' = index
      /\ UNCHANGED <<scanned, freeIndex, torn, before, stops>>
  <2>1. \A v \in Vals : (\E k \in G : OldValue(k) = v) <=> v \in values
    BY DEF ValuesOf
  <2>2. unique' = [v \in Vals |-> IF \E k \in G : OldValue(k) = v
                                  THEN unique[v] \ slots ELSE unique[v]]
    BY DEF Deleted, SlotsOf
  <2>3. unique' = [v \in Vals |-> IF v \in values THEN unique[v] \ slots ELSE unique[v]]
    BY <2>1, <2>2
  <2>4. QED
    BY <2>3 DEF Deleted, SlotsOf, files
<1>5. op'.name \in {"none", "delete"} /\ op' \in Operation
  BY <1>3, <1>4 DEF None, Operation
<1>6. /\ \A p \in slots : \E k \in G : p = primary[k]
      /\ \A k \in G : primary[k] \in slots /\ OldValue(k) \in values
      /\ \A v \in values : \E k \in G : v = OldValue(k)
  BY DEF SlotsOf, ValuesOf
<1>7. WritesOfDelete(V, G, E) /\ \A v \in E : unique[v] \subseteq slots
  OBVIOUS
<1>8. \A v \in E : v \in values
  OBVIOUS
<1> HIDE DEF V, slots, values
<1>9. \A j \in Keys : j \notin S /\ primary[j] # 0 => primary[j] \notin slots
  BY <1>1, <1>3, <1>6
<1>10. /\ \A n : Dying(V, n) <=> \/ \E k \in G : n = indexAt[<<"pk", k>>]
                                 \/ \E v \in E : n = indexAt[<<"unique", v>>] /\ n # 0
       /\ \A o : Freeing(V, o) <=> o \in slots
       /\ ~\E o : Putting(V, o)
       /\ \A w \in V : w.do = "log" => /\ w.entry.field = "unique" /\ w.entry.key \in values
                                       /\ w.entry.at = unique[w.entry.key] \ slots
       /\ \A w \in V : w.do \in {"kill", "killEntry", "log"}
       /\ \A v \in values \ E : Logging(V, <<"unique", v>>)
  <2>1. /\ \A o, n : /\ KillData(o, n).do = "kill" /\ KillData(o, n).at = o
                     /\ KillData(o, n).entry = n
        /\ \A n : KillEntry(n).do = "killEntry" /\ KillEntry(n).at = n
        /\ \A f, k, at, n : /\ Log(f, k, at, n).do = "log"
                            /\ Log(f, k, at, n).entry.field = f
                            /\ Log(f, k, at, n).entry.key = k
                            /\ Log(f, k, at, n).entry.at = at
    BY DEF KillData, KillEntry, Log
  <2>2. /\ \A k \in G : KillData(primary[k], indexAt[<<"pk", k>>]) \in V
        /\ \A v \in E : indexAt[<<"unique", v>>] # 0 => KillEntry(indexAt[<<"unique", v>>]) \in V
        /\ \A v \in values \ E : Log("unique", v, unique[v] \ slots, 0) \in V
        /\ \A w \in V :
             \/ \E k \in G : w = KillData(primary[k], indexAt[<<"pk", k>>])
             \/ \E v \in E : indexAt[<<"unique", v>>] # 0 /\ w = KillEntry(indexAt[<<"unique", v>>])
             \/ \E v \in values \ E : w = Log("unique", v, unique[v] \ slots, 0)
    BY <1>7 DEF WritesOfDelete, Known, slots, values
  <2>3. \A w \in V :
          \/ w.do = "kill" /\ (\E k \in G : w.at = primary[k] /\ w.entry = indexAt[<<"pk", k>>])
          \/ w.do = "killEntry" /\ (\E v \in E : indexAt[<<"unique", v>>] # 0 /\ w.at = indexAt[<<"unique", v>>])
          \/ /\ w.do = "log" /\ w.entry.field = "unique" /\ w.entry.key \in values
             /\ w.entry.at = unique[w.entry.key] \ slots
    <3>1. TAKE w \in V
    <3>2. CASE \E k \in G : w = KillData(primary[k], indexAt[<<"pk", k>>])
      BY <2>1, <3>2
    <3>3. CASE \E v \in E : indexAt[<<"unique", v>>] # 0 /\ w = KillEntry(indexAt[<<"unique", v>>])
      BY <2>1, <3>3
    <3>4. CASE \E v \in values \ E : w = Log("unique", v, unique[v] \ slots, 0)
      BY <2>1, <3>4
    <3>5. QED
      BY <2>2, <3>2, <3>3, <3>4
  <2>4. \A n : Dying(V, n) => \/ \E k \in G : n = indexAt[<<"pk", k>>]
                              \/ \E v \in E : n = indexAt[<<"unique", v>>] /\ n # 0
    BY <2>3 DEF Dying
  <2>5. /\ \A k \in G : Dying(V, indexAt[<<"pk", k>>])
        /\ \A v \in E : indexAt[<<"unique", v>>] # 0 => Dying(V, indexAt[<<"unique", v>>])
    BY <2>1, <2>2 DEF Dying
  <2>6. \A o : Freeing(V, o) <=> o \in slots
    <3>1. \A o : Freeing(V, o) => o \in slots
      BY <1>6, <2>3 DEF Freeing
    <3>2. ASSUME NEW k \in G
          PROVE  Freeing(V, primary[k])
      <4> DEFINE w == KillData(primary[k], indexAt[<<"pk", k>>])
      <4>1. w \in V /\ w.do = "kill" /\ w.at = primary[k]
        BY <2>1, <2>2
      <4>2. QED
        BY <4>1 DEF Freeing
    <3>3. QED
      BY <1>6, <3>1, <3>2
  <2>7. \A v \in values \ E : Logging(V, <<"unique", v>>)
    <3>1. \A f, k, at, n : Log(f, k, at, n) \in V => Logging(V, <<f, k>>)
      BY <2>1 DEF Logging, IsOf
    <3>2. QED
      BY <2>2, <3>1
  <2>8. ~\E o : Putting(V, o)
    BY <2>3 DEF Putting
  <2>9. /\ \A w \in V : w.do = "log" => /\ w.entry.field = "unique" /\ w.entry.key \in values
                                        /\ w.entry.at = unique[w.entry.key] \ slots
        /\ \A w \in V : w.do \in {"kill", "killEntry", "log"}
    BY <2>3
  <2>10. QED
    BY <2>4, <2>5, <2>6, <2>7, <2>8, <2>9
<1>11. /\ \A n \in DOMAIN index, f \in Fields : IsOf(index[n], f) => indexAt[f] = n
       /\ \A f \in Fields : indexAt[f] # 0 => indexAt[f] \in DOMAIN index /\ IsOf(index[indexAt[f]], f)
       /\ \A n \in freeIndex : n \in DOMAIN index /\ index[n] = DeadEntry
  <2>1. ~\E n : Dying({}, n)
    BY DEF Dying
  <2>2. QED
    BY <1>1, <2>1 DEF EntriesInv
<1> DEFINE C == {f \in Fields : (f[1] = "pk" /\ f[2] \in G) \/ (f[1] = "unique" /\ f[2] \in E)}
<1>12. /\ indexAt' = [f \in Fields |-> IF f \in C THEN 0 ELSE indexAt[f]]
       /\ C \subseteq Fields
       /\ \A k \in Keys : <<"pk", k>> \in Fields /\ (<<"pk", k>> \in C <=> k \in G)
       /\ \A v \in Vals : <<"unique", v>> \in Fields /\ (<<"unique", v>> \in C <=> v \in E)
       /\ \A n : n # 0 => (Dying(V, n) <=> \E f \in C : n = indexAt[f])
       /\ \A k \in G : indexAt[<<"pk", k>>] # 0
  <2>1. /\ \A k \in Keys : <<"pk", k>> \in Fields /\ (<<"pk", k>> \in C <=> k \in G)
        /\ \A v \in Vals : <<"unique", v>> \in Fields /\ (<<"unique", v>> \in C <=> v \in E)
    <3>1. ASSUME NEW k \in Keys
          PROVE  <<"pk", k>> \in Fields /\ (<<"pk", k>> \in C <=> k \in G)
      <4> DEFINE f == <<"pk", k>>
      <4>1. f \in Fields /\ f[1] = "pk" /\ f[2] = k
        BY FieldsAre
      <4> HIDE DEF f
      <4>2. f \in C <=> k \in G
        BY <4>1
      <4>3. QED
        BY <4>1, <4>2 DEF f
    <3>2. ASSUME NEW v \in Vals
          PROVE  <<"unique", v>> \in Fields /\ (<<"unique", v>> \in C <=> v \in E)
      <4> DEFINE f == <<"unique", v>>
      <4>1. f \in Fields /\ f[1] = "unique" /\ f[2] = v
        BY FieldsAre
      <4> HIDE DEF f
      <4>2. f \in C <=> v \in E
        BY <4>1
      <4>3. QED
        BY <4>1, <4>2 DEF f
    <3>3. QED
      BY <3>1, <3>2
  <2>2. indexAt' = [f \in Fields |-> IF f \in C THEN 0 ELSE indexAt[f]]
    <3>1. \A f \in Fields : f \in C <=> (f[1] = "pk" /\ f[2] \in G) \/ (f[1] = "unique" /\ f[2] \in E)
      OBVIOUS
    <3> HIDE DEF C
    <3>2. QED
      BY <3>1 DEF EntriesAfter
  <2>3. \A f \in C : (\E k \in G : f = <<"pk", k>>) \/ (\E v \in E : f = <<"unique", v>>)
    BY FieldsAre
  <2>4. E \subseteq Vals
    BY <1>3, <1>8
  <2>5. C \subseteq Fields
    OBVIOUS
  <2> HIDE DEF C
  <2>6. \A n : n # 0 => (Dying(V, n) <=> \E f \in C : n = indexAt[f])
    BY <1>3, <1>10, <2>1, <2>3, <2>4
  <2>7. \A k \in G : indexAt[<<"pk", k>>] # 0
    BY <1>1, <1>3
  <2>8. QED
    BY <2>1, <2>2, <2>5, <2>6, <2>7
<1> HIDE DEF C
<1>13. EntriesInv(index, indexAt', freeIndex, V)
  <2>1. \A e, f, g : IsOf(e, f) /\ IsOf(e, g) /\ f \in Fields /\ g \in Fields => f = g
    BY FieldsAre DEF IsOf
  <2>2. ASSUME NEW n \in DOMAIN index, NEW f \in Fields, IsOf(index[n], f), ~Dying(V, n)
        PROVE  indexAt'[f] = n
    <3>1. indexAt[f] = n /\ n # 0
      BY <1>2, <1>11, <2>2
    <3>2. f \notin C
      BY <1>12, <2>2, <3>1
    <3>3. QED
      BY <1>12, <3>1, <3>2
  <2>3. ASSUME NEW f \in Fields, indexAt'[f] # 0
        PROVE  /\ indexAt'[f] \in DOMAIN index /\ IsOf(index[indexAt'[f]], f)
               /\ ~Dying(V, indexAt'[f])
    <3>1. f \notin C /\ indexAt'[f] = indexAt[f]
      BY <1>12, <2>3
    <3>2. indexAt[f] \in DOMAIN index /\ IsOf(index[indexAt[f]], f)
      BY <1>11, <2>3, <3>1
    <3>3. ASSUME NEW g \in C, indexAt[f] = indexAt[g]
          PROVE  FALSE
      <4>1. IsOf(index[indexAt[f]], g) /\ g \in Fields
        BY <1>11, <1>12, <2>3, <3>1, <3>3
      <4>2. f = g
        BY <2>1, <3>2, <4>1
      <4>3. QED
        BY <3>1, <4>2
    <3>4. QED
      BY <1>12, <2>3, <3>1, <3>2, <3>3
  <2>4. ASSUME NEW n \in freeIndex, Dying(V, n)
        PROVE  FALSE
    <3>1. n \in DOMAIN index /\ index[n] = DeadEntry /\ n # 0
      BY <1>2, <1>11
    <3>2. PICK f \in C : n = indexAt[f]
      BY <1>12, <2>4, <3>1
    <3>3. IsOf(DeadEntry, f) /\ f \in Fields
      BY <1>11, <1>12, <3>1, <3>2
    <3>4. QED
      BY <3>3, FieldsAre DEF IsOf, DeadEntry
  <2>5. \A n : Dying(V, n) => n \in DOMAIN index \cup {0}
    BY <1>11, <1>12
  <2>6. QED
    BY <1>11, <2>2, <2>3, <2>4, <2>5 DEF EntriesInv
<1>14. FilesInv(data, index, Range(todo), op)'
  BY <1>1, <1>4 DEF FilesInv
<1>15. /\ \A j \in S : primary'[j] = 0
       /\ \A j \in Keys : j \notin S => primary'[j] = primary[j]
  BY <1>4
<1>16. PrimaryInv(data, index, indexAt, Range(todo))'
  <2>1. ASSUME NEW j \in Keys
        PROVE  IF indexAt'[<<"pk", j>>] = 0 THEN primary'[j] = 0
               ELSE primary'[j] # 0 /\ index[indexAt'[<<"pk", j>>]].at = {primary'[j]}
    <3> DEFINE f == <<"pk", j>>
    <3>1. f \in Fields /\ (f \in C <=> j \in G)
      BY <1>12
    <3>2. IF indexAt[f] = 0 THEN primary[j] = 0
          ELSE primary[j] # 0 /\ index[indexAt[f]].at = {primary[j]}
      BY <1>1
    <3> HIDE DEF f
    <3>3. indexAt'[f] = IF j \in G THEN 0 ELSE indexAt[f]
      BY <1>12, <3>1
    <3>4. CASE j \in G
      BY <1>3, <1>15, <3>3, <3>4 DEF f
    <3>5. CASE j \in S /\ j \notin G
      BY <1>3, <1>15, <3>2, <3>3, <3>5 DEF f
    <3>6. CASE j \notin S
      BY <1>3, <1>15, <3>2, <3>3, <3>6 DEF f
    <3>7. QED
      BY <1>3, <3>4, <3>5, <3>6
  <2>2. ASSUME NEW j \in Keys, primary'[j] # 0
        PROVE  /\ primary'[j] \in DOMAIN blocks' /\ ~Freeing(V, primary'[j])
               /\ Alive(data, primary'[j]) /\ data[primary'[j]].key = j
    <3>1. j \notin S /\ primary'[j] = primary[j]
      BY <1>15, <2>2
    <3>2. primary[j] \notin slots
      BY <1>9, <2>2, <3>1
    <3>3. QED
      BY <1>1, <1>4, <1>10, <2>2, <3>1, <3>2
  <2>3. QED
    BY <1>4, <2>1, <2>2 DEF PrimaryInv, V
<1>17. PutInv(data, Range(todo), op)' /\ LogInv(Range(todo), op)'
  <2>1. \A w \in V : w.do # "put"
    BY <1>10
  <2>2. \A w \in V : w.do = "log" => w.entry.field = "unique" /\ w.entry.at = unique'[w.entry.key]
    BY <1>3, <1>4, <1>10
  <2>3. QED
    BY <2>1, <2>2 DEF PutInv, LogInv, V
<1>18. /\ free' \subseteq [at : Nat, size : Nat \ {0}]
       /\ \A f \in free' : /\ f.at \in DOMAIN data /\ f.size = data[f.at].size
                           /\ ~Alive(data, f.at) \/ f.at \in slots
  <2>1. ASSUME NEW p \in slots
        PROVE  /\ Freed(p).at = p /\ Freed(p).size = data[p].size /\ p \in DOMAIN data
               /\ Freed(p) \in [at : Nat, size : Nat \ {0}]
    <3>1. PICK k \in G : p = primary[k]
      BY <1>6
    <3>2. p \in DOMAIN blocks /\ p \in DOMAIN data /\ blocks[p] = data[p].size /\ p \in Nat
      BY <1>1, <1>2, <1>3, <3>1
    <3>3. data[p].size \in Nat \ {0}
      BY <1>1, <3>2, DataParts, SlotParts
    <3>4. Freed(p) = [at |-> p, size |-> data[p].size]
      BY <3>2 DEF Freed, BlockSize
    <3>5. QED
      BY <3>2, <3>3, <3>4
  <2>2. free \subseteq [at : Nat, size : Nat \ {0}]
    BY <1>1 DEF TypeInv
  <2>3. QED
    BY <1>1, <1>4, <2>1, <2>2
<1>19. SlotsInv(data, index, indexAt, Range(todo))'
  <2>1. \A q \in DOMAIN blocks' : q \in DOMAIN data /\ blocks'[q] = data[q].size
    BY <1>1, <1>4
  <2>2. QED
    BY <1>4, <1>10, <1>18, <2>1 DEF SlotsInv, V
<1>20. FreeingInv(data, index, indexAt, Range(todo))'
  <2>1. ASSUME NEW p \in slots
        PROVE  /\ p \in DOMAIN data
               /\ \A n \in DOMAIN index : index[n].field = "pk" /\ p \in index[n].at => Dying(V, n)
    <3>1. PICK k \in G : p = primary[k]
      BY <1>6
    <3>2. p \in DOMAIN data /\ data[p].key = k /\ k \in Keys
      BY <1>1, <1>3, <3>1
    <3>3. ASSUME NEW n \in DOMAIN index, index[n].field = "pk", p \in index[n].at
          PROVE  Dying(V, n)
      <4>1. index[n].key = k
        BY <1>1, <3>2, <3>3 DEF Leads
      <4>2. IsOf(index[n], <<"pk", k>>) /\ <<"pk", k>> \in Fields
        BY <3>2, <3>3, <4>1, FieldsAre DEF IsOf
      <4>3. n = indexAt[<<"pk", k>>]
        BY <1>11, <4>2
      <4>4. QED
        BY <1>10, <4>3
    <3>4. QED
      BY <3>2, <3>3
  <2>2. QED
    BY <1>4, <1>10, <2>1 DEF FreeingInv, V
<1>21. UniqueFileInv(index, indexAt, Range(todo))'
  <2>1. ASSUME NEW v \in Vals, ~Logging(V, <<"unique", v>>)
        PROVE  unique'[v] = IF indexAt'[<<"unique", v>>] = 0 THEN {}
                            ELSE index[indexAt'[<<"unique", v>>]].at
    <3>1. v \notin values \/ v \in E
      BY <1>10, <2>1
    <3>2. CASE v \in E
      <4>1. v \in values /\ indexAt'[<<"unique", v>>] = 0
        BY <1>8, <1>12, <3>2
      <4>2. unique'[v] = {}
        BY <1>4, <1>7, <3>2, <4>1
      <4>3. QED
        BY <4>1, <4>2
    <3>3. CASE v \notin values
      <4>1. v \notin E /\ unique'[v] = unique[v]
        BY <1>4, <1>8, <3>3
      <4>2. indexAt'[<<"unique", v>>] = indexAt[<<"unique", v>>]
        BY <1>12, <4>1
      <4>3. QED
        BY <1>1, <4>1, <4>2
    <3>4. QED
      BY <3>1, <3>2, <3>3
  <2>2. QED
    BY <1>4, <2>1 DEF UniqueFileInv, V
<1>22. ValuesInv(data, op)'
  <2>1. /\ \A j \in S : ValueIn(data, j, op)' = Absent
        /\ \A j \in Keys : j \notin S => ValueIn(data, j, op)' = OldValue(j)
    BY <1>2, <1>4, <1>5, <1>15 DEF ValueIn, OldValue, Live, Alive
  <2>2. ASSUME torn # "torn", NEW v \in Vals
        PROVE  unique'[v] = {primary'[j] : j \in {i \in Keys : ValueIn(data, i, op)' = v}}
    <3> DEFINE R == {primary'[j] : j \in {i \in Keys : ValueIn(data, i, op)' = v}}
    <3>1. unique[v] = {primary[j] : j \in {i \in Keys : OldValue(i) = v}}
      BY <2>2, AtRestIs
    <3>2. v # Absent
      BY AbsentAssumption
    <3>3. ASSUME NEW x \in R
          PROVE  x \in unique'[v]
      <4>1. PICK j \in Keys : ValueIn(data, j, op)' = v /\ x = primary'[j]
        BY <3>3
      <4>2. j \notin S /\ OldValue(j) = v /\ x = primary[j]
        BY <1>15, <2>1, <3>2, <4>1
      <4>3. x \in unique[v] /\ x \notin slots
        BY <1>2, <1>9, <3>1, <3>2, <4>2
      <4>4. QED
        BY <1>4, <4>3
    <3>4. ASSUME NEW x \in unique'[v]
          PROVE  x \in R
      <4>1. x \in unique[v] /\ (v \in values => x \notin slots)
        BY <1>4, <3>4
      <4>2. PICK j \in Keys : OldValue(j) = v /\ x = primary[j]
        BY <3>1, <4>1
      <4>3. j \notin S
        BY <1>2, <1>3, <1>6, <3>2, <4>1, <4>2
      <4>4. x = primary'[j] /\ ValueIn(data, j, op)' = v
        BY <1>15, <2>1, <4>2, <4>3
      <4>5. QED
        BY <4>4
    <3>5. QED
      BY <3>3, <3>4
  <2>3. ASSUME torn = "whole", NEW j \in Keys, NEW l \in Keys,
               ValueIn(data, j, op)' = ValueIn(data, l, op)', ValueIn(data, j, op)' # Absent
        PROVE  j = l
    <3>1. OldValue(j) = OldValue(l) /\ OldValue(j) # Absent
      BY <2>1, <2>3
    <3>2. QED
      BY <2>3, <3>1, AtRestIs
  <2>4. (torn # "torn" => \A u \in Vals :
           unique[u] = {primary[j] : j \in {i \in Keys : ValueIn(data, i, op) = u}})'
    BY <1>4, <2>2
  <2>5. (torn = "whole" => \A j, l \in Keys :
           (ValueIn(data, j, op) = ValueIn(data, l, op) /\ ValueIn(data, j, op) # Absent) => j = l)'
    BY <1>4, <2>3
  <2>6. QED
    BY <2>4, <2>5 DEF ValuesInv
<1>23. TargetInv(data, Range(todo), op)'
  BY <1>5 DEF TargetInv
<1>24. Sound(data, index, indexAt, freeIndex, Range(todo), op)'
  <2>1. EntriesInv(index, indexAt, freeIndex, Range(todo))'
    BY <1>4, <1>13 DEF EntriesInv, V
  <2>2. QED
    BY <1>14, <1>16, <1>17, <1>19, <1>20, <1>21, <1>22, <1>23, <2>1 DEF Sound
<1>25. op'.name = "none" => todo' = <<>>
  <2>1. ASSUME op'.name = "none"
        PROVE  V = {}
    <3>1. G = {}
      BY <1>4, <2>1
    <3>2. values = {} /\ E = {}
      BY <1>6, <1>8, <3>1
    <3>3. QED
      BY <1>7, <3>1, <3>2 DEF WritesOfDelete, values
  <2>2. V = {} => todo' = <<>>
    BY DEF V, Range
  <2>3. QED
    BY <2>1, <2>2
<1>26. TypeInv'
  <2>1. primary' \in [Keys -> Nat] /\ unique' \in [Vals -> SUBSET Nat] /\ indexAt' \in [Fields -> Nat]
    <3>1. \A v \in Vals : unique[v] \in SUBSET Nat
      BY <1>1 DEF TypeInv
    <3>2. QED
      BY <1>2, <1>4, <1>12, <3>1
  <2>2. blocks' \in [DOMAIN blocks' -> Nat \ {0}]
    BY <1>1, <1>4 DEF TypeInv
  <2>3. ops' \in 0 .. MaxOps /\ stops' \in 0 .. MaxStops
    BY <1>1, <1>4, DrawerBoundsAssumption DEF TypeInv
  <2>4. /\ data' \in Seq(Slots) /\ index' \in Seq(Entries)
        /\ scanned' \in BOOLEAN /\ torn' \in {"whole", "torn", "compacted"}
        /\ before' \in [Keys -> Vals \cup {Absent}]
    BY <1>1, <1>4 DEF TypeInv
  <2>5. QED
    BY <1>5, <1>18, <1>25, <2>1, <2>2, <2>3, <2>4 DEF TypeInv
<1>27. OrderInv' /\ OpenInv'
  <2>1. \A i \in DOMAIN todo' : todo'[i] \in V
    BY DEF V, Range
  <2>2. \A i \in DOMAIN todo' : /\ todo'[i].do \in {"kill", "killEntry", "log"}
                                /\ todo'[i].do = "log" => todo'[i].entry.field = "unique"
    BY <1>10, <2>1
  <2>3. QED
    BY <1>5, <2>2 DEF OrderInv, OpenInv
<1>28. QED
  BY <1>4, <1>5, <1>24, <1>26, <1>27 DEF Inv

LEMMA DeleteIs ==
  ASSUME Inv, NEW k \in Keys, Delete(k)
  PROVE  IsDeletion({k}, {k}, {})
<1> DEFINE G == {k}
           v == OldValue(k)
           a == KillData(primary[k], Known("pk", k))
           b == Log("unique", v, unique[v] \ {primary[k]}, 0)
<1>1. /\ AtRest /\ ops < MaxOps /\ Live(primary[k]) /\ todo' = <<a, b>>
      /\ indexAt' = [indexAt EXCEPT ![<<"pk", k>>] = 0]
      /\ Deleted(G, G)
  BY DEF Delete
<1>2. /\ TypeInv /\ primary[k] \in Nat /\ v \in Vals
      /\ indexAt \in [Fields -> Nat] /\ <<"pk", k>> \in Fields
      /\ unique[v] \subseteq Nat
  <2>1. TypeInv /\ primary[k] \in Nat /\ v \in Vals \cup {Absent}
    BY <1>1, AtRestIs, OldValueIs
  <2>2. primary[k] # 0 /\ v # Absent
    BY <1>1, <2>1, OldValueIs, DataParts DEF Live
  <2>3. QED
    BY <2>1, <2>2, FieldsAre DEF TypeInv
<1>3. a \in Write /\ b \in Write
  BY <1>2, WritesMade DEF Known
<1>4. SlotsOf(G) = {primary[k]} /\ ValuesOf(G) = {v}
  BY DEF SlotsOf, ValuesOf
<1>5. todo' \in Seq(Write) /\ Range(todo') = {a, b}
  <2> HIDE DEF a, b
  <2>1. todo' \in Seq(Write) /\ DOMAIN todo' = {1, 2} /\ todo'[1] = a /\ todo'[2] = b
    BY <1>1, <1>3
  <2>2. QED
    BY <2>1 DEF Range
<1>6. WritesOfDelete(Range(todo'), G, {})
  BY <1>4, <1>5 DEF WritesOfDelete
<1>7. indexAt' = EntriesAfter(G, {})
  <2>1. \A f \in Fields : f = <<"pk", k>> <=> f[1] = "pk" /\ f[2] \in G
    <3>1. /\ <<"pk", k>>[1] = "pk" /\ <<"pk", k>>[2] = k
          /\ \A f \in Fields : f[1] = "pk" => f = <<"pk", f[2]>>
      BY FieldsAre
    <3>2. QED
      BY <3>1
  <2> DEFINE g == <<"pk", k>>
  <2>2. \A f \in Fields : ((f[1] = "pk" /\ f[2] \in G) \/ (f[1] = "unique" /\ f[2] \in {})) <=> f = g
    BY <2>1
  <2>3. indexAt' = [f \in Fields |-> IF f = g THEN 0 ELSE indexAt[f]]
    BY <1>1, <1>2
  <2> HIDE DEF g, G
  <2>4. QED
    BY <2>2, <2>3 DEF EntriesAfter
<1>8. G \in SUBSET Keys /\ G = {j \in G : Live(primary[j])} /\ {} \in SUBSET ValuesOf(G)
  BY <1>1
<1> HIDE DEF G, a, b, v
<1>9. IsDeletion(G, G, {})
  BY <1>1, <1>5, <1>6, <1>7, <1>8 DEF IsDeletion
<1>10. QED
  BY <1>9 DEF G

LEMMA DeleteSetIs ==
  ASSUME Inv, NEW S \in SUBSET Keys, DeleteSet(S)
  PROVE  \E G, E : IsDeletion(S, G, E)
<1> DEFINE G == {k \in S : Live(primary[k])}
           values == ValuesOf(G)
           slots == SlotsOf(G)
           E == {v \in values : unique[v] \subseteq slots}
           logged == values \ {v \in E : Known("unique", v) = 0}
           K(k) == KillData(primary[k], Known("pk", k))
           C(v) == IF v \in E THEN KillEntry(Known("unique", v))
                   ELSE Log("unique", v, unique[v] \ slots, 0)
<1>1. /\ AtRest /\ ops < MaxOps /\ Deleted(S, G)
      /\ \E ks \in SetToSeqs(G), vs \in SetToSeqs(logged) :
           todo' = [i \in DOMAIN ks |-> K(ks[i])] \o [i \in DOMAIN vs |-> C(vs[i])]
      /\ indexAt' = [f \in Fields |->
           IF \/ f[1] = "pk" /\ f[2] \in G
              \/ f[1] = "unique" /\ f[2] \in E
           THEN 0 ELSE indexAt[f]]
  BY DEF DeleteSet, ValuesOf, SlotsOf
<1>2. /\ TypeInv /\ \A k \in Keys : primary[k] \in Nat
      /\ \A k \in G : OldValue(k) \in Vals
      /\ \A f \in Fields : indexAt[f] \in Nat
      /\ \A v \in Vals : unique[v] \subseteq Nat
  <2>1. TypeInv /\ \A k \in Keys : primary[k] \in Nat /\ OldValue(k) \in Vals \cup {Absent}
    BY <1>1, AtRestIs, OldValueIs
  <2>2. \A k \in G : OldValue(k) # Absent
    <3>1. \A k \in G : primary[k] # 0
      BY <2>1, DataParts DEF Live
    <3>2. QED
      BY <1>1, <3>1, OldValueIs
  <2>3. QED
    BY <2>1, <2>2 DEF TypeInv
<1>3. /\ G \subseteq Keys /\ values \subseteq Vals /\ logged \subseteq values
      /\ E \subseteq values
  BY <1>2 DEF ValuesOf
<1>4. IsFiniteSet(G) /\ IsFiniteSet(logged)
  <2>1. IsFiniteSet(G)
    BY <1>3, KeysAssumption, FS_Subset
  <2>2. IsFiniteSet(values)
    <3> DEFINE f == [k \in G |-> OldValue(k)]
    <3>1. f \in Surjection(G, values)
      BY DEF Surjection, ValuesOf
    <3>2. QED
      BY <2>1, <3>1, FS_Surjection
  <2>3. QED
    BY <1>3, <2>1, <2>2, FS_Subset
<1>5. /\ \A k \in G : K(k) \in Write
      /\ \A v \in logged : C(v) \in Write
  <2>1. /\ \A k \in Keys : Known("pk", k) \in Nat
        /\ \A v \in Vals : Known("unique", v) \in Nat
    BY <1>2, FieldsAre DEF Known
  <2>2. \A k \in G : K(k) \in Write
    BY <1>2, <1>3, <2>1, WritesMade
  <2>3. ASSUME NEW v \in logged
        PROVE  C(v) \in Write
    <3>1. v \in Vals
      BY <1>3
    <3>2. Known("unique", v) \in Nat /\ unique[v] \ slots \in SUBSET Nat
      BY <1>2, <2>1, <3>1
    <3>3. KillEntry(Known("unique", v)) \in Write /\ Log("unique", v, unique[v] \ slots, 0) \in Write
      BY <3>1, <3>2, WritesMade
    <3>4. QED
      BY <3>3
  <2>4. QED
    BY <2>2, <2>3
<1>6. /\ \A v \in logged : v \in E => C(v) = KillEntry(Known("unique", v)) /\ Known("unique", v) # 0
      /\ \A v \in logged : v \notin E => C(v) = Log("unique", v, unique[v] \ slots, 0)
      /\ \A v \in values : v \in logged <=> (v \in E => Known("unique", v) # 0)
      /\ \A k \in G : K(k) = KillData(primary[k], Known("pk", k))
  OBVIOUS
<1>7. \A v \in E : unique[v] \subseteq SlotsOf(G)
  OBVIOUS
<1>8. G \in SUBSET S /\ G = {k \in S : Live(primary[k])}
  OBVIOUS
<1> HIDE DEF K, C, G, values, slots, E, logged
<1>9. PICK ks \in SetToSeqs(G), vs \in SetToSeqs(logged) :
        todo' = [i \in DOMAIN ks |-> K(ks[i])] \o [i \in DOMAIN vs |-> C(vs[i])]
  BY <1>1
<1> DEFINE A == [i \in DOMAIN ks |-> K(ks[i])]
           B == [i \in DOMAIN vs |-> C(vs[i])]
<1>10. A \in Seq(Write) /\ Range(A) = {K(k) : k \in G}
  <2>1. /\ DOMAIN ks = 1 .. Len(ks) /\ ks \in Seq(G)
        /\ \A k \in G : \E i \in DOMAIN ks : ks[i] = k
        /\ \A i \in DOMAIN ks : ks[i] \in G
    BY <1>4, <1>9, SeqsOfSet
  <2>2. Len(ks) \in Nat
    BY <2>1
  <2>3. A \in Seq(Write)
    BY <1>5, <2>1, <2>2
  <2>4. Range(A) = {K(k) : k \in G}
    BY <2>1 DEF Range
  <2>5. QED
    BY <2>3, <2>4
<1>11. B \in Seq(Write) /\ Range(B) = {C(v) : v \in logged}
  <2>1. /\ DOMAIN vs = 1 .. Len(vs) /\ vs \in Seq(logged)
        /\ \A v \in logged : \E i \in DOMAIN vs : vs[i] = v
        /\ \A i \in DOMAIN vs : vs[i] \in logged
    BY <1>4, <1>9, SeqsOfSet
  <2>2. Len(vs) \in Nat
    BY <2>1
  <2>3. B \in Seq(Write)
    BY <1>5, <2>1, <2>2
  <2>4. Range(B) = {C(v) : v \in logged}
    BY <2>1 DEF Range
  <2>5. QED
    BY <2>3, <2>4
<1> HIDE DEF A, B
<1>12. todo' \in Seq(Write) /\ Range(todo') = {K(k) : k \in G} \cup {C(v) : v \in logged}
  <2>1. A \o B \in Seq(Write) /\ IsJoined(A \o B, A, B)
    BY <1>10, <1>11, Joined
  <2>2. todo' = A \o B
    BY <1>9 DEF A, B
  <2>3. QED
    BY <1>10, <1>11, <2>1, <2>2 DEF IsJoined
<1>13. WritesOfDelete(Range(todo'), G, E)
  <2>1. \A k \in G : KillData(primary[k], Known("pk", k)) \in Range(todo')
    BY <1>6, <1>12
  <2>2. \A v \in E : Known("unique", v) # 0 => KillEntry(Known("unique", v)) \in Range(todo')
    BY <1>3, <1>6, <1>12
  <2>3. \A v \in values \ E : Log("unique", v, unique[v] \ slots, 0) \in Range(todo')
    BY <1>6, <1>12
  <2>4. ASSUME NEW w \in Range(todo')
        PROVE  \/ \E k \in G : w = KillData(primary[k], Known("pk", k))
               \/ \E v \in E : Known("unique", v) # 0 /\ w = KillEntry(Known("unique", v))
               \/ \E v \in values \ E : w = Log("unique", v, unique[v] \ slots, 0)
    <3>1. CASE \E k \in G : w = K(k)
      BY <1>6, <3>1
    <3>2. CASE \E v \in logged : w = C(v)
      BY <1>3, <1>6, <3>2
    <3>3. QED
      BY <1>12, <3>1, <3>2
  <2>5. QED
    BY <2>1, <2>2, <2>3, <2>4 DEF WritesOfDelete, values, slots
<1>14. indexAt' = EntriesAfter(G, E)
  BY <1>1 DEF EntriesAfter
<1>15. E \in SUBSET ValuesOf(G)
  BY <1>3 DEF values
<1>16. QED
  BY <1>1, <1>7, <1>8, <1>12, <1>13, <1>14, <1>15 DEF IsDeletion

---------------------------------------------------------------------------
(* A vacuum.                                                               *)

(* The files a vacuum writes: C has the records, each once, and X leads to *)
(* them.                                                                   *)
RecordsOnce(C) ==
  /\ C \in Seq(Slots)
  /\ \A i \in DOMAIN C : /\ C[i] \in LiveSlot /\ primary[C[i].key] # 0
                         /\ C[i].val = OldValue(C[i].key)
  /\ \A i, j \in DOMAIN C : C[i].key = C[j].key => i = j
  /\ \A k \in Keys : primary[k] # 0 => \E i \in DOMAIN C : C[i].key = k
EntriesOnce(C, X) ==
  /\ X \in Seq(Entries)
  /\ \A n \in DOMAIN X :
       \/ /\ n \in DOMAIN C /\ X[n].field = "pk" /\ X[n].key = C[n].key
          /\ X[n].at = {n} /\ X[n].size = C[n].size
       \/ /\ X[n].field = "unique"
          /\ X[n].at = {i \in DOMAIN C : C[i].val = X[n].key}
  /\ \A i \in DOMAIN C : i \in DOMAIN X /\ X[i].field = "pk" /\ X[i].key = C[i].key
  /\ \A i \in DOMAIN C : \E n \in DOMAIN X : X[n].field = "unique" /\ X[n].key = C[i].val
  /\ \A n, m \in DOMAIN X : X[n].field = X[m].field /\ X[n].key = X[m].key => n = m

LEMMA CompactedIs ==
  ASSUME Inv, AtRest
  PROVE  RecordsOnce(Compacted)
<1> DEFINE P == {primary[k] : k \in {j \in Keys : Live(primary[j])}}
           s == InOrder(P)
           C == [i \in DOMAIN s |-> [data[s[i]] EXCEPT !.size = Length[data[s[i]].val]]]
<1>1. /\ TypeInv
      /\ \A j \in Keys : primary[j] # 0 =>
           /\ primary[j] \in DOMAIN data
           /\ Alive(data, primary[j]) /\ data[primary[j]].key = j
  BY AtRestIs
<1>2. /\ DOMAIN data = 1 .. Len(data) /\ Len(data) \in Nat
      /\ \A o \in DOMAIN data : data[o] \in Slots /\ o # 0
  BY <1>1, DataParts
<1>3. \A k \in Keys : Live(primary[k]) <=> primary[k] # 0
  BY <1>1, <1>2 DEF Live, Alive
<1>4. /\ \A p \in P : \E k \in Keys : primary[k] # 0 /\ p = primary[k]
      /\ \A k \in Keys : primary[k] # 0 => primary[k] \in P
  BY <1>3
<1>5. P \in SUBSET Nat /\ IsFiniteSet(P)
  <2>1. P \subseteq 1 .. Len(data)
    BY <1>1, <1>2, <1>4
  <2>2. IsFiniteSet(1 .. Len(data)) /\ 1 .. Len(data) \subseteq Nat
    BY <1>2, FS_Interval
  <2>3. QED
    BY <2>1, <2>2, FS_Subset
<1> HIDE DEF P
<1>6. /\ s \in Seq(P) /\ DOMAIN s = 1 .. Len(s) /\ Len(s) \in Nat
      /\ \A i, j \in DOMAIN s : s[i] = s[j] => i = j
      /\ \A x \in P : \E i \in DOMAIN s : s[i] = x
      /\ \A i \in DOMAIN s : s[i] \in P
  <2>1. /\ s \in Seq(P) /\ DOMAIN s = 1 .. Len(s)
        /\ \A i, j \in DOMAIN s : s[i] = s[j] => i = j
        /\ \A x \in P : \E i \in DOMAIN s : s[i] = x
        /\ \A i \in DOMAIN s : s[i] \in P
    BY <1>5, InOrderIs
  <2>2. QED
    BY <2>1
<1> HIDE DEF s
<1>7. ASSUME NEW i \in DOMAIN s
      PROVE  /\ C[i] \in LiveSlot /\ C[i].key = data[s[i]].key
             /\ primary[C[i].key] = s[i] /\ s[i] # 0
             /\ C[i].val = OldValue(C[i].key)
  <2>1. PICK k \in Keys : primary[k] # 0 /\ s[i] = primary[k]
    BY <1>4, <1>6
  <2>2. /\ s[i] \in DOMAIN data /\ data[s[i]] \in Slots /\ data[s[i]].key = k
        /\ k # Absent /\ Live(primary[k])
    BY <1>1, <1>2, <1>3, <2>1, AbsentAssumption
  <2>3. /\ data[s[i]].val \in Vals /\ Length[data[s[i]].val] \in Nat \ {0}
        /\ data[s[i]] = [size |-> data[s[i]].size, key |-> k, val |-> data[s[i]].val]
    BY <2>2, SlotParts, SizesPositive
  <2> DEFINE v == data[s[i]].val
  <2>4. C[i] = [size |-> Length[v], key |-> k, val |-> v]
    <3>1. C[i] = [data[s[i]] EXCEPT !.size = Length[v]]
      OBVIOUS
    <3> HIDE DEF v
    <3>2. \A m, n, a, b : [[size |-> m, key |-> a, val |-> b] EXCEPT !.size = n]
                            = [size |-> n, key |-> a, val |-> b]
      OBVIOUS
    <3>3. QED
      BY <2>3, <3>1, <3>2 DEF v
  <2>5. C[i] \in LiveSlot /\ C[i].key = k /\ C[i].val = v
    BY <2>3, <2>4 DEF LiveSlot
  <2>6. OldValue(k) = v
    BY <2>1, <2>2 DEF OldValue
  <2> HIDE DEF C, v
  <2>7. QED
    BY <2>1, <2>2, <2>5, <2>6
<1>8. DOMAIN C = DOMAIN s /\ C \in Seq(Slots)
  <2>1. DOMAIN C = DOMAIN s /\ C = [i \in 1 .. Len(s) |-> C[i]]
    BY <1>6
  <2>2. \A i \in 1 .. Len(s) : C[i] \in Slots
    BY <1>6, <1>7 DEF Slots
  <2> HIDE DEF C
  <2>3. QED
    BY <1>6, <2>1, <2>2
<1>9. Compacted = C
  BY DEF Compacted, s, P
<1> HIDE DEF C
<1>10. \A i, j \in DOMAIN C : C[i].key = C[j].key => i = j
  BY <1>6, <1>7, <1>8
<1>11. ASSUME NEW k \in Keys, primary[k] # 0
       PROVE  \E i \in DOMAIN C : C[i].key = k
  <2>1. PICK i \in DOMAIN s : s[i] = primary[k]
    BY <1>4, <1>6, <1>11
  <2>2. C[i].key = k
    BY <1>1, <1>7, <1>11, <2>1
  <2>3. QED
    BY <1>8, <2>2
<1>12. QED
  BY <1>7, <1>8, <1>9, <1>10, <1>11 DEF RecordsOnce

LEMMA CompactedIndexIs ==
  ASSUME RecordsOnce(Compacted)
  PROVE  EntriesOnce(Compacted, CompactedIndex)
<1> DEFINE C == Compacted
           P == {C[i].val : i \in DOMAIN C}
           vs == InOrder(P)
           Pk(i) == [field |-> "pk", key |-> C[i].key, at |-> {i}, size |-> C[i].size]
           Un(v) == [field |-> "unique", key |-> v, size |-> 0,
                     at |-> {i \in DOMAIN C : C[i].val = v}]
           A == [i \in DOMAIN C |-> Pk(i)]
           B == [j \in DOMAIN vs |-> Un(vs[j])]
           X == CompactedIndex
<1>1. X = A \o B
  BY DEF CompactedIndex
<1>2. /\ C \in Seq(Slots) /\ \A i \in DOMAIN C : C[i] \in LiveSlot
      /\ \A i, j \in DOMAIN C : C[i].key = C[j].key => i = j
  BY DEF RecordsOnce
<1> HIDE DEF C, X
<1>3. /\ DOMAIN C = 1 .. Len(C) /\ Len(C) \in Nat
      /\ \A i \in DOMAIN C : C[i].key \in Keys /\ C[i].val \in Vals /\ C[i].size \in Nat
  BY <1>2 DEF LiveSlot
<1>4. P \in SUBSET Nat /\ IsFiniteSet(P) /\ P \subseteq Vals
  <2>1. P \subseteq Vals /\ Vals \subseteq Nat
    BY <1>3, ValsAssumption
  <2> DEFINE f == [i \in DOMAIN C |-> C[i].val]
  <2>2. f \in Surjection(DOMAIN C, P)
    BY DEF Surjection
  <2>3. IsFiniteSet(DOMAIN C)
    BY <1>3, FS_Interval
  <2> HIDE DEF f, P
  <2>4. IsFiniteSet(P)
    BY <2>2, <2>3, FS_Surjection
  <2>5. QED
    BY <2>1, <2>4
<1>5. \A i \in DOMAIN C : C[i].val \in P
  OBVIOUS
<1>6. /\ \A i : Pk(i).field = "pk" /\ Pk(i).key = C[i].key /\ Pk(i).at = {i} /\ Pk(i).size = C[i].size
      /\ \A v : Un(v).field = "unique" /\ Un(v).key = v /\ Un(v).at = {i \in DOMAIN C : C[i].val = v}
  OBVIOUS
<1>7. /\ \A i \in DOMAIN C : Pk(i) \in Entries
      /\ \A v \in P : Un(v) \in Entries
  <2>1. \A i \in DOMAIN C : i \in Nat
    BY <1>3
  <2>2. \A i \in DOMAIN C : Pk(i) \in PkEntry
    BY <1>3, <2>1 DEF PkEntry
  <2>3. \A v \in P : Un(v) \in UniqueEntry
    BY <1>4, <2>1 DEF UniqueEntry
  <2>4. QED
    BY <2>2, <2>3 DEF Entries
<1> HIDE DEF P, Pk, Un
<1>8. /\ vs \in Seq(P) /\ DOMAIN vs = 1 .. Len(vs) /\ Len(vs) \in Nat
      /\ \A i, j \in DOMAIN vs : vs[i] = vs[j] => i = j
      /\ \A x \in P : \E i \in DOMAIN vs : vs[i] = x
      /\ \A i \in DOMAIN vs : vs[i] \in P
  <2>1. /\ vs \in Seq(P) /\ DOMAIN vs = 1 .. Len(vs)
        /\ \A i, j \in DOMAIN vs : vs[i] = vs[j] => i = j
        /\ \A x \in P : \E i \in DOMAIN vs : vs[i] = x
        /\ \A i \in DOMAIN vs : vs[i] \in P
    BY <1>4, InOrderIs
  <2>2. QED
    BY <2>1
<1> HIDE DEF vs
<1>9. /\ A \in Seq(Entries) /\ B \in Seq(Entries)
      /\ DOMAIN A = DOMAIN C /\ DOMAIN B = DOMAIN vs /\ Len(A) = Len(C) /\ Len(B) = Len(vs)
      /\ \A i \in DOMAIN A : A[i] = Pk(i)
      /\ \A j \in DOMAIN B : B[j] = Un(vs[j])
  <2>1. A \in Seq(Entries) /\ DOMAIN A = 1 .. Len(C)
    BY <1>3, <1>7
  <2>2. B \in Seq(Entries) /\ DOMAIN B = 1 .. Len(vs)
    BY <1>7, <1>8
  <2>3. /\ \A i \in DOMAIN A : A[i] = Pk(i)
        /\ \A j \in DOMAIN B : B[j] = Un(vs[j])
    OBVIOUS
  <2> HIDE DEF A, B
  <2>4. Len(A) = Len(C) /\ Len(B) = Len(vs)
    BY <1>3, <1>8, <2>1, <2>2
  <2>5. QED
    BY <1>3, <1>8, <2>1, <2>2, <2>3, <2>4
<1> HIDE DEF A, B
<1>10. /\ X \in Seq(Entries) /\ DOMAIN X = 1 .. (Len(C) + Len(vs))
       /\ \A n \in DOMAIN X : X[n] = IF n \in DOMAIN C THEN Pk(n) ELSE Un(vs[n - Len(C)])
       /\ \A n \in DOMAIN X : n \notin DOMAIN C => n - Len(C) \in DOMAIN vs
       /\ \A j \in DOMAIN vs : j + Len(C) \in DOMAIN X /\ X[j + Len(C)] = Un(vs[j])
       /\ \A i \in DOMAIN C : i \in DOMAIN X
  <2>1. /\ X \in Seq(Entries) /\ DOMAIN X = 1 .. (Len(C) + Len(vs))
        /\ \A n \in DOMAIN X : X[n] = IF n <= Len(C) THEN A[n] ELSE B[n - Len(C)]
    <3>1. A \in Seq(Entries) /\ B \in Seq(Entries)
      BY <1>9
    <3>2. /\ A \o B \in Seq(Entries) /\ DOMAIN (A \o B) = 1 .. (Len(A) + Len(B))
          /\ \A n \in DOMAIN (A \o B) : (A \o B)[n] = IF n <= Len(A) THEN A[n] ELSE B[n - Len(A)]
      BY <3>1
    <3>3. Len(A) = Len(C) /\ Len(B) = Len(vs)
      BY <1>9
    <3>4. QED
      BY <1>1, <3>2, <3>3
  <2>2. /\ \A n \in DOMAIN X : n <= Len(C) <=> n \in DOMAIN C
        /\ \A n \in DOMAIN X : n \notin DOMAIN C => n - Len(C) \in DOMAIN vs
        /\ \A j \in DOMAIN vs : /\ j + Len(C) \in DOMAIN X /\ ~(j + Len(C) <= Len(C))
                                /\ j + Len(C) - Len(C) = j
        /\ \A i \in DOMAIN C : i \in DOMAIN X
    BY <1>3, <1>8, <2>1
  <2>3. \A n \in DOMAIN X : X[n] = IF n \in DOMAIN C THEN Pk(n) ELSE Un(vs[n - Len(C)])
    BY <1>9, <2>1, <2>2
  <2>4. \A j \in DOMAIN vs : X[j + Len(C)] = Un(vs[j])
    BY <1>9, <2>1, <2>2
  <2>5. QED
    BY <2>1, <2>2, <2>3, <2>4
<1>11. \A n \in DOMAIN X :
         \/ /\ n \in DOMAIN C /\ X[n].field = "pk" /\ X[n].key = C[n].key
            /\ X[n].at = {n} /\ X[n].size = C[n].size
         \/ /\ n \notin DOMAIN C /\ X[n].field = "unique" /\ X[n].key = vs[n - Len(C)]
            /\ X[n].at = {i \in DOMAIN C : C[i].val = X[n].key}
  <2>1. TAKE n \in DOMAIN X
  <2>2. CASE n \in DOMAIN C
    BY <1>6, <1>10, <2>2
  <2>3. CASE n \notin DOMAIN C
    <3>1. X[n] = Un(vs[n - Len(C)])
      BY <1>10, <2>3
    <3>2. X[n].field = "unique" /\ X[n].key = vs[n - Len(C)]
      BY <1>6, <3>1
    <3>3. X[n].at = {i \in DOMAIN C : C[i].val = X[n].key}
      BY <1>6, <3>1, <3>2
    <3>4. QED
      BY <2>3, <3>2, <3>3
  <2>4. QED
    BY <2>2, <2>3
<1>12. \A i \in DOMAIN C : \E n \in DOMAIN X : X[n].field = "unique" /\ X[n].key = C[i].val
  <2>1. TAKE i \in DOMAIN C
  <2>2. PICK j \in DOMAIN vs : vs[j] = C[i].val
    BY <1>5, <1>8
  <2>3. j + Len(C) \in DOMAIN X /\ X[j + Len(C)] = Un(C[i].val)
    BY <1>10, <2>2
  <2>4. QED
    BY <1>6, <2>3
<1>13. ASSUME NEW n \in DOMAIN X, NEW m \in DOMAIN X, X[n].field = X[m].field, X[n].key = X[m].key
       PROVE  n = m
  <2>1. CASE n \in DOMAIN C
    <3>1. m \in DOMAIN C /\ C[n].key = C[m].key
      BY <1>11, <1>13, <2>1
    <3>2. QED
      BY <1>2, <2>1, <3>1
  <2>2. CASE n \notin DOMAIN C
    <3>1. m \notin DOMAIN C /\ vs[n - Len(C)] = vs[m - Len(C)]
      BY <1>11, <1>13, <2>2
    <3>2. n - Len(C) = m - Len(C)
      BY <1>8, <1>10, <2>2, <3>1
    <3>3. n \in Int /\ m \in Int
      BY <1>10
    <3>4. QED
      BY <1>3, <3>2, <3>3
  <2>3. QED
    BY <2>1, <2>2
<1>14. \A i \in DOMAIN C : i \in DOMAIN X /\ X[i].field = "pk" /\ X[i].key = C[i].key
  BY <1>6, <1>10
<1>15. EntriesOnce(C, X)
  BY <1>10, <1>11, <1>12, <1>13, <1>14 DEF EntriesOnce
<1>16. QED
  BY <1>15 DEF C, X

LEMMA TwoAndTwo ==
  ASSUME NEW a, NEW b, NEW c, NEW d
  PROVE  <<a, b>> \o <<c, d>> = <<a, b, c, d>>
<1> DEFINE S == {a, b, c, d}
           s == <<a, b>>
           t == <<c, d>>
           u == <<a, b, c, d>>
<1>1. /\ s \in Seq(S) /\ t \in Seq(S) /\ u \in Seq(S)
      /\ Len(s) = 2 /\ Len(t) = 2 /\ Len(u) = 4
      /\ s[1] = a /\ s[2] = b /\ t[1] = c /\ t[2] = d
      /\ u[1] = a /\ u[2] = b /\ u[3] = c /\ u[4] = d
  OBVIOUS
<1> HIDE DEF s, t, u
<1>2. /\ s \o t \in Seq(S) /\ Len(s \o t) = 4
      /\ (s \o t)[1] = a /\ (s \o t)[2] = b /\ (s \o t)[3] = c /\ (s \o t)[4] = d
  <2>1. s \in Seq(S) /\ t \in Seq(S)
    BY <1>1
  <2>2. /\ s \o t \in Seq(S) /\ Len(s \o t) = Len(s) + Len(t)
        /\ \A i \in 1 .. (Len(s) + Len(t)) :
             (s \o t)[i] = IF i <= Len(s) THEN s[i] ELSE t[i - Len(s)]
    BY <2>1
  <2>3. \A i \in 1 .. 4 : (s \o t)[i] = IF i <= 2 THEN s[i] ELSE t[i - 2]
    BY <1>1, <2>2
  <2> DEFINE r == s \o t
  <2> HIDE DEF r
  <2>4. \A i \in 1 .. 4 : r[i] = IF i <= 2 THEN s[i] ELSE t[i - 2]
    BY <2>3 DEF r
  <2>5. r[1] = s[1] /\ r[2] = s[2]
    BY <2>4
  <2>6. r[3] = t[3 - 2] /\ r[4] = t[4 - 2] /\ 3 - 2 = 1 /\ 4 - 2 = 2
    BY <2>4
  <2>7. Len(r) = 4 /\ r \in Seq(S)
    BY <1>1, <2>2 DEF r
  <2>8. QED
    BY <1>1, <2>5, <2>6, <2>7 DEF r
<1> DEFINE r == s \o t
<1> HIDE DEF r, S
<1>3. \A i \in 1 .. 4 : r[i] = u[i]
  <2>1. \A i \in 1 .. 4 : i = 1 \/ i = 2 \/ i = 3 \/ i = 4
    OBVIOUS
  <2>2. QED
    BY <1>1, <1>2, <2>1 DEF r
<1>4. r = u
  BY <1>1, <1>2, <1>3 DEF r
<1>5. QED
  BY <1>4 DEF r, s, t, u

(* A set with one number, or none.                                         *)
LEMMA MaxOfOne ==
  ASSUME NEW N \in Nat, NEW S \in SUBSET (1 .. N), \A x, y \in S : x = y,
         NEW m, m = IF S = {} THEN 0 ELSE Max(S)
  PROVE  /\ m \in Nat
         /\ m = 0 => S = {}
         /\ m # 0 => m \in S
         /\ \A x \in S : x = m
<1>1. CASE S = {}
  BY <1>1
<1>2. CASE S # {}
  <2>1. Max(S) \in S
    BY <1>2, MaxIs
  <2>2. m \in S
    BY <1>2, <2>1
  <2>3. QED
    BY <2>2
<1>3. QED
  BY <1>1, <1>2

(* A vacuum has in memory what it writes.                                  *)
LEMMA VacuumKeepsInv ==
  ASSUME Inv, Vacuum
  PROVE  Inv'
<1>1. /\ AtRest /\ ops < MaxOps
      /\ op' = [name |-> "vacuum", keys |-> {}, val |-> Absent]
      /\ torn' = IF torn = "whole" THEN "whole" ELSE "compacted"
      /\ before' = Records
      /\ ops' = ops + 1
      /\ free' = {} /\ freeIndex' = {} /\ scanned' = TRUE
      /\ UNCHANGED <<files, stops>>
  BY DEF Vacuum, VacuumFree
<1>2. RecordsOnce(Compacted) /\ EntriesOnce(Compacted, CompactedIndex)
  BY <1>1, CompactedIs, CompactedIndexIs
<1>3. PICK C : C = Compacted
  OBVIOUS
<1>4. PICK X : X = CompactedIndex
  OBVIOUS
<1> DEFINE SlotOf(k) == {i \in DOMAIN C : C[i].key = k}
           EntriesAt(f) == {n \in DOMAIN X : X[n].field = f[1] /\ X[n].key = f[2]}
<1>5. /\ todo' = Rewrite("data", C) \o Rewrite("index", X)
      /\ primary' = [k \in Keys |-> IF SlotOf(k) = {} THEN 0 ELSE Max(SlotOf(k))]
      /\ unique' = [v \in Vals |-> {i \in DOMAIN C : C[i].val = v}]
      /\ indexAt' = [f \in Fields |-> IF EntriesAt(f) = {} THEN 0 ELSE Max(EntriesAt(f))]
      /\ blocks' = [i \in DOMAIN C |-> C[i].size]
  BY <1>3, <1>4 DEF Vacuum
<1>6. /\ C \in Seq(Slots)
      /\ \A i \in DOMAIN C : /\ C[i] \in LiveSlot /\ primary[C[i].key] # 0
                             /\ C[i].val = OldValue(C[i].key)
      /\ \A i, j \in DOMAIN C : C[i].key = C[j].key => i = j
  BY <1>2, <1>3 DEF RecordsOnce
<1>7. /\ X \in Seq(Entries)
      /\ \A n \in DOMAIN X :
           \/ /\ n \in DOMAIN C /\ X[n].field = "pk" /\ X[n].key = C[n].key
              /\ X[n].at = {n} /\ X[n].size = C[n].size
           \/ /\ X[n].field = "unique"
              /\ X[n].at = {i \in DOMAIN C : C[i].val = X[n].key}
      /\ \A i \in DOMAIN C : i \in DOMAIN X /\ X[i].field = "pk" /\ X[i].key = C[i].key
      /\ \A i \in DOMAIN C : \E n \in DOMAIN X : X[n].field = "unique" /\ X[n].key = C[i].val
      /\ \A n, m \in DOMAIN X : X[n].field = X[m].field /\ X[n].key = X[m].key => n = m
  BY <1>2, <1>3, <1>4 DEF EntriesOnce
<1>8. /\ DOMAIN C = 1 .. Len(C) /\ Len(C) \in Nat
      /\ DOMAIN X = 1 .. Len(X) /\ Len(X) \in Nat
      /\ \A i \in DOMAIN C : /\ C[i].key \in Keys /\ C[i].key # Absent
                             /\ C[i].val \in Vals /\ C[i].size \in Nat \ {0} /\ i # 0
      /\ \A n \in DOMAIN X : n # 0
  <2>1. DOMAIN C = 1 .. Len(C) /\ Len(C) \in Nat /\ DOMAIN X = 1 .. Len(X) /\ Len(X) \in Nat
    BY <1>6, <1>7
  <2>2. \A i \in DOMAIN C : /\ C[i].key \in Keys /\ C[i].key # Absent
                            /\ C[i].val \in Vals /\ C[i].size \in Nat \ {0}
    BY <1>6, AbsentAssumption DEF LiveSlot
  <2>3. QED
    BY <2>1, <2>2
<1>9. ASSUME NEW k \in Keys
      PROVE  /\ primary'[k] \in Nat
             /\ primary'[k] = 0 => \A i \in DOMAIN C : C[i].key # k
             /\ primary'[k] # 0 => primary'[k] \in DOMAIN C /\ C[primary'[k]].key = k
             /\ \A i \in DOMAIN C : C[i].key = k => primary'[k] = i
  <2> DEFINE S == SlotOf(k)
  <2>1. /\ S \in SUBSET (1 .. Len(C)) /\ (\A x, y \in S : x = y)
        /\ primary'[k] = IF S = {} THEN 0 ELSE Max(S)
        /\ \A i : i \in S <=> i \in DOMAIN C /\ C[i].key = k
    BY <1>5, <1>6, <1>8
  <2> HIDE DEF S
  <2>2. /\ primary'[k] \in Nat
        /\ primary'[k] = 0 => S = {}
        /\ primary'[k] # 0 => primary'[k] \in S
        /\ \A x \in S : x = primary'[k]
    BY <1>8, <2>1, MaxOfOne
  <2>3. QED
    BY <2>1, <2>2
<1>10. ASSUME NEW f \in Fields
       PROVE  /\ indexAt'[f] \in Nat
              /\ indexAt'[f] = 0 => \A n \in DOMAIN X : ~IsOf(X[n], f)
              /\ indexAt'[f] # 0 => indexAt'[f] \in DOMAIN X /\ IsOf(X[indexAt'[f]], f)
              /\ \A n \in DOMAIN X : IsOf(X[n], f) => indexAt'[f] = n
  <2> DEFINE S == EntriesAt(f)
  <2>1. /\ S \in SUBSET (1 .. Len(X)) /\ (\A x, y \in S : x = y)
        /\ indexAt'[f] = IF S = {} THEN 0 ELSE Max(S)
        /\ \A i : i \in S <=> i \in DOMAIN X /\ IsOf(X[i], f)
    <3>1. \A i : i \in S <=> i \in DOMAIN X /\ X[i].field = f[1] /\ X[i].key = f[2]
      OBVIOUS
    <3>2. indexAt'[f] = IF S = {} THEN 0 ELSE Max(S)
      BY <1>5
    <3> HIDE DEF S
    <3>3. S \in SUBSET (1 .. Len(X)) /\ (\A x, y \in S : x = y)
      BY <1>7, <1>8, <3>1
    <3>4. QED
      BY <3>1, <3>2, <3>3 DEF IsOf
  <2> HIDE DEF S
  <2>2. /\ indexAt'[f] \in Nat
        /\ indexAt'[f] = 0 => S = {}
        /\ indexAt'[f] # 0 => indexAt'[f] \in S
        /\ \A x \in S : x = indexAt'[f]
    BY <1>8, <2>1, MaxOfOne
  <2>3. QED
    BY <2>1, <2>2
<1> HIDE DEF SlotOf, EntriesAt
<1>11. /\ ~\E n : Dying({}, n)
       /\ ~\E o : Freeing({}, o)
       /\ ~\E o : Putting({}, o)
       /\ ~\E k : PuttingFor({}, k)
       /\ ~\E f : Logging({}, f)
  BY DEF Dying, Freeing, Putting, PuttingFor, Logging
<1>12. EntriesInv(X, indexAt', {}, {})
  BY <1>10, <1>11 DEF EntriesInv
<1>13. FilesInv(C, X, {}, op)'
  <2>1. ASSUME NEW n \in DOMAIN X, X[n].field = "pk"
        PROVE  Leads(C, X[n])
    BY <1>7, <2>1 DEF Leads
  <2>2. QED
    BY <2>1 DEF FilesInv
<1>14. PrimaryInv(C, X, indexAt, {})'
  <2>1. ASSUME NEW k \in Keys
        PROVE  /\ IF indexAt'[<<"pk", k>>] = 0 THEN primary'[k] = 0
                  ELSE primary'[k] # 0 /\ X[indexAt'[<<"pk", k>>]].at = {primary'[k]}
               /\ primary'[k] # 0 => /\ primary'[k] \in DOMAIN blocks'
                                     /\ Alive(C, primary'[k]) /\ C[primary'[k]].key = k
    <3> DEFINE f == <<"pk", k>>
    <3>1. f \in Fields /\ \A e : IsOf(e, f) <=> e.field = "pk" /\ e.key = k
      BY FieldsAre DEF IsOf
    <3> HIDE DEF f
    <3>2. CASE indexAt'[f] = 0
      <4>1. \A i \in DOMAIN C : C[i].key # k
        BY <1>7, <1>10, <3>1, <3>2
      <4>2. primary'[k] = 0
        BY <1>9, <4>1
      <4>3. QED
        BY <3>2, <4>2 DEF f
    <3>3. CASE indexAt'[f] # 0
      <4>1. indexAt'[f] \in DOMAIN X /\ X[indexAt'[f]].field = "pk" /\ X[indexAt'[f]].key = k
        BY <1>10, <3>1, <3>3
      <4>2. /\ indexAt'[f] \in DOMAIN C /\ C[indexAt'[f]].key = k
            /\ X[indexAt'[f]].at = {indexAt'[f]}
        BY <1>7, <4>1
      <4>3. primary'[k] = indexAt'[f]
        BY <1>9, <4>2
      <4>4. primary'[k] \in DOMAIN blocks' /\ Alive(C, primary'[k]) /\ C[primary'[k]].key = k
        BY <1>5, <1>8, <4>2, <4>3 DEF Alive
      <4>5. QED
        BY <3>3, <4>2, <4>3, <4>4 DEF f
    <3>4. QED
      BY <3>2, <3>3
  <2>2. QED
    BY <1>11, <2>1 DEF PrimaryInv
<1>15. PutInv(C, {}, op)' /\ LogInv({}, op)' /\ FreeingInv(C, X, indexAt, {})'
  BY <1>11 DEF PutInv, LogInv, FreeingInv
<1>16. SlotsInv(C, X, indexAt, {})'
  BY <1>1, <1>5 DEF SlotsInv
<1>17. UniqueFileInv(X, indexAt, {})'
  <2>1. ASSUME NEW v \in Vals
        PROVE  unique'[v] = IF indexAt'[<<"unique", v>>] = 0 THEN {}
                            ELSE X[indexAt'[<<"unique", v>>]].at
    <3> DEFINE f == <<"unique", v>>
    <3>1. f \in Fields /\ \A e : IsOf(e, f) <=> e.field = "unique" /\ e.key = v
      BY FieldsAre DEF IsOf
    <3>2. unique'[v] = {i \in DOMAIN C : C[i].val = v}
      BY <1>5
    <3> HIDE DEF f
    <3>3. CASE indexAt'[f] = 0
      <4>1. \A i \in DOMAIN C : C[i].val # v
        BY <1>7, <1>10, <3>1, <3>3
      <4>2. QED
        BY <3>2, <3>3, <4>1 DEF f
    <3>4. CASE indexAt'[f] # 0
      <4>1. indexAt'[f] \in DOMAIN X /\ X[indexAt'[f]].field = "unique" /\ X[indexAt'[f]].key = v
        BY <1>10, <3>1, <3>4
      <4>2. X[indexAt'[f]].at = {i \in DOMAIN C : C[i].val = v}
        BY <1>7, <4>1
      <4>3. QED
        BY <3>2, <3>4, <4>2 DEF f
    <3>5. QED
      BY <3>3, <3>4
  <2>2. QED
    BY <2>1 DEF UniqueFileInv
<1>18. ValuesInv(C, op)'
  <2>1. ASSUME NEW k \in Keys
        PROVE  ValueIn(C, k, op)' = IF primary'[k] = 0 THEN Absent ELSE C[primary'[k]].val
    <3>1. op'.name # "upsert"
      BY <1>1
    <3>2. Alive(C, primary'[k]) <=> primary'[k] # 0
      BY <1>8, <1>9 DEF Alive
    <3>3. QED
      BY <3>1, <3>2 DEF ValueIn
  <2>2. ASSUME NEW v \in Vals
        PROVE  unique'[v] = {primary'[k] : k \in {j \in Keys : ValueIn(C, j, op)' = v}}
    <3>1. unique'[v] = {i \in DOMAIN C : C[i].val = v}
      BY <1>5
    <3>2. v # Absent
      BY AbsentAssumption
    <3>3. ASSUME NEW i \in DOMAIN C, C[i].val = v
          PROVE  \E k \in Keys : ValueIn(C, k, op)' = v /\ i = primary'[k]
      <4>1. C[i].key \in Keys /\ primary'[C[i].key] = i /\ i # 0
        BY <1>8, <1>9
      <4>2. QED
        BY <2>1, <3>3, <4>1
    <3>4. ASSUME NEW k \in Keys, ValueIn(C, k, op)' = v
          PROVE  primary'[k] \in DOMAIN C /\ C[primary'[k]].val = v
      <4>1. primary'[k] # 0
        BY <2>1, <3>2, <3>4
      <4>2. QED
        BY <1>9, <2>1, <3>4, <4>1
    <3>5. QED
      BY <3>1, <3>3, <3>4
  <2>3. ASSUME torn' = "whole", NEW j \in Keys, NEW k \in Keys,
               ValueIn(C, j, op)' = ValueIn(C, k, op)', ValueIn(C, j, op)' # Absent
        PROVE  j = k
    <3>1. torn = "whole"
      BY <1>1, <2>3
    <3>2. primary'[j] # 0 /\ primary'[k] # 0 /\ C[primary'[j]].val = C[primary'[k]].val
      BY <2>1, <2>3
    <3>3. OldValue(j) = OldValue(k) /\ OldValue(j) # Absent
      <4>1. /\ primary'[j] \in DOMAIN C /\ C[primary'[j]].key = j
            /\ primary'[k] \in DOMAIN C /\ C[primary'[k]].key = k
        BY <1>9, <3>2
      <4>2. C[primary'[j]].val = OldValue(j) /\ C[primary'[k]].val = OldValue(k)
        BY <1>6, <4>1
      <4>3. C[primary'[j]].val # Absent
        BY <1>8, <4>1, AbsentAssumption
      <4>4. QED
        BY <3>2, <4>2, <4>3
    <3>4. QED
      BY <1>1, <3>1, <3>3, AtRestIs
  <2>4. (torn # "torn" => \A v \in Vals :
           unique[v] = {primary[k] : k \in {j \in Keys : ValueIn(C, j, op) = v}})'
    BY <2>2
  <2>5. (torn = "whole" => \A j, k \in Keys :
           (ValueIn(C, j, op) = ValueIn(C, k, op) /\ ValueIn(C, j, op) # Absent) => j = k)'
    BY <2>3
  <2>6. QED
    BY <2>4, <2>5 DEF ValuesInv
<1>19. TargetInv(C, {}, op)'
  BY <1>1 DEF TargetInv
<1>20. Sound(C, X, indexAt, freeIndex, {}, op)'
  <2>1. EntriesInv(X, indexAt, freeIndex, {})'
    BY <1>1, <1>12 DEF EntriesInv
  <2>2. QED
    BY <1>13, <1>14, <1>15, <1>16, <1>17, <1>18, <1>19, <2>1 DEF Sound
<1>21. todo' = <<Cut("data"), Fill("data", C), Cut("index"), Fill("index", X)>>
  <2>1. /\ Rewrite("data", C) = <<Cut("data"), Fill("data", C)>>
        /\ Rewrite("index", X) = <<Cut("index"), Fill("index", X)>>
    BY DEF Rewrite, Cut, Fill
  <2>2. QED
    BY <1>5, <2>1, TwoAndTwo
<1>22. Rewriting(C, X)'
  <2>1. ASSUME NEW k \in Keys
        PROVE  before'[k] = IF primary'[k] = 0 THEN Absent ELSE C[primary'[k]].val
    <3>1. before'[k] = OldValue(k)
      <4>1. OpenedPrimary = primary
        BY <1>1, MemoryIs DEF AtRest
      <4>2. QED
        BY <1>1, <4>1 DEF Records, OldValue
    <3>2. CASE primary'[k] = 0
      <4>1. primary[k] = 0
        BY <1>2, <1>3, <1>9, <3>2 DEF RecordsOnce
      <4>2. QED
        BY <1>1, <3>1, <3>2, <4>1, OldValueIs
    <3>3. CASE primary'[k] # 0
      BY <1>6, <1>9, <3>1, <3>3
    <3>4. QED
      BY <3>2, <3>3
  <2>2. Saved(C)'
    BY <2>1 DEF Saved
  <2>3. QED
    BY <1>6, <1>7, <1>20, <1>21, <2>2 DEF Rewriting
<1>23. TypeInv'
  <2>1. TypeInv
    BY DEF Inv
  <2>2. primary' \in [Keys -> Nat] /\ indexAt' \in [Fields -> Nat]
    BY <1>5, <1>9, <1>10
  <2>3. unique' \in [Vals -> SUBSET Nat]
    <3>1. \A v \in Vals : {i \in DOMAIN C : C[i].val = v} \in SUBSET Nat
      BY <1>8
    <3>2. QED
      BY <1>5, <3>1
  <2>4. blocks' \in [DOMAIN blocks' -> Nat \ {0}]
    BY <1>5, <1>8
  <2>5. before' \in [Keys -> Vals \cup {Absent}]
    <3>1. \A o \in DOMAIN data : data[o].val \in Vals \cup {Absent}
      BY <2>1, DataParts, SlotParts
    <3>2. QED
      BY <1>1, <3>1 DEF Records, Live
  <2>6. ops' \in 0 .. MaxOps /\ stops' \in 0 .. MaxStops
    BY <1>1, <2>1, DrawerBoundsAssumption DEF TypeInv
  <2>7. /\ op' \in Operation /\ op'.name = "vacuum"
    BY <1>1 DEF Operation
  <2>8. data' \in Seq(Slots) /\ index' \in Seq(Entries)
    BY <1>1, <2>1 DEF TypeInv, files
  <2>9. QED
    BY <1>1, <2>1, <2>2, <2>3, <2>4, <2>5, <2>6, <2>7, <2>8 DEF TypeInv
<1>24. OrderInv' /\ OpenInv' /\ ~Running' /\ op'.name = "vacuum"
  BY <1>1 DEF OrderInv, OpenInv, Running
<1>25. (\E d, ix : Rewriting(d, ix))'
  BY <1>22
<1>26. QED
  BY <1>23, <1>24, <1>25 DEF Inv

---------------------------------------------------------------------------
(* The specification.                                                      *)

StopsAreSafe == StopsIn \subseteq {"upsert", "open"}

LEMMA InvInit ==
  Init => Inv
<1> SUFFICES ASSUME Init
             PROVE  Inv
  OBVIOUS
<1>1. /\ data = <<>> /\ index = <<>> /\ op = Down /\ todo = <<>>
      /\ op.name = "down" /\ Down \in Operation
  BY DEF Init, Down, Operation
<1>2. TypeInv
  <2>1. <<>> \in Seq(Slots) /\ <<>> \in Seq(Entries) /\ <<>> \in [DOMAIN <<>> -> Nat \ {0}]
    OBVIOUS
  <2>2. 0 \in 0 .. MaxOps /\ 0 \in 0 .. MaxStops
    BY DrawerBoundsAssumption
  <2>3. NoRecords \in [Keys -> Vals \cup {Absent}]
    BY DEF NoRecords
  <2>4. /\ primary \in [Keys -> Nat] /\ unique \in [Vals -> SUBSET Nat]
        /\ indexAt \in [Fields -> Nat] /\ blocks = <<>> /\ free = {} /\ scanned = FALSE
        /\ torn = "whole" /\ before = NoRecords /\ ops = 0 /\ stops = 0
    BY DEF Init
  <2>5. todo \in Seq(Write)
    BY <1>1
  <2>6. QED
    BY <1>1, <2>1, <2>2, <2>3, <2>4, <2>5 DEF TypeInv
<1>3. DownInv
  <2>1. \A f \in Fields : EntryOf(f[1], f[2]) = 0
    <3>1. \A m \in DOMAIN index : FALSE
      BY <1>1
    <3>2. QED
      BY <1>2, <3>1, EntryOfIs
  <2>2. OffsetsIn(0) = {}
    BY DEF OffsetsIn
  <2>3. \A k \in Keys : OpenedPrimary[k] = 0
    <3>1. ASSUME NEW k \in Keys
          PROVE  OffsetsIn(EntryOf("pk", k)) = {}
      <4>1. <<"pk", k>> \in Fields /\ <<"pk", k>>[1] = "pk" /\ <<"pk", k>>[2] = k
        BY FieldsAre
      <4>2. EntryOf("pk", k) = 0
        BY <2>1, <4>1
      <4>3. QED
        BY <2>2, <4>2
    <3>2. QED
      BY <3>1 DEF OpenedPrimary
  <2>4. \A v \in Vals : OpenedUnique[v] = {}
    <3>1. ASSUME NEW v \in Vals
          PROVE  OffsetsIn(EntryOf("unique", v)) = {}
      <4>1. <<"unique", v>> \in Fields /\ <<"unique", v>>[1] = "unique" /\ <<"unique", v>>[2] = v
        BY FieldsAre
      <4>2. EntryOf("unique", v) = 0
        BY <2>1, <4>1
      <4>3. QED
        BY <2>2, <4>2
    <3>2. QED
      BY <3>1 DEF OpenedUnique
  <2>5. \A k \in Keys : OpenedValue(k) = Absent
    BY <1>1, <2>3 DEF OpenedValue, Alive
  <2>6. QED
    BY <1>1, <2>4, <2>5, AbsentAssumption DEF DownInv
<1>4. QED
  BY <1>1, <1>2, <1>3 DEF Inv, OrderInv, OpenInv, Running

LEMMA StutterKeepsInv ==
  ASSUME Inv, UNCHANGED vars
  PROVE  Inv'
<1>1. /\ data' = data /\ index' = index /\ primary' = primary /\ unique' = unique
      /\ indexAt' = indexAt /\ blocks' = blocks /\ free' = free /\ scanned' = scanned
      /\ freeIndex' = freeIndex /\ op' = op /\ todo' = todo /\ torn' = torn
      /\ before' = before /\ ops' = ops /\ stops' = stops
  BY DEF vars, files, memory
<1>2. TypeInv' /\ OrderInv' /\ OpenInv'
  BY <1>1 DEF Inv, TypeInv, OrderInv, OpenInv
<1>3. (Running => Sound(data, index, indexAt, freeIndex, Range(todo), op))'
  <2>1. Running' <=> Running
    BY <1>1 DEF Running
  <2>2. ASSUME Running
        PROVE  Sound(data, index, indexAt, freeIndex, Range(todo), op)'
    <3>1. Sound(data, index, indexAt, freeIndex, Range(todo), op)
      BY <2>2 DEF Inv
    <3>2. Sound(data', index', indexAt', freeIndex', Range(todo'), op')
      BY <1>1, <3>1
    <3>3. UNCHANGED <<primary, unique, blocks, free, scanned, torn, ops, stops>>
      BY <1>1
    <3>4. QED
      BY <3>2, <3>3 DEF Sound, EntriesInv, FilesInv, PrimaryInv, PutInv, LogInv, SlotsInv,
         FreeingInv, UniqueFileInv, ValuesInv, ValueIn, TargetInv
  <2>3. QED
    BY <2>1, <2>2 DEF Inv
<1>4. (op.name = "down" => DownInv)'
  <2>1. /\ OpenedPrimary' = OpenedPrimary /\ OpenedUnique' = OpenedUnique
        /\ \A k \in Keys : OpenedValue(k)' = OpenedValue(k)
    BY <1>1 DEF OpenedPrimary, OpenedUnique, OpenedValue, EntryOf, EntriesOf, OffsetsIn
  <2>2. DownInv => DownInv'
    BY <1>1, <2>1 DEF DownInv
  <2>3. QED
    BY <1>1, <2>2 DEF Inv
<1>5. (op.name = "vacuum" => \E d, ix : Rewriting(d, ix))'
  <2>1. ASSUME NEW d, NEW ix, Rewriting(d, ix)
        PROVE  Rewriting(d, ix)'
    <3>1. Sound(d, ix, indexAt, freeIndex, {}, op)'
      <4>1. Sound(d, ix, indexAt', freeIndex', {}, op')
        BY <1>1, <2>1 DEF Rewriting
      <4>2. UNCHANGED <<primary, unique, blocks, free, scanned, torn, ops, stops>>
        BY <1>1
      <4>3. QED
        BY <4>1, <4>2 DEF Sound, EntriesInv, FilesInv, PrimaryInv, PutInv, LogInv, SlotsInv,
           FreeingInv, UniqueFileInv, ValuesInv, ValueIn, TargetInv
    <3>2. Saved(d)'
      BY <1>1, <2>1 DEF Rewriting, Saved
    <3>3. QED
      BY <1>1, <2>1, <3>1, <3>2 DEF Rewriting
  <2>2. ASSUME op.name = "vacuum"
        PROVE  (\E d, ix : Rewriting(d, ix))'
    <3>1. PICK d, ix : Rewriting(d, ix)
      BY <2>2 DEF Inv
    <3>2. Rewriting(d, ix)'
      BY <2>1, <3>1
    <3>3. QED
      BY <3>2
  <2>3. QED
    BY <1>1, <2>2
<1>6. QED
  BY <1>2, <1>3, <1>4, <1>5 DEF Inv

(* Every step but a vacuum's leaves each slot its size.                    *)
SizesKept == op.name # "vacuum" =>
  \A o \in DOMAIN data : o \in DOMAIN data' /\ data'[o].size = data[o].size

LEMMA InvStep ==
  ASSUME StopsAreSafe, Inv, [Next]_vars
  PROVE  Inv' /\ SizesKept
<1>1. ASSUME NEW k \in Keys, NEW v \in Vals, Upsert(k, v)
      PROVE  Inv' /\ SizesKept
  BY <1>1, UpsertKeepsInv DEF SizesKept
<1>2. ASSUME NEW k \in Keys, Delete(k)
      PROVE  Inv' /\ SizesKept
  BY <1>2, DeleteIs, DeletionKeepsInv DEF SizesKept
<1>3. ASSUME NEW S \in SUBSET Keys, DeleteSet(S)
      PROVE  Inv' /\ SizesKept
  BY <1>3, DeleteSetIs, DeletionKeepsInv DEF SizesKept
<1>4. CASE Vacuum
  <2>1. UNCHANGED data
    BY <1>4 DEF Vacuum, files
  <2>2. QED
    BY <1>4, <2>1, VacuumKeepsInv DEF SizesKept
<1>5. CASE WriteNext
  <2>1. op.name # "down" /\ op \in Operation
    <3>1. TypeInv
      BY DEF Inv
    <3>2. QED
      BY <1>5, <3>1 DEF WriteNext, TypeInv
  <2>2. op.name \in {"none", "open", "upsert", "delete", "vacuum"}
    BY <2>1 DEF Operation
  <2>3. CASE op.name = "vacuum"
    BY <1>5, <2>3, VacuumWritesKeepInv DEF SizesKept
  <2>4. CASE op.name # "vacuum"
    <3>1. Running
      BY <2>2, <2>4 DEF Running
    <3>2. QED
      BY <1>5, <3>1, WriteKeepsInv DEF SizesKept
  <2>5. QED
    BY <2>3, <2>4
<1>6. CASE Stop
  <2>1. UNCHANGED data
    BY <1>6 DEF Stop, files
  <2>2. QED
    BY <1>6, <2>1, StopKeepsInv DEF StopsAreSafe, SizesKept
<1>7. CASE Open
  <2>1. UNCHANGED data
    BY <1>7 DEF Open, files
  <2>2. QED
    BY <1>7, <2>1, OpenKeepsInv DEF SizesKept
<1>8. CASE UNCHANGED vars
  <2>1. UNCHANGED data
    BY <1>8 DEF vars, files
  <2>2. QED
    BY <1>8, <2>1, StutterKeepsInv DEF SizesKept
<1>9. QED
  BY <1>1, <1>2, <1>3, <1>4, <1>5, <1>6, <1>7, <1>8 DEF Next

(* The memory and the two files agree, but for the writes still to make.   *)
THEOREM FilesAndMemorySound ==
  ASSUME StopsAreSafe
  PROVE  Spec => []Inv
<1>1. Init => Inv
  BY InvInit
<1>2. Inv /\ [Next]_vars => Inv'
  BY InvStep
<1>3. QED
  BY <1>1, <1>2, PTL DEF Spec

(* The types; and at rest, what is in memory is within the files.          *)
THEOREM TypeCorrect ==
  ASSUME StopsAreSafe
  PROVE  Spec => []TypeOK
<1>1. Inv => TypeOK
  <2> SUFFICES ASSUME Inv
               PROVE  TypeOK
    OBVIOUS
  <2>1. TypeInv
    BY DEF Inv
  <2>2. data \in Seq(Slot) /\ index \in Seq(Entry)
    <3>1. Slots \subseteq Slot
      BY DEF Slots, LiveSlot, Tombstone, Slot
    <3>2. Entries \subseteq Entry
      BY DEF Entries, PkEntry, UniqueEntry, DeadEntry, Entry
    <3>3. \A S, T : S \subseteq T => \A s \in Seq(S) : s \in Seq(T)
      OBVIOUS
    <3>4. QED
      BY <2>1, <3>1, <3>2, <3>3 DEF TypeInv
  <2>3. op.name \in Operations \cup {"none", "down"} /\ op.keys \subseteq Keys
    <3>1. op \in Operation
      BY <2>1 DEF TypeInv
    <3>2. QED
      BY <3>1 DEF Operation, Operations
  <2>4. AtRest => /\ todo = <<>>
                  /\ DOMAIN blocks \cup {f.at : f \in free} \subseteq DOMAIN data
                  /\ freeIndex \subseteq DOMAIN index
    <3> SUFFICES ASSUME AtRest
                 PROVE  /\ todo = <<>>
                        /\ DOMAIN blocks \cup {f.at : f \in free} \subseteq DOMAIN data
                        /\ freeIndex \subseteq DOMAIN index
      OBVIOUS
    <3>1. /\ todo = <<>> /\ EntriesInv(index, indexAt, freeIndex, {})
          /\ \A o \in DOMAIN blocks : o \in DOMAIN data
          /\ \A f \in free : f.at \in DOMAIN data
      BY AtRestIs
    <3>2. freeIndex \subseteq DOMAIN index
      BY <3>1 DEF EntriesInv
    <3>3. QED
      BY <3>1, <3>2
  <2>5. QED
    BY <2>1, <2>2, <2>3, <2>4 DEF TypeInv, TypeOK
<1>2. QED
  BY <1>1, FilesAndMemorySound, PTL

(* A key leads to its own record.                                          *)
THEOREM OwnRecordRead ==
  ASSUME StopsAreSafe
  PROVE  Spec => []ReadsOwnRecord
<1>1. Inv => ReadsOwnRecord
  BY AtRestIs DEF ReadsOwnRecord, Live, Alive
<1>2. QED
  BY <1>1, FilesAndMemorySound, PTL

(* The unique index has the records of each value, and a value once.       *)
THEOREM UniqueIndexIsExact ==
  ASSUME StopsAreSafe
  PROVE  Spec => []UniqueIndexExact
<1>1. Inv => UniqueIndexExact
  <2>1. ASSUME Inv, AtRest, torn # "torn"
        PROVE  \A v \in Vals : unique[v] = {primary[k] : k \in {j \in Keys : OldValue(j) = v}}
    BY <2>1, AtRestIs
  <2>2. ASSUME Inv, AtRest, torn = "whole", NEW v \in Vals
        PROVE  Cardinality(unique[v]) <= 1
    <3>1. /\ unique[v] = {primary[k] : k \in {j \in Keys : OldValue(j) = v}}
          /\ \A j, k \in Keys : OldValue(j) = OldValue(k) /\ OldValue(j) # Absent => j = k
      BY <2>2, AtRestIs
    <3>2. \A x, y \in unique[v] : x = y
      BY <3>1, AbsentAssumption
    <3>3. CASE unique[v] = {}
      <4>1. Cardinality(unique[v]) = 0
        BY <3>3, FS_EmptySet
      <4>2. QED
        BY <4>1
    <3>4. CASE unique[v] # {}
      <4>1. PICK x : unique[v] = {x}
        BY <3>2, <3>4
      <4>2. Cardinality(unique[v]) = 1
        BY <4>1, FS_Singleton
      <4>3. QED
        BY <4>2
    <3>5. QED
      BY <3>3, <3>4
  <2>3. QED
    BY <2>1, <2>2 DEF UniqueIndexExact
<1>2. QED
  BY <1>1, FilesAndMemorySound, PTL

(* A slot the recycler has is a tombstone of the size it is registered     *)
(* with, so that no write goes to the slot of a record.                    *)
THEOREM NoSlotAllocatedTwice ==
  ASSUME StopsAreSafe
  PROVE  Spec => []NoDoubleAllocation
<1>1. Inv => NoDoubleAllocation
  BY AtRestIs DEF NoDoubleAllocation, Live, Alive
<1>2. QED
  BY <1>1, FilesAndMemorySound, PTL

(* At rest, an open would read what is in memory.                          *)
THEOREM MemoryIsReadBack ==
  ASSUME StopsAreSafe
  PROVE  Spec => []MemoryMatchesFiles
<1>1. Inv => MemoryMatchesFiles
  BY MemoryIs DEF MemoryMatchesFiles, AtRest
<1>2. QED
  BY <1>1, FilesAndMemorySound, PTL

(* Only a vacuum changes the size of a slot.                               *)
THEOREM SlotSizesStay ==
  ASSUME StopsAreSafe
  PROVE  Spec => SlotsKeepTheirSize
<1>1. Inv /\ [Next]_vars =>
        [op.name # "vacuum" =>
           \A o \in DOMAIN data : o \in DOMAIN data' /\ data'[o].size = data[o].size]_vars
  BY InvStep DEF SizesKept
<1>2. QED
  BY <1>1, FilesAndMemorySound, PTL DEF Spec, SlotsKeepTheirSize

---------------------------------------------------------------------------
(* What the order of the writes has to say for the refinement.             *)

IsPk(e) == e.field = "pk"

(* Only the keys of an operation have entries that will go.                *)
KeysInv ==
  op.name \in {"upsert", "delete"} => \A n \in DOMAIN index :
    IsPk(index[n]) /\ Dying(Range(todo), n) => index[n].key \in op.keys

(* An upsert clears an old entry at once, and its last write concerns no   *)
(* primary entry.                                                          *)
Quiet(w) ==
  \/ w.do = "kill"
  \/ w.do = "log" /\ ~IsPk(w.entry)
  \/ w.do = "killEntry" /\ w.at \in DOMAIN index /\ ~IsPk(index[w.at])
UpsertOrder ==
  op.name = "upsert" =>
    /\ \A i \in DOMAIN todo :
         /\ todo[i].do = "killEntry" => i = 1
         /\ todo[i].do = "log" /\ IsPk(todo[i].entry) =>
              i = 1 \/ (i = 2 /\ todo[1].do = "put")
    /\ \E w \in Range(todo) : Quiet(w)

(* A delete clears the one entry of a key after the slot it leads to.      *)
DeleteInv ==
  op.name = "delete" =>
    /\ \A n, m \in DOMAIN index :
         IsPk(index[n]) /\ IsPk(index[m]) /\ index[n].key = index[m].key => n = m
    /\ \A n \in DOMAIN index : IsPk(index[n]) =>
         \E o \in DOMAIN data :
           index[n].at = {o} /\ (Alive(data, o) => data[o].key = index[n].key)
    /\ \A w \in Range(todo) :
         /\ w.do = "killEntry" /\ w.at \in DOMAIN index /\ IsPk(index[w.at]) =>
              \A o \in index[w.at].at : ~Alive(data, o)
         /\ w.do = "kill" =>
              /\ w.entry \in DOMAIN index
              /\ IsPk(index[w.entry]) => index[w.entry].at = {w.at}
    /\ \A k \in op.keys : primary[k] = 0

Steady == KeysInv /\ UpsertOrder /\ DeleteInv

---------------------------------------------------------------------------
(* What a reader finds of a key: the slot its last primary entry leads to. *)

Found(k) == EntryOf("pk", k)
HasPk(n, k) == n \in DOMAIN index /\ IsPk(index[n]) /\ index[n].key = k

RecordsAre ==
  \A k \in Keys :
    /\ \A m : HasPk(m, k) => m <= Found(k)
    /\ Found(k) = 0 => Records[k] = Absent /\ ~\E m : HasPk(m, k)
    /\ Found(k) # 0 => HasPk(Found(k), k)
    /\ \A o : Found(k) # 0 /\ index[Found(k)].at = {o} =>
         Records[k] = IF Alive(data, o) THEN data[o].val ELSE Absent

LEMMA RecordsRead ==
  ASSUME TypeInv
  PROVE  RecordsAre
<1>1. SUFFICES ASSUME NEW k \in Keys
               PROVE  /\ \A m : HasPk(m, k) => m <= Found(k)
                      /\ Found(k) = 0 => Records[k] = Absent /\ ~\E m : HasPk(m, k)
                      /\ Found(k) # 0 => HasPk(Found(k), k)
                      /\ \A o : Found(k) # 0 /\ index[Found(k)].at = {o} =>
                           Records[k] = IF Alive(data, o) THEN data[o].val ELSE Absent
  BY DEF RecordsAre
<1> DEFINE f == <<"pk", k>>
           at == OffsetsIn(Found(k))
           o == OpenedPrimary[k]
<1>2. f \in Fields /\ f[1] = "pk" /\ f[2] = k /\ \A e : IsOf(e, f) <=> IsPk(e) /\ e.key = k
  BY FieldsAre DEF IsOf, IsPk
<1> HIDE DEF f
<1>3. /\ EntryOf(f[1], f[2]) \in Nat
      /\ EntryOf(f[1], f[2]) = 0 => \A m \in DOMAIN index : ~IsOf(index[m], f)
      /\ EntryOf(f[1], f[2]) # 0 =>
           EntryOf(f[1], f[2]) \in DOMAIN index /\ IsOf(index[EntryOf(f[1], f[2])], f)
      /\ \A m \in DOMAIN index : IsOf(index[m], f) => m <= EntryOf(f[1], f[2])
  BY <1>2, EntryOfIs
<1>4. /\ Found(k) = 0 => ~\E m : HasPk(m, k)
      /\ Found(k) # 0 => HasPk(Found(k), k)
      /\ \A m : HasPk(m, k) => m <= Found(k)
  BY <1>2, <1>3 DEF Found, HasPk
<1>5. o = IF at = {} THEN 0 ELSE CHOOSE x \in at : TRUE
  BY DEF OpenedPrimary, Found
<1>6. Records[k] = IF Alive(data, o) THEN data[o].val ELSE Absent
  BY DEF Records, Live, Alive
<1>7. at = IF Found(k) = 0 THEN {} ELSE index[Found(k)].at
  BY DEF OffsetsIn
<1> HIDE DEF at, o
<1>8. ASSUME Found(k) = 0
      PROVE  Records[k] = Absent
  <2>1. o = 0 /\ 0 \notin DOMAIN data
    BY <1>5, <1>7, <1>8, DataParts
  <2>2. QED
    BY <1>6, <2>1 DEF Alive
<1>9. ASSUME NEW x, Found(k) # 0, index[Found(k)].at = {x}
      PROVE  Records[k] = IF Alive(data, x) THEN data[x].val ELSE Absent
  <2>1. o = x
    BY <1>5, <1>7, <1>9
  <2>2. QED
    BY <1>6, <2>1
<1>10. QED
  BY <1>4, <1>8, <1>9

(* A key whose entry will stay has the record memory leads to.             *)
Held(k) == IF primary[k] = 0 THEN Absent ELSE data[primary[k]].val
Settled(k) ==
  /\ ~Logging(Range(todo), <<"pk", k>>)
  /\ ~PuttingFor(Range(todo), k)
  /\ \A n \in DOMAIN index : HasPk(n, k) => ~Dying(Range(todo), n)
Reads ==
  Running => \A k \in Keys : k \notin op.keys \/ Settled(k) => Records[k] = Held(k)

LEMMA HeldRead ==
  ASSUME Inv, Steady
  PROVE  Reads
<1>1. SUFFICES ASSUME Running, NEW k \in Keys, k \notin op.keys \/ Settled(k)
               PROVE  Records[k] = Held(k)
  BY DEF Reads
<1> DEFINE W == Range(todo)
           f == <<"pk", k>>
           n == indexAt[f]
<1>2. /\ TypeInv /\ OrderInv /\ Sound(data, index, indexAt, freeIndex, W, op)
      /\ op.name \in {"none", "open", "upsert", "delete"}
  BY <1>1 DEF Inv, Running
<1>3. ~PuttingFor(W, k) /\ ~Logging(W, f)
  <2>1. CASE k \notin op.keys
    <3>1. PutInv(data, W, op) /\ LogInv(W, op)
      BY <1>2 DEF Sound
    <3>2. \A e : IsOf(e, f) <=> e.field = "pk" /\ e.key = k
      BY FieldsAre DEF IsOf
    <3> HIDE DEF W, f
    <3>3. ~PuttingFor(W, k)
      BY <2>1, <3>1 DEF PuttingFor, PutInv
    <3>4. ~Logging(W, f)
      BY <2>1, <3>1, <3>2 DEF Logging, LogInv
    <3>5. QED
      BY <3>3, <3>4
  <2>2. CASE Settled(k)
    BY <2>2 DEF Settled
  <2>3. QED
    BY <1>1, <2>1, <2>2
<1>4. /\ IF n = 0 THEN primary[k] = 0 ELSE primary[k] # 0 /\ index[n].at = {primary[k]}
      /\ primary[k] # 0 => Alive(data, primary[k])
  BY <1>2, <1>3 DEF Sound, PrimaryInv
<1>5. Found(k) = n
  <2>1. f \in Fields /\ f[1] = "pk" /\ f[2] = k /\ \A e : IsOf(e, f) <=> IsPk(e) /\ e.key = k
    BY FieldsAre DEF IsOf, IsPk
  <2>2. CASE op.name \in {"none", "open"}
    <3> HIDE DEF f
    <3>1. EntryOf(f[1], f[2]) = n
      BY <2>1, <2>2, MemoryIs
    <3>2. QED
      BY <2>1, <3>1 DEF Found
  <2>3. CASE op.name \in {"upsert", "delete"}
    <3>1. \A m \in DOMAIN index : HasPk(m, k) => ~Dying(W, m)
      <4>1. CASE k \notin op.keys
        BY <2>3, <4>1 DEF Steady, KeysInv, HasPk
      <4>2. CASE Settled(k)
        BY <4>2 DEF Settled
      <4>3. QED
        BY <1>1, <4>1, <4>2
    <3>2. EntriesInv(index, indexAt, freeIndex, W)
      BY <1>2 DEF Sound
    <3>3. /\ RecordsAre /\ n \in Nat
      BY <1>2, <2>1, RecordsRead DEF TypeInv
    <3> HIDE DEF W, f
    <3>4. /\ \A m : HasPk(m, k) => m = n
          /\ n # 0 => HasPk(n, k)
      BY <2>1, <3>1, <3>2 DEF EntriesInv, HasPk
    <3>5. QED
      BY <3>3, <3>4 DEF RecordsAre
  <2>4. QED
    BY <1>2, <2>2, <2>3
<1>6. RecordsAre
  BY <1>2, RecordsRead
<1> HIDE DEF n, f
<1>7. CASE n = 0
  BY <1>4, <1>5, <1>6, <1>7 DEF RecordsAre, Held
<1>8. CASE n # 0
  BY <1>4, <1>5, <1>6, <1>8 DEF RecordsAre, Held
<1>9. QED
  BY <1>7, <1>8

---------------------------------------------------------------------------
(* What one write does to the files and to the writes left.                *)

(* The writes that are left: the others, after the clearing of entry m.    *)
IsLeft(m) == todo' = IF m = 0 THEN Tail(todo) ELSE <<KillEntry(m)>> \o Tail(todo)

LEMMA LeftIs ==
  ASSUME TypeInv, Running, todo # <<>>, NEW m \in Nat, IsLeft(m)
  PROVE  /\ Range(Tail(todo)) \subseteq Range(todo')
         /\ \A x \in Range(todo') :
              x \in Range(Tail(todo)) \/ (m # 0 /\ x.do = "killEntry" /\ x.at = m)
         /\ \A i \in DOMAIN todo' :
              \/ i = 1 /\ m # 0 /\ todo'[i].do = "killEntry" /\ todo'[i].at = m
              \/ \E j \in DOMAIN todo : /\ j # 1 /\ todo'[i] = todo[j]
                                        /\ m = 0 => j = i + 1
                                        /\ m # 0 => j = i
         /\ todo' = <<>> => m = 0 /\ Range(todo) = {Head(todo)}
         /\ m = 0 => \A x \in Range(todo') : x \in Range(todo)
<1>1. /\ todo \in Seq(Write) /\ Head(todo) \in Write /\ Tail(todo) \in Seq(Write)
      /\ Range(todo) = {Head(todo)} \cup Range(Tail(todo))
  BY NextWrite DEF Running, TypeInv
<1>2. /\ \A i \in DOMAIN Tail(todo) : i + 1 \in DOMAIN todo /\ Tail(todo)[i] = todo[i + 1]
      /\ \A i \in DOMAIN Tail(todo) : i \in Nat \ {0}
  <2>1. \A i \in DOMAIN Tail(todo) : i + 1 \in DOMAIN todo /\ Tail(todo)[i] = todo[i + 1]
    BY <1>1, WritesLeft
  <2>2. \A s \in Seq(Write) : \A i \in DOMAIN s : i \in Nat \ {0}
    OBVIOUS
  <2>3. QED
    BY <1>1, <2>1, <2>2
<1> DEFINE T == Tail(todo)
<1>3. CASE m = 0
  <2>1. todo' = T
    BY <1>3 DEF IsLeft
  <2>2. ASSUME NEW i \in DOMAIN T
        PROVE  \E j \in DOMAIN todo : j # 1 /\ T[i] = todo[j] /\ j = i + 1
    BY <1>2, <2>2
  <2>3. T = <<>> => Range(T) = {}
    BY DEF Range
  <2> HIDE DEF T
  <2>4. QED
    BY <1>1, <1>3, <2>1, <2>2, <2>3 DEF T
<1>4. CASE m # 0
  <2> DEFINE u == KillEntry(m)
             s == <<u>> \o T
  <2>1. todo' = s
    BY <1>4 DEF IsLeft
  <2>2. u \in Write /\ u.do = "killEntry" /\ u.at = m
    BY WritesMade DEF KillEntry
  <2> HIDE DEF u
  <2>3. T \in Seq(Write)
    BY <1>1
  <2> HIDE DEF T
  <2>4. /\ s # <<>> /\ Range(s) = {u} \cup Range(T)
        /\ \A i \in DOMAIN s : \/ i = 1 /\ s[i] = u
                               \/ i - 1 \in DOMAIN T /\ s[i] = T[i - 1]
        /\ s \in Seq(Write)
    BY <2>2, <2>3, WritesPushed
  <2> HIDE DEF s
  <2>5. \A i \in DOMAIN s : i \in Nat
    BY <2>4
  <2>6. ASSUME NEW i \in DOMAIN s, ~(i = 1 /\ s[i] = u)
        PROVE  \E j \in DOMAIN todo : j # 1 /\ s[i] = todo[j] /\ j = i
    <3>1. i - 1 \in DOMAIN T /\ s[i] = T[i - 1]
      BY <2>4, <2>6
    <3>2. i - 1 + 1 \in DOMAIN todo /\ T[i - 1] = todo[i - 1 + 1] /\ i - 1 # 0
      BY <1>2, <3>1 DEF T
    <3>3. i - 1 + 1 = i /\ i # 1
      BY <2>5, <3>2
    <3>4. QED
      BY <3>1, <3>2, <3>3
  <2>7. QED
    BY <1>4, <2>1, <2>2, <2>4, <2>6 DEF T
<1>5. QED
  BY <1>3, <1>4

LEMMA PutIs ==
  ASSUME Inv, Running, todo # <<>>, WritePut(Head(todo))
  PROVE  /\ IsWritten(data', data, Head(todo).at, Head(todo).slot)
         /\ ~Alive(data, Head(todo).at)
         /\ index' = index /\ IsLeft(0)
<1> DEFINE w == Head(todo)
<1>1. /\ TypeInv /\ w \in Write /\ w \in Range(todo)
      /\ PutInv(data, Range(todo), op)
  BY NextWrite DEF Inv, Running, Sound
<1>2. w.do = "put" /\ w.slot \in LiveSlot /\ w.slot \in Slots
  BY <1>1, WriteParts DEF WritePut, Slots
<1>3. w.at \in 1 .. (Len(data) + 1) /\ ~Alive(data, w.at)
  BY <1>1, <1>2 DEF PutInv
<1>4. data' = PutAt(data, w.at, w.slot) /\ data \in Seq(Slots)
  BY <1>1 DEF WritePut, TypeInv
<1> HIDE DEF w
<1>5. IsWritten(data', data, w.at, w.slot)
  BY <1>2, <1>3, <1>4, WrittenAt
<1>6. QED
  BY <1>3, <1>5 DEF w, WritePut, IsLeft

LEMMA KillIs ==
  ASSUME Inv, Running, todo # <<>>, WriteKill(Head(todo))
  PROVE  /\ DOMAIN data' = DOMAIN data
         /\ \A o \in DOMAIN data : o # Head(todo).at => data'[o] = data[o]
         /\ ~Alive(data', Head(todo).at) /\ Head(todo).at \in DOMAIN data
         /\ Head(todo).entry \in Nat
         /\ index' = index /\ IsLeft(Head(todo).entry)
<1> DEFINE w == Head(todo)
<1>1. /\ TypeInv /\ w \in Write /\ w \in Range(todo)
      /\ FreeingInv(data, index, indexAt, Range(todo))
  BY NextWrite DEF Inv, Running, Sound
<1>2. w.do = "kill" /\ w.entry \in Nat
  BY <1>1, WriteParts DEF WriteKill
<1>3. w.at \in DOMAIN data
  BY <1>1, <1>2 DEF FreeingInv, Freeing
<1>4. /\ DOMAIN data' = DOMAIN data
      /\ \A o \in DOMAIN data : o # w.at => data'[o] = data[o]
      /\ data'[w.at].key = Absent
  BY <1>1, <1>3, Tombstoned
<1>5. QED
  BY <1>2, <1>3, <1>4 DEF WriteKill, IsLeft, Alive

LEMMA KillEntryIs ==
  ASSUME Inv, Running, todo # <<>>, WriteKillEntry(Head(todo))
  PROVE  /\ data' = data /\ DOMAIN index' = DOMAIN index
         /\ \A n \in DOMAIN index : index'[n] = IF n = Head(todo).at THEN DeadEntry ELSE index[n]
         /\ IsLeft(0)
<1> DEFINE w == Head(todo)
<1>1. TypeInv /\ w \in Write
  BY NextWrite DEF Inv, Running
<1>2. w.do = "killEntry" /\ w.at \in Nat
  BY <1>1, WriteParts DEF WriteKillEntry
<1>3. index' = [index EXCEPT ![w.at] = DeadEntry]
  BY DEF WriteKillEntry
<1>4. index \in Seq(Entries) /\ DeadEntry \in Entries
  BY <1>1 DEF TypeInv, Entries
<1> HIDE DEF w
<1>5. /\ DOMAIN index' = DOMAIN index
      /\ \A n \in DOMAIN index : index'[n] = IF n = w.at THEN DeadEntry ELSE index[n]
  BY <1>2, <1>3, <1>4, Overwritten
<1>6. QED
  BY <1>5 DEF WriteKillEntry, IsLeft, w

(* The entry e is written at n, and m, its older one, is to be cleared.    *)
Logged(e, n, m) ==
  /\ n \in Nat \ {0} /\ m \in Nat /\ m # n
  /\ IsWritten(index', index, n, e)
  /\ n \in DOMAIN index => index[n] = DeadEntry
  /\ m # 0 => m \in DOMAIN index /\ index[m].field = e.field /\ index[m].key = e.key
  /\ ~Dying(Range(todo), n)
  /\ IsLeft(m)

LEMMA LogIs ==
  ASSUME Inv, Running, todo # <<>>, WriteLog(Head(todo))
  PROVE  /\ data' = data
         /\ \E n, m : Logged(Head(todo).entry, n, m)
<1> DEFINE w == Head(todo)
           e == w.entry
           f == <<e.field, e.key>>
           old == indexAt[f]
           W == Range(todo)
<1>1. /\ TypeInv /\ w \in Write /\ EntriesInv(index, indexAt, freeIndex, W)
      /\ index \in Seq(Entries)
  BY NextWrite DEF Inv, Running, Sound, TypeInv
<1>2. /\ w.do = "log" /\ e \in PkEntry \cup UniqueEntry /\ e \in Entries
      /\ e.field # "dead"
  <2>1. w.do = "log" /\ e \in PkEntry \cup UniqueEntry
    BY <1>1, WriteParts DEF WriteLog
  <2>2. QED
    BY <2>1 DEF Entries, PkEntry, UniqueEntry
<1>3. f \in Fields /\ f[1] = e.field /\ f[2] = e.key
  BY <1>2, EntryParts, FieldsAre
<1>4. PICK n \in IF freeIndex = {} THEN {Len(index) + 1} ELSE freeIndex :
         /\ index' = PutAt(index, n, e)
         /\ todo' = IF old = 0 \/ old = n THEN Tail(todo) ELSE <<KillEntry(old)>> \o Tail(todo)
  BY DEF WriteLog
<1>5. DOMAIN index = 1 .. Len(index) /\ Len(index) \in Nat /\ indexAt[f] \in Nat
  BY <1>1, <1>3, DataParts DEF TypeInv
<1>6. /\ n \in 1 .. (Len(index) + 1) /\ n \in Nat \ {0}
      /\ n \in DOMAIN index => index[n] = DeadEntry
      /\ ~Dying(W, n)
  <2>1. CASE freeIndex = {}
    <3>1. n = Len(index) + 1
      BY <1>4, <2>1
    <3>2. n \notin DOMAIN index \cup {0} /\ n \in 1 .. (Len(index) + 1)
      BY <1>5, <3>1
    <3>3. QED
      BY <1>1, <3>2 DEF EntriesInv
  <2>2. CASE freeIndex # {}
    <3>1. n \in DOMAIN index /\ index[n] = DeadEntry /\ ~Dying(W, n)
      BY <1>1, <1>4, <2>2 DEF EntriesInv
    <3>2. QED
      BY <1>5, <3>1
  <2>3. QED
    BY <2>1, <2>2
<1>7. IsWritten(index', index, n, e)
  BY <1>1, <1>2, <1>4, <1>6, WrittenAt
<1>8. old # 0 => old \in DOMAIN index /\ index[old].field = e.field /\ index[old].key = e.key
  BY <1>1, <1>3 DEF EntriesInv, IsOf
<1>9. old # n
  BY <1>2, <1>6, <1>8 DEF DeadEntry
<1>10. IsLeft(old)
  BY <1>4, <1>9 DEF IsLeft
<1>11. Logged(e, n, old)
  BY <1>5, <1>6, <1>7, <1>8, <1>9, <1>10 DEF Logged
<1>12. QED
  BY <1>11 DEF WriteLog

---------------------------------------------------------------------------
(* The writes keep the order.                                              *)

LEMMA UpsertOrderKept ==
  ASSUME Inv, Steady, WriteNext, op.name = "upsert", op' = op
  PROVE  UpsertOrder'
<1> DEFINE w == Head(todo)
           W == Range(todo)
           T == Range(Tail(todo))
           V == Range(todo')
<1>1. /\ Running /\ TypeInv /\ OrderInv /\ todo # <<>> /\ todo' # <<>>
      /\ todo' \in Seq(Write)
  <2>1. Running /\ TypeInv /\ OrderInv /\ todo # <<>>
    BY DEF Inv, Running, WriteNext
  <2>2. todo' # <<>>
    BY DEF WriteNext, None
  <2>3. todo' \in Seq(Write)
    BY <2>1, TodoNext DEF Running
  <2>4. QED
    BY <2>1, <2>2, <2>3
<1>2. /\ w = todo[1] /\ 1 \in DOMAIN todo /\ w \in Write
      /\ W = {w} \cup T
      /\ \A x \in T : \E j \in DOMAIN todo : j # 1 /\ todo[j] = x
      /\ W \subseteq Write
  BY <1>1, NextWrite DEF Running
<1>3. \A i \in DOMAIN todo :
        /\ todo[i].do = "killEntry" => i = 1
        /\ todo[i].do = "log" /\ IsPk(todo[i].entry) => i = 1 \/ (i = 2 /\ todo[1].do = "put")
        /\ todo[i].do = "put" => i = 1
        /\ todo[i].do = "kill" => i = Len(todo) /\ todo[i].entry = 0
  BY <1>1 DEF Steady, UpsertOrder, OrderInv
<1>4. PICK q \in W : Quiet(q)
  BY DEF Steady, UpsertOrder
<1>5. PICK x \in V : TRUE
  <2>1. 1 \in DOMAIN todo'
    BY <1>1
  <2>2. QED
    BY <2>1 DEF Range
(* What follows a write that is no put is quiet.                           *)
<1>6. w.do # "put" => \A y \in T : y.do = "kill" \/ (y.do = "log" /\ ~IsPk(y.entry))
  BY <1>2, <1>3, WriteParts
<1>7. \/ WritePut(w) \/ WriteKill(w) \/ WriteLog(w) \/ WriteKillEntry(w)
  BY <1>2, WriteParts DEF WriteNext, WriteAll
<1>8. \E m \in Nat :
        /\ IsLeft(m)
        /\ w.do = "put" => m = 0
        /\ \E y \in V : Quiet(y)'
  <2>1. CASE WritePut(w)
    <3>1. w.do = "put" /\ IsLeft(0) /\ index' = index
      BY <1>1, <2>1, PutIs DEF WritePut
    <3>2. q \in T
      BY <1>2, <1>4, <3>1 DEF Quiet
    <3>3. q \in V
      BY <1>1, <3>1, <3>2, LeftIs
    <3>4. Quiet(q)'
      BY <1>4, <3>1 DEF Quiet
    <3>5. QED
      BY <3>1, <3>3, <3>4
  <2>2. CASE WriteKill(w)
    <3>1. w.do = "kill"
      BY <2>2 DEF WriteKill
    <3>2. Len(todo) = 1 /\ w.entry = 0
      BY <1>2, <1>3, <3>1
    <3>3. T = {}
      BY <1>1, <3>2, NextWrite DEF Running
    <3>4. IsLeft(0)
      BY <1>1, <2>2, <3>2, KillIs
    <3>5. x \in T
      BY <1>1, <1>5, <3>4, LeftIs
    <3>6. QED
      BY <3>3, <3>5
  <2>3. CASE WriteLog(w)
    <3>1. w.do = "log"
      BY <2>3 DEF WriteLog
    <3>2. PICK n, m : Logged(w.entry, n, m)
      BY <1>1, <2>3, LogIs
    <3>3. m \in Nat /\ IsLeft(m)
      BY <3>2 DEF Logged
    <3>4. /\ T \subseteq V
          /\ x \in T \/ (m # 0 /\ x.do = "killEntry" /\ x.at = m)
      BY <1>1, <1>5, <3>3, LeftIs
    <3>5. ASSUME NEW y \in T
          PROVE  \E z \in V : Quiet(z)'
      <4>1. Quiet(y)'
        BY <1>6, <3>1, <3>5 DEF Quiet
      <4>2. QED
        BY <3>4, <3>5, <4>1
    <3>6. CASE T = {}
      <4>1. m # 0 /\ x.do = "killEntry" /\ x.at = m /\ q = w
        BY <1>2, <3>4, <3>6
      <4>2. ~IsPk(w.entry)
        BY <1>4, <3>1, <4>1 DEF Quiet
      <4>3. /\ m \in DOMAIN index' /\ index'[m] = index[m]
            /\ index[m].field = w.entry.field
        BY <3>2, <4>1 DEF Logged, IsWritten
      <4>4. Quiet(x)'
        BY <4>1, <4>2, <4>3 DEF Quiet, IsPk
      <4>5. QED
        BY <1>5, <3>1, <3>3, <4>4
    <3>7. QED
      BY <3>1, <3>3, <3>5, <3>6
  <2>4. CASE WriteKillEntry(w)
    <3>1. w.do = "killEntry" /\ IsLeft(0)
      BY <1>1, <2>4, KillEntryIs DEF WriteKillEntry
    <3>2. x \in T
      BY <1>1, <1>5, <3>1, LeftIs
    <3>3. Quiet(x)'
      BY <1>6, <3>1, <3>2 DEF Quiet
    <3>4. QED
      BY <1>5, <3>1, <3>3
  <2>5. QED
    BY <1>7, <2>1, <2>2, <2>3, <2>4
<1>9. PICK m \in Nat : /\ IsLeft(m)
                       /\ w.do = "put" => m = 0
                       /\ \E y \in V : Quiet(y)'
  BY <1>8
<1>10. ASSUME NEW i \in DOMAIN todo'
       PROVE  /\ todo'[i].do = "killEntry" => i = 1
              /\ todo'[i].do = "log" /\ IsPk(todo'[i].entry) => i = 1
  <2>1. \/ i = 1 /\ m # 0 /\ todo'[i].do = "killEntry" /\ todo'[i].at = m
        \/ \E j \in DOMAIN todo : /\ j # 1 /\ todo'[i] = todo[j]
                                  /\ m = 0 => j = i + 1
                                  /\ m # 0 => j = i
    BY <1>1, <1>9, LeftIs
  <2>2. i \in Int
    BY <1>1
  <2>3. ASSUME NEW j \in DOMAIN todo, j # 1, todo'[i] = todo[j], m = 0 => j = i + 1
        PROVE  /\ todo'[i].do = "killEntry" => i = 1
               /\ todo'[i].do = "log" /\ IsPk(todo'[i].entry) => i = 1
    BY <1>2, <1>3, <1>9, <2>2, <2>3
  <2>4. QED
    BY <2>1, <2>3
<1>11. QED
  BY <1>9, <1>10 DEF UpsertOrder

LEMMA KeysKept ==
  ASSUME Inv, Steady, WriteNext, op.name \in {"upsert", "delete"}, op' = op
  PROVE  KeysInv'
<1> DEFINE w == Head(todo)
           W == Range(todo)
           V == Range(todo')
<1>1. /\ Running /\ TypeInv /\ todo # <<>> /\ LogInv(W, op)
      /\ w \in Write /\ w \in W /\ W = {w} \cup Range(Tail(todo))
  <2>1. Running /\ TypeInv /\ todo # <<>> /\ LogInv(W, op)
    BY DEF Inv, Running, WriteNext, Sound
  <2>2. QED
    BY <2>1, NextWrite DEF Running
<1>2. ASSUME NEW m \in Nat, IsLeft(m), NEW n, Dying(V, n)
      PROVE  Dying(W, n) \/ (m # 0 /\ n = m)
  <2>1. \A x \in V : x \in W \/ (m # 0 /\ x.do = "killEntry" /\ x.at = m)
    BY <1>1, <1>2, LeftIs
  <2>2. QED
    BY <1>2, <2>1 DEF Dying
<1>3. \A n \in DOMAIN index : IsPk(index[n]) /\ Dying(W, n) => index[n].key \in op.keys
  BY DEF Steady, KeysInv
<1>4. SUFFICES ASSUME NEW n \in DOMAIN index', IsPk(index'[n]), Dying(V, n)
               PROVE  index'[n].key \in op.keys
  BY DEF KeysInv
<1>5. \/ WritePut(w) \/ WriteKill(w) \/ WriteLog(w) \/ WriteKillEntry(w)
  BY <1>1, WriteParts DEF WriteNext, WriteAll
<1>6. CASE WritePut(w)
  BY <1>1, <1>2, <1>3, <1>4, <1>6, PutIs
<1>7. CASE WriteKill(w)
  <2>1. index' = index /\ w.entry \in Nat /\ IsLeft(w.entry) /\ w.do = "kill"
    BY <1>1, <1>7, KillIs DEF WriteKill
  <2>2. Dying(W, w.entry)
    BY <1>1, <2>1 DEF Dying
  <2>3. Dying(W, n)
    BY <1>2, <1>4, <2>1, <2>2
  <2>4. QED
    BY <1>3, <1>4, <2>1, <2>3
<1>8. CASE WriteLog(w)
  <2>1. w.do = "log"
    BY <1>8 DEF WriteLog
  <2>2. PICK x, m : Logged(w.entry, x, m)
    BY <1>1, <1>8, LogIs
  <2>3. /\ m \in Nat /\ IsLeft(m) /\ ~Dying(W, x) /\ m # x
        /\ m # 0 => index[m].field = w.entry.field /\ index[m].key = w.entry.key
        /\ n \in DOMAIN index \/ n = x
        /\ n # x => index'[n] = index[n]
    BY <1>4, <2>2 DEF Logged, IsWritten
  <2>4. Dying(W, n) \/ (m # 0 /\ n = m)
    BY <1>2, <1>4, <2>3
  <2>5. n # x
    BY <2>3, <2>4
  <2>6. CASE Dying(W, n)
    BY <1>3, <1>4, <2>3, <2>5, <2>6
  <2>7. CASE m # 0 /\ n = m
    <3>1. w.entry.field = "pk" /\ index'[n].key = w.entry.key
      BY <1>4, <2>3, <2>5, <2>7 DEF IsPk
    <3>2. QED
      BY <1>1, <2>1, <3>1 DEF LogInv
  <2>8. QED
    BY <2>4, <2>6, <2>7
<1>9. CASE WriteKillEntry(w)
  <2>1. /\ IsLeft(0) /\ DOMAIN index' = DOMAIN index
        /\ index'[n] = IF n = w.at THEN DeadEntry ELSE index[n]
    BY <1>1, <1>4, <1>9, KillEntryIs
  <2>2. index'[n] = index[n]
    BY <1>4, <2>1 DEF DeadEntry, IsPk
  <2>3. QED
    BY <1>2, <1>3, <1>4, <2>1, <2>2
<1>10. QED
  BY <1>5, <1>6, <1>7, <1>8, <1>9

LEMMA DeleteInvKept ==
  ASSUME Inv, Steady, WriteNext, op.name = "delete", op' = op
  PROVE  DeleteInv'
<1> DEFINE w == Head(todo)
           W == Range(todo)
           V == Range(todo')
<1>1. /\ Running /\ TypeInv /\ OrderInv /\ todo # <<>>
      /\ w \in Write /\ W = {w} \cup Range(Tail(todo)) /\ w = todo[1] /\ 1 \in DOMAIN todo
  <2>1. Running /\ TypeInv /\ OrderInv /\ todo # <<>>
    BY DEF Inv, Running, WriteNext
  <2>2. QED
    BY <2>1, NextWrite DEF Running
<1>2. /\ w.do \in {"kill", "killEntry", "log"}
      /\ w.do = "log" => w.entry.field = "unique"
  BY <1>1 DEF OrderInv
<1>3. /\ \A n, m \in DOMAIN index :
           IsPk(index[n]) /\ IsPk(index[m]) /\ index[n].key = index[m].key => n = m
      /\ \A n \in DOMAIN index : IsPk(index[n]) =>
           \E o \in DOMAIN data :
             index[n].at = {o} /\ (Alive(data, o) => data[o].key = index[n].key)
      /\ \A x \in W :
           /\ x.do = "killEntry" /\ x.at \in DOMAIN index /\ IsPk(index[x.at]) =>
                \A o \in index[x.at].at : ~Alive(data, o)
           /\ x.do = "kill" =>
                /\ x.entry \in DOMAIN index
                /\ IsPk(index[x.entry]) => index[x.entry].at = {x.at}
      /\ \A k \in op.keys : primary[k] = 0
  BY DEF Steady, DeleteInv
<1>4. \/ WriteKill(w) \/ WriteLog(w) \/ WriteKillEntry(w)
  BY <1>2 DEF WriteNext, WritePut, WriteAll
(* The primary entries are those there were, and no record comes back.     *)
<1>5. \E m \in Nat :
        /\ IsLeft(m)
        /\ m # 0 /\ m \in DOMAIN index' /\ IsPk(index'[m]) =>
             \A o \in index'[m].at : ~Alive(data', o)
        /\ \A n \in DOMAIN index' : IsPk(index'[n]) =>
             n \in DOMAIN index /\ index'[n] = index[n]
        /\ DOMAIN index \subseteq DOMAIN index'
        /\ DOMAIN data' = DOMAIN data
        /\ \A o \in DOMAIN data : Alive(data', o) => Alive(data, o) /\ data'[o] = data[o]
  <2>1. CASE WriteKill(w)
    <3>1. /\ DOMAIN data' = DOMAIN data
          /\ \A o \in DOMAIN data : o # w.at => data'[o] = data[o]
          /\ ~Alive(data', w.at)
          /\ w.entry \in Nat /\ index' = index /\ IsLeft(w.entry) /\ w.do = "kill"
      BY <1>1, <2>1, KillIs DEF WriteKill
    <3>2. IsPk(index[w.entry]) => index[w.entry].at = {w.at}
      BY <1>1, <1>3, <3>1
    <3>3. \A o \in DOMAIN data : Alive(data', o) => Alive(data, o) /\ data'[o] = data[o]
      BY <3>1 DEF Alive
    <3>4. QED
      BY <3>1, <3>2, <3>3
  <2>2. CASE WriteLog(w)
    <3>1. data' = data /\ w.do = "log" /\ w.entry.field # "pk"
      BY <1>1, <1>2, <2>2, LogIs DEF WriteLog
    <3>2. PICK n, m : Logged(w.entry, n, m)
      BY <1>1, <2>2, LogIs
    <3>3. /\ m \in Nat /\ IsLeft(m)
          /\ m # 0 => index'[m].field # "pk"
      BY <3>1, <3>2 DEF Logged, IsWritten
    <3>4. /\ \A x \in DOMAIN index' : IsPk(index'[x]) =>
               x \in DOMAIN index /\ index'[x] = index[x]
          /\ DOMAIN index \subseteq DOMAIN index'
      BY <3>1, <3>2 DEF Logged, IsWritten, IsPk
    <3>5. QED
      BY <3>1, <3>3, <3>4 DEF IsPk
  <2>3. CASE WriteKillEntry(w)
    <3>1. /\ data' = data /\ DOMAIN index' = DOMAIN index
          /\ \A n \in DOMAIN index : index'[n] = IF n = w.at THEN DeadEntry ELSE index[n]
          /\ IsLeft(0)
      BY <1>1, <2>3, KillEntryIs
    <3>2. \A n \in DOMAIN index' : IsPk(index'[n]) => index'[n] = index[n]
      BY <3>1 DEF DeadEntry, IsPk
    <3>3. QED
      BY <3>1, <3>2
  <2>4. QED
    BY <1>4, <2>1, <2>2, <2>3
<1>6. PICK m \in Nat :
        /\ IsLeft(m)
        /\ m # 0 /\ m \in DOMAIN index' /\ IsPk(index'[m]) =>
             \A o \in index'[m].at : ~Alive(data', o)
        /\ \A n \in DOMAIN index' : IsPk(index'[n]) =>
             n \in DOMAIN index /\ index'[n] = index[n]
        /\ DOMAIN index \subseteq DOMAIN index'
        /\ DOMAIN data' = DOMAIN data
        /\ \A o \in DOMAIN data : Alive(data', o) => Alive(data, o) /\ data'[o] = data[o]
  BY <1>5
<1>7. \A x \in V : x \in W \/ (m # 0 /\ x.do = "killEntry" /\ x.at = m)
  BY <1>1, <1>6, LeftIs
<1> HIDE DEF w, W, V
<1>8. \A n, o \in DOMAIN index' :
        IsPk(index'[n]) /\ IsPk(index'[o]) /\ index'[n].key = index'[o].key => n = o
  BY <1>3, <1>6
<1>9. ASSUME NEW n \in DOMAIN index', IsPk(index'[n])
      PROVE  \E o \in DOMAIN data' :
               index'[n].at = {o} /\ (Alive(data', o) => data'[o].key = index'[n].key)
  <2>1. n \in DOMAIN index /\ index'[n] = index[n]
    BY <1>6, <1>9
  <2>2. PICK o \in DOMAIN data :
           index[n].at = {o} /\ (Alive(data, o) => data[o].key = index[n].key)
    BY <1>3, <1>9, <2>1
  <2>3. QED
    BY <1>6, <2>1, <2>2
<1>10. ASSUME NEW x \in V, x.do = "killEntry", x.at \in DOMAIN index', IsPk(index'[x.at]),
              NEW o \in index'[x.at].at
       PROVE  ~Alive(data', o)
  <2>1. CASE x \in W
    <3>1. x.at \in DOMAIN index /\ index'[x.at] = index[x.at]
      BY <1>6, <1>10
    <3>2. ~Alive(data, o)
      BY <1>3, <1>10, <2>1, <3>1
    <3>3. QED
      BY <1>6, <3>2 DEF Alive
  <2>2. CASE m # 0 /\ x.at = m
    BY <1>6, <1>10, <2>2
  <2>3. QED
    BY <1>7, <1>10, <2>1, <2>2
<1>11. ASSUME NEW x \in V, x.do = "kill"
       PROVE  /\ x.entry \in DOMAIN index'
              /\ IsPk(index'[x.entry]) => index'[x.entry].at = {x.at}
  <2>1. x \in W
    BY <1>7, <1>11
  <2>2. QED
    BY <1>3, <1>6, <1>11, <2>1
<1>12. \A k \in op'.keys : primary'[k] = 0
  BY <1>3 DEF WriteNext
<1>13. QED
  BY <1>8, <1>9, <1>10, <1>11, <1>12 DEF DeleteInv, V

---------------------------------------------------------------------------
(* The operations begin with the order.                                    *)

LEMMA UpsertIsSteady ==
  ASSUME Inv, NEW k \in Keys, NEW v \in Vals, Upsert(k, v)
  PROVE  Steady'
<1> DEFINE V == Range(todo')
<1>1. AtRest /\ index' = index /\ op' = [name |-> "upsert", keys |-> {k}, val |-> v]
  BY DEF Upsert, files
<1>2. PICK o \in SlotsFor(Aligned(Length[v])) :
        todo' = UpsertWrites(k, v, o) /\ unique' = UniqueAfter(k, v, o)
  BY DEF Upsert
<1>3. o \in Nat \ {0} /\ o # primary[k]
  BY <1>1, SizesPositive, SlotTaken
<1>4. WritesOfUpsert(todo', k, v, o, unique')
  BY <1>1, <1>2, <1>3, UpsertWritesAre
<1>5. /\ \A x : PutData(o, x).do = "put"
      /\ \A f, j, at, n : Log(f, j, at, n).do = "log" /\ Log(f, j, at, n).entry.field = f
      /\ KillData(primary[k], 0).do = "kill" /\ KillData(primary[k], 0).entry = 0
  BY DEF PutData, Log, KillData
<1>6. \A w \in V : w.do \in {"put", "log"} \/ (w.do = "kill" /\ w.entry = 0)
  BY <1>4, <1>5 DEF WritesOfUpsert
<1>7. \A i \in DOMAIN todo' : /\ todo'[i].do # "killEntry"
                              /\ todo'[i].do = "put" => i = 1
                              /\ todo'[i].do = "log" /\ IsPk(todo'[i].entry) => i = 2
  BY <1>4, <1>6 DEF WritesOfUpsert, IsPk, Range
<1>8. 1 \in DOMAIN todo' /\ todo'[1].do = "put"
  BY <1>4, <1>5, <1>7 DEF WritesOfUpsert, Range
<1>9. \E w \in V : Quiet(w)'
  <2>1. v \in {v, OldValue(k)} \ {Absent}
    BY AbsentAssumption
  <2>2. Log("unique", v, unique'[v], 0) \in V
    BY <1>4, <2>1 DEF WritesOfUpsert
  <2>3. \E w \in V : w.do = "log" /\ ~IsPk(w.entry)
    BY <1>5, <2>2 DEF IsPk
  <2>4. PICK w \in V : w.do = "log" /\ ~IsPk(w.entry)
    BY <2>3
  <2>5. Quiet(w)'
    BY <2>4 DEF Quiet
  <2>6. QED
    BY <2>4, <2>5
<1>10. UpsertOrder'
  BY <1>7, <1>8, <1>9 DEF UpsertOrder
<1>11. KeysInv'
  <2>1. \A n \in DOMAIN index : ~Dying(V, n)
    <3>1. \A n \in DOMAIN index : n # 0
      BY <1>1, AtRestIs, DataParts
    <3>2. QED
      BY <1>6, <3>1 DEF Dying
  <2>2. QED
    BY <1>1, <2>1 DEF KeysInv
<1>12. DeleteInv'
  BY <1>1 DEF DeleteInv
<1>13. QED
  BY <1>10, <1>11, <1>12 DEF Steady

LEMMA DeletionIsSteady ==
  ASSUME Inv, NEW S, NEW G, NEW E, IsDeletion(S, G, E)
  PROVE  Steady'
<1> DEFINE V == Range(todo')
<1>1. /\ AtRest /\ G \subseteq Keys /\ WritesOfDelete(V, G, E) /\ E \subseteq ValuesOf(G)
      /\ \A k \in G : Live(primary[k])
      /\ data' = data /\ index' = index
      /\ op' = IF G = {} THEN None ELSE [name |-> "delete", keys |-> G, val |-> Absent]
      /\ \A k \in G : primary'[k] = 0
  BY DEF IsDeletion, Deleted, files
<1>2. /\ TypeInv /\ EntriesInv(index, indexAt, freeIndex, {})
      /\ \A n \in DOMAIN index : IsPk(index[n]) => Leads(data, index[n])
      /\ \A k \in Keys : primary[k] # 0 =>
           Alive(data, primary[k]) /\ data[primary[k]].key = k
      /\ \A k \in Keys :
           IF indexAt[<<"pk", k>>] = 0 THEN primary[k] = 0
           ELSE primary[k] # 0 /\ index[indexAt[<<"pk", k>>]].at = {primary[k]}
  BY <1>1, AtRestIs DEF IsPk
<1>3. /\ 0 \notin DOMAIN data /\ 0 \notin DOMAIN index
      /\ \A k \in Keys : OldValue(k) \in Vals \cup {Absent} /\ (OldValue(k) # Absent <=> primary[k] # 0)
      /\ \A n \in DOMAIN index : index[n] \in Entries
  BY <1>1, <1>2, OldValueIs, DataParts DEF TypeInv
<1>4. ~\E n : Dying({}, n)
  BY DEF Dying
(* Memory has the entry of each field and key, and no other is left.       *)
<1>5. /\ \A n \in DOMAIN index, f \in Fields : IsOf(index[n], f) => indexAt[f] = n
      /\ \A f \in Fields : indexAt[f] # 0 =>
           indexAt[f] \in DOMAIN index /\ IsOf(index[indexAt[f]], f)
  BY <1>2, <1>4 DEF EntriesInv
<1>6. \A k \in Keys : <<"pk", k>> \in Fields /\ \A e : IsOf(e, <<"pk", k>>) <=> IsPk(e) /\ e.key = k
  BY FieldsAre DEF IsOf, IsPk
<1>7. \A v \in Vals : <<"unique", v>> \in Fields /\ \A e : IsOf(e, <<"unique", v>>) => ~IsPk(e)
  BY FieldsAre DEF IsOf, IsPk
<1>8. \A n \in DOMAIN index : IsPk(index[n]) => index[n].key \in Keys
  BY <1>3, EntryParts DEF IsPk
<1>9. \A n, m \in DOMAIN index :
        IsPk(index[n]) /\ IsPk(index[m]) /\ index[n].key = index[m].key => n = m
  <2>1. SUFFICES ASSUME NEW n \in DOMAIN index, NEW m \in DOMAIN index, IsPk(index[n]),
                        IsPk(index[m]), index[n].key = index[m].key
                 PROVE  n = m
    OBVIOUS
  <2> DEFINE f == <<"pk", index[n].key>>
  <2>2. f \in Fields /\ IsOf(index[n], f) /\ IsOf(index[m], f)
    BY <1>6, <1>8, <2>1
  <2> HIDE DEF f
  <2>3. QED
    BY <1>5, <2>2
<1>10. ASSUME NEW n \in DOMAIN index, IsPk(index[n])
       PROVE  \E o \in DOMAIN data :
                index[n].at = {o} /\ (Alive(data, o) => data[o].key = index[n].key)
  BY <1>2, <1>10 DEF Leads
<1>11. \A k \in G : /\ Known("pk", k) \in DOMAIN index /\ index[Known("pk", k)].key = k
                    /\ index[Known("pk", k)].at = {primary[k]}
  <2>1. \A k \in G : primary[k] # 0
    BY <1>1, <1>3 DEF Live
  <2>2. SUFFICES ASSUME NEW k \in G
                 PROVE  /\ Known("pk", k) \in DOMAIN index /\ index[Known("pk", k)].key = k
                        /\ index[Known("pk", k)].at = {primary[k]}
    OBVIOUS
  <2> DEFINE f == <<"pk", k>>
  <2>3. /\ f \in Fields /\ \A e : IsOf(e, f) <=> IsPk(e) /\ e.key = k
        /\ Known("pk", k) = indexAt[f] /\ indexAt[f] # 0 /\ index[indexAt[f]].at = {primary[k]}
    BY <1>1, <1>2, <1>6, <2>1 DEF Known
  <2> HIDE DEF f
  <2>4. QED
    BY <1>5, <2>3
<1>12. \A v \in Vals : Known("unique", v) # 0 => ~IsPk(index[Known("unique", v)])
  BY <1>5, <1>7 DEF Known
<1>13. E \subseteq Vals
  <2>1. \A k \in G : OldValue(k) \in Vals
    BY <1>1, <1>3 DEF Live
  <2>2. QED
    BY <1>1, <2>1 DEF ValuesOf
<1>14. ASSUME NEW w \in V
       PROVE  /\ w.do = "killEntry" => ~IsPk(index[w.at])
              /\ w.do = "kill" => /\ w.entry \in DOMAIN index /\ index[w.entry].key \in G
                                  /\ index[w.entry].at = {w.at}
  <2>1. /\ \A o, n : /\ KillData(o, n).do = "kill" /\ KillData(o, n).at = o
                     /\ KillData(o, n).entry = n
        /\ \A n : KillEntry(n).do = "killEntry" /\ KillEntry(n).at = n
        /\ \A f, k, at, n : Log(f, k, at, n).do = "log"
    BY DEF KillData, KillEntry, Log
  <2>2. \/ \E k \in G : w = KillData(primary[k], Known("pk", k))
        \/ \E v \in E : Known("unique", v) # 0 /\ w = KillEntry(Known("unique", v))
        \/ w.do = "log"
    <3> HIDE DEF V
    <3>1. \/ \E k \in G : w = KillData(primary[k], Known("pk", k))
          \/ \E v \in E : Known("unique", v) # 0 /\ w = KillEntry(Known("unique", v))
          \/ \E v \in ValuesOf(G) \ E : w = Log("unique", v, unique[v] \ SlotsOf(G), 0)
      BY <1>1 DEF WritesOfDelete
    <3>2. (\E v \in ValuesOf(G) \ E : w = Log("unique", v, unique[v] \ SlotsOf(G), 0))
            => w.do = "log"
      BY <2>1
    <3>3. QED
      BY <3>1, <3>2
  <2> HIDE DEF V
  <2>3. CASE \E k \in G : w = KillData(primary[k], Known("pk", k))
    BY <1>11, <2>1, <2>3
  <2>4. CASE \E v \in E : Known("unique", v) # 0 /\ w = KillEntry(Known("unique", v))
    BY <1>12, <1>13, <2>1, <2>4
  <2>5. CASE w.do = "log"
    BY <2>5
  <2>6. QED
    BY <2>2, <2>3, <2>4, <2>5
<1> HIDE DEF V
<1>15. KeysInv'
  <2>1. SUFFICES ASSUME op'.name = "delete", NEW n \in DOMAIN index, IsPk(index[n]), Dying(V, n)
                 PROVE  index[n].key \in op'.keys
    BY <1>1 DEF KeysInv, None, V
  <2>2. PICK w \in V : (w.do = "killEntry" /\ w.at = n) \/ (w.do = "kill" /\ w.entry = n)
    BY <2>1 DEF Dying
  <2>3. index[n].key \in G
    BY <1>14, <2>1, <2>2
  <2>4. QED
    BY <1>1, <2>1, <2>3 DEF None
<1>16. DeleteInv'
  <2>1. SUFFICES ASSUME op'.name = "delete" PROVE DeleteInv'
    BY DEF DeleteInv
  <2>2. \A k \in op'.keys : primary'[k] = 0
    BY <1>1, <2>1 DEF None
  <2>3. \A w \in V :
          /\ w.do = "killEntry" /\ w.at \in DOMAIN index /\ IsPk(index[w.at]) =>
               \A o \in index[w.at].at : ~Alive(data, o)
          /\ w.do = "kill" =>
               /\ w.entry \in DOMAIN index
               /\ IsPk(index[w.entry]) => index[w.entry].at = {w.at}
    BY <1>14
  <2>4. QED
    BY <1>1, <1>9, <1>10, <2>2, <2>3 DEF DeleteInv, V
<1>17. UpsertOrder'
  BY <1>1 DEF UpsertOrder, None
<1>18. QED
  BY <1>15, <1>16, <1>17 DEF Steady

LEMMA SteadyInit ==
  Init => Steady
BY DEF Init, Down, Steady, KeysInv, UpsertOrder, DeleteInv

LEMMA SteadyStep ==
  ASSUME Inv, Steady, [Next]_vars
  PROVE  Steady'
<1>1. ASSUME op'.name \notin {"upsert", "delete"}
      PROVE  Steady'
  BY <1>1 DEF Steady, KeysInv, UpsertOrder, DeleteInv
<1>2. CASE \E k \in Keys, v \in Vals : Upsert(k, v)
  BY <1>2, UpsertIsSteady
<1>3. CASE \E k \in Keys : Delete(k)
  BY <1>3, DeleteIs, DeletionIsSteady
<1>4. CASE \E S \in SUBSET Keys : DeleteSet(S)
  BY <1>4, DeleteSetIs, DeletionIsSteady
<1>5. CASE Vacuum \/ Stop \/ Open
  BY <1>1, <1>5 DEF Vacuum, Stop, Open, Down, None
<1>6. CASE WriteNext
  <2>1. op' = None \/ op' = op
    BY <1>6 DEF WriteNext
  <2>2. None.name = "none"
    BY DEF None
  <2>3. CASE op' = op /\ op.name = "upsert"
    <3>1. KeysInv' /\ UpsertOrder'
      BY <1>6, <2>3, KeysKept, UpsertOrderKept
    <3>2. QED
      BY <2>3, <3>1 DEF Steady, DeleteInv
  <2>4. CASE op' = op /\ op.name = "delete"
    <3>1. KeysInv' /\ DeleteInv'
      BY <1>6, <2>4, KeysKept, DeleteInvKept
    <3>2. QED
      BY <2>4, <3>1 DEF Steady, UpsertOrder
  <2>5. QED
    BY <1>1, <2>1, <2>2, <2>3, <2>4
<1>7. CASE UNCHANGED vars
  <2>1. /\ data' = data /\ index' = index /\ primary' = primary /\ op' = op /\ todo' = todo
    BY <1>7 DEF vars, files, memory
  <2>2. QED
    BY <2>1 DEF Steady, KeysInv, UpsertOrder, DeleteInv, Quiet
<1>8. QED
  BY <1>2, <1>3, <1>4, <1>5, <1>6, <1>7 DEF Next

(* The record of each key, as a reader of the files finds it.              *)
Read == Reads /\ RecordsAre

LEMMA StateIsRead ==
  ASSUME StopsAreSafe
  PROVE  Spec => [](Inv /\ Steady /\ Read)
<1>1. Init => Inv /\ Steady
  BY InvInit, SteadyInit
<1>2. Inv /\ Steady /\ [Next]_vars => Inv' /\ Steady'
  BY InvStep, SteadyStep
<1>3. Inv /\ Steady => Read
  BY HeldRead, RecordsRead DEF Inv, Read
<1>4. QED
  BY <1>1, <1>2, <1>3, PTL DEF Spec

---------------------------------------------------------------------------
(* What the steps do to the records.                                       *)

LEMMA RecordsBefore ==
  /\ (\A k \in Keys : Records'[k] = Records[k]) => Records' = Records
  /\ \A k \in Keys : \A v : Records'[k] = v /\ (\A j \in Keys \ {k} : Records'[j] = Records[j])
                          => Records' = [Records EXCEPT ![k] = v]
<1> DEFINE R == Records
           Q == Records'
<1>1. R = [k \in Keys |-> R[k]]
  BY DEF Records
<1>2. Q = [k \in Keys |-> Q[k]]
  BY DEF Records
<1> HIDE DEF R, Q
<1>3. (\A k \in Keys : Q[k] = R[k]) => Q = R
  BY <1>1, <1>2
<1>4. ASSUME NEW k \in Keys, NEW v, Q[k] = v, \A j \in Keys \ {k} : Q[j] = R[j]
      PROVE  Q = [R EXCEPT ![k] = v]
  <2>1. [R EXCEPT ![k] = v] = [j \in Keys |-> IF j = k THEN v ELSE R[j]]
    BY <1>1
  <2>2. \A j \in Keys : Q[j] = IF j = k THEN v ELSE R[j]
    BY <1>4
  <2>3. QED
    BY <1>2, <2>1, <2>2
<1>5. QED
  BY <1>3, <1>4 DEF R, Q

(* The primary entries of k are the same and find the same.                *)
SameEntries(k) ==
  \A n : /\ HasPk(n, k)' <=> HasPk(n, k)
         /\ HasPk(n, k) => \E o : /\ index[n].at = {o} /\ index'[n].at = {o}
                                  /\ Alive(data', o) <=> Alive(data, o)
                                  /\ Alive(data, o) => data'[o].val = data[o].val

LEMMA SameFound ==
  ASSUME TypeInv, RecordsAre, RecordsAre', NEW k \in Keys,
         \A n : HasPk(n, k)' <=> HasPk(n, k)
  PROVE  Found(k)' = Found(k)
<1> DEFINE a == Found(k)
           b == Found(k)'
<1>1. /\ \A m : HasPk(m, k) => m <= a
      /\ a = 0 => ~\E m : HasPk(m, k)
      /\ a # 0 => HasPk(a, k)
  BY DEF RecordsAre
<1>2. /\ \A m : HasPk(m, k) => m <= b
      /\ b = 0 => ~\E m : HasPk(m, k)
      /\ b # 0 => HasPk(b, k)
  BY DEF RecordsAre
<1> HIDE DEF a, b
<1>3. \A m : HasPk(m, k) => m \in Nat
  BY DataParts DEF HasPk
<1>4. CASE a = 0
  BY <1>1, <1>2, <1>4 DEF a, b
<1>5. CASE a # 0
  <2>1. b # 0
    BY <1>1, <1>2, <1>5
  <2>2. a <= b /\ b <= a /\ a \in Nat /\ b \in Nat
    BY <1>1, <1>2, <1>3, <1>5, <2>1
  <2>3. a = b
    BY <2>2
  <2>4. QED
    BY <2>3 DEF a, b
<1>6. QED
  BY <1>4, <1>5

LEMMA SameRecord ==
  ASSUME TypeInv, RecordsAre, RecordsAre', NEW k \in Keys, SameEntries(k)
  PROVE  Records'[k] = Records[k]
<1>1. Found(k)' = Found(k)
  BY SameFound DEF SameEntries
<1>2. CASE Found(k) = 0
  BY <1>1, <1>2 DEF RecordsAre
<1>3. CASE Found(k) # 0
  <2>1. HasPk(Found(k), k)
    BY <1>3 DEF RecordsAre
  <2>2. PICK o : /\ index[Found(k)].at = {o} /\ index'[Found(k)].at = {o}
                 /\ Alive(data', o) <=> Alive(data, o)
                 /\ Alive(data, o) => data'[o].val = data[o].val
    BY <2>1 DEF SameEntries
  <2>3. Records[k] = IF Alive(data, o) THEN data[o].val ELSE Absent
    BY <1>3, <2>2 DEF RecordsAre
  <2>4. Records'[k] = IF Alive(data', o) THEN data'[o].val ELSE Absent
    <3> DEFINE n == Found(k)
    <3>1. n' # 0 /\ index'[n'].at = {o}
      BY <1>1, <1>3, <2>2
    <3> HIDE DEF n
    <3>2. QED
      BY <3>1 DEF RecordsAre, n
  <2>5. QED
    BY <2>2, <2>3, <2>4
<1>4. QED
  BY <1>2, <1>3

(* Every primary entry leads to one slot, to its own record if to any.     *)
EntriesLead ==
  \A n \in DOMAIN index : IsPk(index[n]) =>
    \E o \in DOMAIN data :
      index[n].at = {o} /\ (Alive(data, o) => data[o].key = index[n].key)

LEMMA EntriesLeadSomewhere ==
  ASSUME Inv, Steady, Running
  PROVE  EntriesLead
<1>1. CASE op.name = "delete"
  BY <1>1 DEF Steady, DeleteInv, EntriesLead
<1>2. CASE op.name # "delete"
  <2>1. \A n \in DOMAIN index : index[n].field = "pk" => Leads(data, index[n])
    BY <1>2 DEF Inv, Sound, FilesInv
  <2>2. QED
    BY <2>1 DEF EntriesLead, IsPk, Leads
<1>3. QED
  BY <1>1, <1>2

(* The records a write leaves as they are.                                 *)
LEMMA PutLeaves ==
  ASSUME Inv, Steady, Running, todo # <<>>, WritePut(Head(todo)), NEW k \in Keys
  PROVE  SameEntries(k)
<1> DEFINE w == Head(todo)
<1>1. /\ IsWritten(data', data, w.at, w.slot) /\ ~Alive(data, w.at) /\ index' = index
      /\ EntriesLead /\ TypeInv /\ op.name = "upsert"
  <2>1. /\ TypeInv /\ w \in Range(todo) /\ PutInv(data, Range(todo), op) /\ op \in Operation
    BY NextWrite DEF Inv, Running, Sound, TypeInv
  <2>2. op.keys # {}
    BY <2>1 DEF PutInv, WritePut
  <2>3. op.name \in {"upsert", "delete"}
    BY <2>1, <2>2 DEF Operation
  <2>4. op.name # "delete"
    BY <2>1 DEF Inv, OrderInv, WritePut, Range
  <2>5. QED
    BY <2>1, <2>3, <2>4, PutIs, EntriesLeadSomewhere
<1>2. \A n \in DOMAIN index : IsPk(index[n]) => Leads(data, index[n]) /\ index[n].key \in Keys
  <2>1. \A n \in DOMAIN index : index[n].field = "pk" => Leads(data, index[n])
    BY <1>1 DEF Inv, Running, Sound, FilesInv
  <2>2. \A n \in DOMAIN index : IsPk(index[n]) => index[n].key \in Keys
    BY <1>1, DataParts, EntryParts DEF IsPk
  <2>3. QED
    BY <2>1, <2>2 DEF IsPk
<1> HIDE DEF w
<1>3. SUFFICES ASSUME NEW n, HasPk(n, k)
               PROVE  \E o : /\ index[n].at = {o} /\ index'[n].at = {o}
                             /\ Alive(data', o) <=> Alive(data, o)
                             /\ Alive(data, o) => data'[o].val = data[o].val
  BY <1>1 DEF SameEntries, HasPk
<1>4. PICK o \in DOMAIN data : index[n].at = {o} /\ data[o].key = index[n].key
  BY <1>2, <1>3 DEF HasPk, Leads
<1>5. Alive(data, o)
  BY <1>2, <1>3, <1>4, AbsentAssumption DEF HasPk, Alive
<1>6. o # w.at
  BY <1>1, <1>5
<1>7. o \in DOMAIN data' /\ data'[o] = data[o]
  BY <1>1, <1>4, <1>6 DEF IsWritten
<1>8. QED
  BY <1>1, <1>4, <1>5, <1>7 DEF Alive

LEMMA LogLeaves ==
  ASSUME EntriesLead, NEW e, NEW n, NEW m, Logged(e, n, m), data' = data,
         NEW k \in Keys, ~(IsPk(e) /\ e.key = k)
  PROVE  SameEntries(k)
<1>1. /\ DOMAIN index' = DOMAIN index \cup {n} /\ index'[n] = e
      /\ \A x \in DOMAIN index : x # n => index'[x] = index[x]
      /\ n \in DOMAIN index => ~IsPk(index[n])
  BY DEF Logged, IsWritten, DeadEntry, IsPk
<1>2. ASSUME NEW x
      PROVE  (HasPk(x, k)' <=> HasPk(x, k)) /\ (HasPk(x, k) => index'[x] = index[x])
  BY <1>1 DEF HasPk
<1>3. \A x : HasPk(x, k) => \E o : index[x].at = {o}
  BY DEF EntriesLead, HasPk
<1>4. QED
  BY <1>2, <1>3 DEF SameEntries

LEMMA KillEntryLeaves ==
  ASSUME Inv, Steady, Running, todo # <<>>, WriteKillEntry(Head(todo)),
         NEW k \in Keys, ~HasPk(Head(todo).at, k)
  PROVE  SameEntries(k)
<1>1. /\ data' = data /\ DOMAIN index' = DOMAIN index /\ EntriesLead
      /\ \A n \in DOMAIN index : index'[n] = IF n = Head(todo).at THEN DeadEntry ELSE index[n]
  BY KillEntryIs, EntriesLeadSomewhere
<1>2. ASSUME NEW x
      PROVE  (HasPk(x, k)' <=> HasPk(x, k)) /\ (HasPk(x, k) => index'[x] = index[x])
  BY <1>1 DEF HasPk, DeadEntry, IsPk
<1>3. \A x : HasPk(x, k) => \E o : index[x].at = {o}
  BY <1>1 DEF EntriesLead, HasPk
<1>4. QED
  BY <1>1, <1>2, <1>3 DEF SameEntries

LEMMA KillLeaves ==
  ASSUME Inv, Steady, Running, todo # <<>>, WriteKill(Head(todo)), NEW k \in Keys,
         ~Alive(data, Head(todo).at) \/ ~\E n : HasPk(n, k) /\ index[n].at = {Head(todo).at}
  PROVE  SameEntries(k)
<1> DEFINE x == Head(todo).at
<1>1. /\ DOMAIN data' = DOMAIN data /\ index' = index /\ EntriesLead
      /\ \A o \in DOMAIN data : o # x => data'[o] = data[o]
      /\ ~Alive(data', x)
  BY KillIs, EntriesLeadSomewhere
<1> HIDE DEF x
<1>2. SUFFICES ASSUME NEW n, HasPk(n, k)
               PROVE  \E o : /\ index[n].at = {o} /\ index'[n].at = {o}
                             /\ Alive(data', o) <=> Alive(data, o)
                             /\ Alive(data, o) => data'[o].val = data[o].val
  BY <1>1 DEF SameEntries, HasPk
<1>3. PICK o \in DOMAIN data : index[n].at = {o}
  BY <1>1, <1>2 DEF EntriesLead, HasPk
<1>4. CASE o # x
  BY <1>1, <1>3, <1>4 DEF Alive
<1>5. CASE o = x
  <2>1. ~Alive(data, x)
    BY <1>2, <1>3, <1>5 DEF x
  <2>2. QED
    BY <1>1, <1>3, <1>5, <2>1
<1>6. QED
  BY <1>4, <1>5

(* A write changes the record of one key of the operation, or none; when   *)
(* it is the last one, all have changed before.                            *)
OneChanged ==
  \/ Records' = Records
  \/ \E k \in op.keys : Records' = [Records EXCEPT ![k] = op.val]
Finished == Records' = Records /\ \A k \in op.keys : Records[k] = op.val

LEMMA UpsertEffect ==
  ASSUME Inv, Steady, Read, Inv', Read', WriteNext, op.name = "upsert"
  PROVE  OneChanged /\ (todo' = <<>> => Finished)
<1> DEFINE w == Head(todo)
           W == Range(todo)
           T == Range(Tail(todo))
<1>1. /\ Running /\ Running' /\ TypeInv /\ TypeInv' /\ OrderInv /\ todo # <<>>
      /\ op \in Operation /\ op.keys \subseteq Keys
      /\ UNCHANGED primary /\ RecordsAre /\ RecordsAre'
      /\ op' = IF todo' = <<>> THEN None ELSE op
      /\ None.name = "none" /\ None.keys = {}
  <2>1. Running /\ TypeInv /\ TypeInv' /\ OrderInv /\ op \in Operation
    BY DEF Inv, Running, TypeInv
  <2>2. op.keys \subseteq Keys
    BY <2>1 DEF Operation
  <2>3. op' = IF todo' = <<>> THEN None ELSE op
    BY DEF WriteNext
  <2>4. QED
    BY <2>1, <2>2, <2>3 DEF WriteNext, Running, None, Read
<1>2. /\ w = todo[1] /\ 1 \in DOMAIN todo /\ w \in Write /\ w \in W
      /\ W = {w} \cup T /\ W \subseteq Write
      /\ \A x \in T : \E j \in DOMAIN todo : j # 1 /\ todo[j] = x
  BY <1>1, NextWrite DEF Running
<1>3. \A i \in DOMAIN todo :
        /\ todo[i].do = "killEntry" => i = 1
        /\ todo[i].do = "log" /\ IsPk(todo[i].entry) => i = 1 \/ (i = 2 /\ todo[1].do = "put")
        /\ todo[i].do = "put" => i = 1
        /\ todo[i].do = "kill" => i = Len(todo) /\ todo[i].entry = 0
  BY <1>1 DEF Steady, UpsertOrder, OrderInv
<1>4. /\ \A x \in T : x.do # "put" /\ x.do # "killEntry" /\ (x.do = "kill" => x.entry = 0)
      /\ w.do # "put" => \A x \in T : x.do = "log" => ~IsPk(x.entry)
  BY <1>2, <1>3
<1>5. 0 \notin DOMAIN index /\ EntriesLead
  BY <1>1, DataParts, EntriesLeadSomewhere
<1>6. \/ WritePut(w) \/ WriteKill(w) \/ WriteLog(w) \/ WriteKillEntry(w)
  BY <1>2, WriteParts DEF WriteNext, WriteAll
<1>7. ASSUME NEW k \in op.keys, w.do # "put"
      PROVE  primary[k] # 0 /\ Alive(data, primary[k]) /\ data[primary[k]].val = op.val
  <2>1. TargetInv(data, W, op)
    BY <1>1 DEF Inv, Sound
  <2>2. ~PuttingFor(W, k)
    BY <1>2, <1>4, <1>7 DEF PuttingFor
  <2> HIDE DEF W
  <2>3. QED
    BY <1>7, <2>1, <2>2 DEF TargetInv
<1>8. ASSUME \A k \in Keys : SameEntries(k)
      PROVE  Records' = Records
  <2>1. \A k \in Keys : Records'[k] = Records[k]
    BY <1>1, <1>8, SameRecord
  <2>2. QED
    BY <2>1, RecordsBefore
<1>9. ASSUME NEW k \in op.keys, Records'[k] = op.val, \A j \in Keys \ {k} : SameEntries(j)
      PROVE  OneChanged
  <2>1. \A j \in Keys \ {k} : Records'[j] = Records[j]
    BY <1>1, <1>9, SameRecord
  <2>2. k \in Keys
    BY <1>1
  <2>3. Records' = [Records EXCEPT ![k] = op.val]
    BY <1>9, <2>1, <2>2, RecordsBefore
  <2>4. QED
    BY <2>3 DEF OneChanged
(* The last write is quiet, and comes when the records have changed.       *)
<1>10. ASSUME todo' = <<>>
       PROVE  Quiet(w) /\ \A k \in op.keys : Records[k] = op.val
  <2>1. W = {w}
    <3>1. \E m \in Nat : IsLeft(m)
      <4>1. CASE WriteKill(w)
        BY <1>1, <4>1, KillIs
      <4>2. CASE WriteLog(w)
        BY <1>1, <4>2, LogIs DEF Logged
      <4>3. QED
        BY <1>1, <1>6, <4>1, <4>2, PutIs, KillEntryIs
    <3>2. QED
      BY <1>1, <1>10, <3>1, LeftIs
  <2>2. Quiet(w)
    BY <2>1 DEF Steady, UpsertOrder
  <2>3. ASSUME NEW k \in op.keys
        PROVE  Records[k] = op.val
    <3>1. /\ w.do # "put" /\ (w.do = "log" => ~IsPk(w.entry)) /\ (w.do = "kill" => w.entry = 0)
          /\ w.do = "killEntry" => ~IsPk(index[w.at])
      BY <1>2, <1>3, <2>2 DEF Quiet
    <3>2. ~PuttingFor(W, k)
      BY <2>1, <3>1 DEF PuttingFor
    <3>3. ~Logging(W, <<"pk", k>>)
      <4>1. \A e : IsOf(e, <<"pk", k>>) => IsPk(e)
        BY DEF IsOf, IsPk
      <4>2. QED
        BY <2>1, <3>1, <4>1 DEF Logging
    <3>4. \A n \in DOMAIN index : HasPk(n, k) => ~Dying(W, n)
      BY <1>5, <2>1, <3>1 DEF Dying, HasPk
    <3>5. Settled(k) /\ k \in Keys
      BY <1>1, <3>2, <3>3, <3>4 DEF Settled
    <3>6. Records[k] = Held(k)
      BY <1>1, <3>5 DEF Read, Reads
    <3>7. QED
      BY <1>7, <2>3, <3>1, <3>6 DEF Held
  <2>4. QED
    BY <2>2, <2>3
<1> HIDE DEF w, W, T
(* The writes, one by one.                                                 *)
<1>11. ASSUME \A k \in Keys : SameEntries(k)
       PROVE  OneChanged /\ (todo' = <<>> => Finished)
  BY <1>8, <1>10, <1>11 DEF OneChanged, Finished
<1>12. CASE WritePut(w)
  BY <1>1, <1>11, <1>12, PutLeaves DEF w
<1>13. CASE WriteKill(w)
  <2>1. Len(todo) = 1 /\ w.entry = 0 /\ w.do = "kill"
    BY <1>2, <1>3, <1>13 DEF WriteKill
  <2>2. T = {}
    BY <1>1, <2>1, NextWrite DEF T, Running
  <2>3. \A n \in DOMAIN index : \A f : ~Dying(W, n) /\ ~Logging(W, f)
    BY <1>2, <1>5, <2>1, <2>2 DEF Dying, Logging
  <2>4. Freeing(W, w.at) /\ FreeingInv(data, index, indexAt, W)
    BY <1>1, <1>2, <2>1 DEF Freeing, Inv, Sound, W
  <2>5. \A n \in DOMAIN index : IsPk(index[n]) => w.at \notin index[n].at
    BY <2>3, <2>4 DEF FreeingInv, IsPk
  <2>6. \A k \in Keys : SameEntries(k)
    BY <1>1, <1>13, <2>5, KillLeaves DEF w, HasPk
  <2>7. QED
    BY <1>11, <2>6
<1>14. CASE WriteLog(w)
  <2>1. PICK n, m : Logged(w.entry, n, m)
    BY <1>1, <1>14, LogIs DEF w
  <2>2. data' = data /\ w.do = "log"
    BY <1>14 DEF WriteLog
  <2>3. \A k \in Keys : ~(IsPk(w.entry) /\ w.entry.key = k) => SameEntries(k)
    BY <1>5, <2>1, <2>2, LogLeaves
  <2>4. CASE ~IsPk(w.entry)
    BY <1>11, <2>3, <2>4
  <2>5. CASE IsPk(w.entry)
    <3>0. PICK k : k = w.entry.key
      OBVIOUS
    <3>1. k \in op.keys /\ primary[k] # 0 /\ w.entry.at = {primary[k]}
      <4>1. LogInv(W, op)
        BY <1>1 DEF Inv, Sound, W
      <4>2. QED
        BY <1>2, <2>2, <2>5, <3>0, <4>1 DEF LogInv, IsPk
    <3>2. Alive(data, primary[k]) /\ data[primary[k]].val = op.val
      BY <1>7, <2>2, <3>1
    <3>3. todo' # <<>>
      BY <1>10, <2>2, <2>5 DEF Quiet
    <3>4. /\ index'[n] = w.entry /\ n # 0 /\ n \in Nat
          /\ DOMAIN index' = DOMAIN index \cup {n}
          /\ \A x \in DOMAIN index : x # n => index'[x] = index[x]
          /\ n \in DOMAIN index => ~IsPk(index[n])
      BY <2>1 DEF Logged, IsWritten, DeadEntry, IsPk
    <3>5. k \in Keys
      BY <1>1, <3>1
    <3>6. \A x : HasPk(x, k)' <=> HasPk(x, k) \/ x = n
      BY <2>5, <3>0, <3>4 DEF HasPk
    <3>7. CASE Found(k)' = n
      <4>1. index'[Found(k)'].at = {primary[k]} /\ Found(k)' # 0
        BY <3>1, <3>4, <3>7
      <4>2. Records'[k] = IF Alive(data', primary[k]) THEN data'[primary[k]].val ELSE Absent
        BY <1>1, <3>5, <4>1 DEF RecordsAre
      <4>3. Records'[k] = op.val
        BY <2>2, <3>2, <4>2
      <4>4. \A j \in Keys \ {k} : SameEntries(j)
        BY <2>3, <3>0
      <4>5. QED
        BY <1>9, <3>1, <3>3, <4>3, <4>4
    <3>8. CASE Found(k)' # n
      <4> DEFINE a == Found(k)
                 b == Found(k)'
      <4>1. /\ \A x : HasPk(x, k) => x <= a
            /\ a # 0 => HasPk(a, k)
            /\ a = 0 => ~\E x : HasPk(x, k)
        BY <1>1, <3>5 DEF RecordsAre
      <4>2. /\ \A x : HasPk(x, k) \/ x = n => x <= b
            /\ b # 0 => HasPk(b, k) \/ b = n
            /\ b = 0 => ~\E x : x = n
        BY <1>1, <3>5, <3>6 DEF RecordsAre
      <4> HIDE DEF a, b
      <4>3. b # 0 /\ HasPk(b, k)
        BY <3>8, <4>2 DEF b
      <4>4. \A x : HasPk(x, k) => x \in Nat
        BY <1>1, DataParts DEF HasPk
      <4>5. a = b
        <5>1. a # 0
          BY <4>1, <4>3
        <5>2. a <= b /\ b <= a /\ a \in Nat /\ b \in Nat
          BY <4>1, <4>2, <4>3, <4>4, <5>1
        <5>3. QED
          BY <5>2
      <4>6. HasPk(b, k) /\ index'[b] = index[b] /\ Found(k)' = Found(k) /\ Found(k) = b
        BY <3>4, <3>8, <4>3, <4>5 DEF a, b, HasPk
      <4>7. PICK o : index[b].at = {o}
        BY <1>5, <4>6 DEF EntriesLead, HasPk
      <4>8. Records[k] = IF Alive(data, o) THEN data[o].val ELSE Absent
        BY <1>1, <3>5, <4>3, <4>6, <4>7 DEF RecordsAre
      <4>9. Records'[k] = IF Alive(data', o) THEN data'[o].val ELSE Absent
        <5>1. Found(k)' # 0 /\ index'[Found(k)'].at = {o}
          BY <4>3, <4>6, <4>7
        <5>2. QED
          BY <1>1, <3>5, <5>1 DEF RecordsAre
      <4>10. Records'[k] = Records[k]
        BY <2>2, <4>8, <4>9
      <4>11. \A j \in Keys : j # k => Records'[j] = Records[j]
        BY <1>1, <2>3, <3>0, SameRecord
      <4>12. \A j \in Keys : Records'[j] = Records[j]
        BY <4>10, <4>11
      <4>13. Records' = Records
        BY <4>12, RecordsBefore
      <4>14. QED
        BY <3>3, <4>13 DEF OneChanged
    <3>9. QED
      BY <3>7, <3>8
  <2>6. QED
    BY <2>4, <2>5
<1>15. CASE WriteKillEntry(w)
  <2>1. w.do = "killEntry" /\ data' = data /\ IsLeft(0)
    BY <1>1, <1>15, KillEntryIs DEF WriteKillEntry, w
  <2>2. \A k \in Keys : ~HasPk(w.at, k) => SameEntries(k)
    BY <1>1, <1>15, KillEntryLeaves DEF w
  <2>3. CASE \A k \in Keys : ~HasPk(w.at, k)
    BY <1>11, <2>2, <2>3
  <2>4. CASE \E k \in Keys : HasPk(w.at, k)
    <3>1. PICK k \in Keys : HasPk(w.at, k)
      BY <2>4
    <3>2. todo' # <<>>
      BY <1>10, <2>1, <3>1 DEF Quiet, HasPk
    <3>3. Dying(W, w.at)
      BY <1>2, <2>1 DEF Dying
    <3>4. k \in op.keys
      BY <1>1, <3>1, <3>3 DEF Steady, KeysInv, HasPk, W
    <3>5. todo' = Tail(todo)
      BY <2>1 DEF IsLeft
    <3>6. Settled(k)'
      <4> DEFINE V == Range(todo')
      <4>1. V = T
        BY <3>5 DEF T
      <4>2. ~PuttingFor(V, k)
        BY <1>4, <4>1 DEF PuttingFor
      <4>3. ~Logging(V, <<"pk", k>>)
        <5>1. \A e : IsOf(e, <<"pk", k>>) => IsPk(e)
          BY DEF IsOf, IsPk
        <5>2. QED
          BY <1>4, <2>1, <4>1, <5>1 DEF Logging
      <4>4. \A n \in DOMAIN index' : ~Dying(V, n)
        <5>1. DOMAIN index' = DOMAIN index
          BY <1>1, <1>15, KillEntryIs DEF w
        <5>2. QED
          BY <1>4, <1>5, <4>1, <5>1 DEF Dying
      <4>5. QED
        BY <4>2, <4>3, <4>4 DEF Settled
    <3>7. Records'[k] = Held(k)'
      BY <1>1, <3>1, <3>6 DEF Read, Reads
    <3>8. Held(k)' = op.val
      <4>1. primary[k] # 0 /\ data[primary[k]].val = op.val
        BY <1>7, <2>1, <3>4
      <4>2. QED
        BY <1>1, <2>1, <4>1 DEF Held
    <3>9. \A j \in Keys \ {k} : SameEntries(j)
      BY <2>2, <3>1 DEF HasPk
    <3>10. QED
      BY <1>9, <3>2, <3>4, <3>7, <3>8, <3>9
  <2>5. QED
    BY <2>3, <2>4
<1>16. QED
  BY <1>6, <1>12, <1>13, <1>14, <1>15

LEMMA DeleteEffect ==
  ASSUME Inv, Steady, Read, Inv', Read', WriteNext, op.name = "delete"
  PROVE  OneChanged /\ (todo' = <<>> => Finished)
<1> DEFINE w == Head(todo)
           W == Range(todo)
<1>1. /\ Running /\ Running' /\ TypeInv /\ TypeInv' /\ OrderInv /\ todo # <<>>
      /\ op.keys \subseteq Keys /\ op.val = Absent
      /\ UNCHANGED primary /\ RecordsAre /\ RecordsAre'
      /\ op' = IF todo' = <<>> THEN None ELSE op
      /\ None.name = "none" /\ None.keys = {}
  <2>1. Running /\ TypeInv /\ TypeInv' /\ OrderInv /\ op \in Operation
    BY DEF Inv, Running, TypeInv
  <2>2. op.keys \subseteq Keys /\ op.val = Absent
    BY <2>1 DEF Operation
  <2>3. op' = IF todo' = <<>> THEN None ELSE op
    BY DEF WriteNext
  <2>4. QED
    BY <2>1, <2>2, <2>3 DEF WriteNext, Running, None, Read
<1>2. w = todo[1] /\ 1 \in DOMAIN todo /\ w \in Write /\ w \in W
  BY <1>1, NextWrite DEF Running
<1>3. /\ w.do \in {"kill", "killEntry", "log"}
      /\ w.do = "log" => w.entry.field = "unique"
      /\ \A x \in W : x.do = "log" => x.entry.field = "unique"
  <2>1. \A i \in DOMAIN todo : /\ todo[i].do \in {"kill", "killEntry", "log"}
                               /\ todo[i].do = "log" => todo[i].entry.field = "unique"
    BY <1>1 DEF OrderInv
  <2>2. QED
    BY <1>2, <2>1 DEF Range
<1>4. /\ \A n, m \in DOMAIN index :
           IsPk(index[n]) /\ IsPk(index[m]) /\ index[n].key = index[m].key => n = m
      /\ \A x \in W :
           /\ x.do = "killEntry" /\ x.at \in DOMAIN index /\ IsPk(index[x.at]) =>
                \A o \in index[x.at].at : ~Alive(data, o)
           /\ x.do = "kill" =>
                /\ x.entry \in DOMAIN index
                /\ IsPk(index[x.entry]) => index[x.entry].at = {x.at}
      /\ \A k \in op.keys : primary[k] = 0
  BY DEF Steady, DeleteInv
<1>5. 0 \notin DOMAIN index /\ EntriesLead
  BY <1>1, DataParts, EntriesLeadSomewhere
<1>6. \/ WriteKill(w) \/ WriteLog(w) \/ WriteKillEntry(w)
  BY <1>3 DEF WriteNext, WritePut, WriteAll
<1>7. \A n, k : HasPk(n, k) => k \in Keys
  BY <1>1, DataParts, EntryParts DEF HasPk, IsPk
(* When nothing is left, memory has none of the keys.                      *)
<1>8. ASSUME todo' = <<>>, Records' = Records
      PROVE  \A k \in op.keys : Records[k] = op.val
  <2>1. SUFFICES ASSUME NEW k \in op.keys
                 PROVE  Records'[k] = Absent
    BY <1>1, <1>8
  <2>2. k \in Keys /\ k \notin op'.keys
    BY <1>1, <1>8
  <2>3. Records'[k] = Held(k)'
    BY <1>1, <2>2 DEF Read, Reads
  <2>4. QED
    BY <1>1, <1>4, <2>3 DEF Held
<1> HIDE DEF w, W
<1>9. ASSUME \A k \in Keys : Records'[k] = Records[k]
      PROVE  OneChanged /\ (todo' = <<>> => Finished)
  <2>1. Records' = Records
    BY <1>9, RecordsBefore
  <2>2. QED
    BY <1>8, <2>1 DEF OneChanged, Finished
<1>10. \A k \in Keys : SameEntries(k) => Records'[k] = Records[k]
  BY <1>1, SameRecord
<1>11. CASE WriteLog(w)
  <2>1. PICK n, m : Logged(w.entry, n, m)
    BY <1>1, <1>11, LogIs DEF w
  <2>2. data' = data /\ w.do = "log"
    BY <1>11 DEF WriteLog
  <2>3. \A k \in Keys : SameEntries(k)
    BY <1>3, <1>5, <2>1, <2>2, LogLeaves DEF IsPk
  <2>4. QED
    BY <1>9, <1>10, <2>3
<1>12. CASE WriteKillEntry(w)
  <2>1. /\ w.do = "killEntry" /\ data' = data /\ DOMAIN index' = DOMAIN index
        /\ \A n \in DOMAIN index : index'[n] = IF n = w.at THEN DeadEntry ELSE index[n]
    BY <1>1, <1>12, KillEntryIs DEF WriteKillEntry, w
  <2>2. ASSUME NEW k \in Keys, HasPk(w.at, k)
        PROVE  Records'[k] = Records[k]
    <3>1. Found(k) = w.at
      <4>1. Found(k) # 0
        BY <1>1, <2>2 DEF RecordsAre
      <4>2. HasPk(Found(k), k)
        BY <1>1, <4>1 DEF RecordsAre
      <4>3. QED
        BY <1>4, <2>2, <4>2 DEF HasPk
    <3>2. PICK o : index[w.at].at = {o}
      BY <1>5, <2>2 DEF EntriesLead, HasPk
    <3>3. ~Alive(data, o)
      BY <1>2, <1>4, <2>1, <2>2, <3>2 DEF HasPk
    <3>4. Records[k] = Absent
      <4>1. Found(k) # 0 /\ index[Found(k)].at = {o}
        BY <1>1, <2>2, <3>1, <3>2 DEF RecordsAre
      <4>2. QED
        BY <1>1, <3>3, <4>1 DEF RecordsAre
    <3>5. ~\E n : HasPk(n, k)'
      <4>1. ASSUME NEW n, HasPk(n, k)'
            PROVE  FALSE
        <5>1. n \in DOMAIN index /\ n # w.at /\ HasPk(n, k)
          BY <2>1, <4>1 DEF HasPk, DeadEntry, IsPk
        <5>2. QED
          BY <1>4, <2>2, <5>1 DEF HasPk
      <4>2. QED
        BY <4>1
    <3>6. Records'[k] = Absent
      BY <1>1, <3>5 DEF RecordsAre
    <3>7. QED
      BY <3>4, <3>6
  <2>3. \A k \in Keys : ~HasPk(w.at, k) => SameEntries(k)
    BY <1>1, <1>12, KillEntryLeaves DEF w
  <2>4. QED
    BY <1>9, <1>10, <2>2, <2>3
<1>13. CASE WriteKill(w)
  <2>1. /\ DOMAIN data' = DOMAIN data /\ index' = index
        /\ ~Alive(data', w.at) /\ w.do = "kill" /\ IsLeft(w.entry) /\ w.entry \in Nat
    BY <1>1, <1>13, KillIs DEF WriteKill, w
  <2>2. todo' # <<>>
    <3>1. w.entry # 0
      BY <1>2, <1>4, <1>5, <2>1
    <3>2. QED
      BY <1>1, <2>1, <3>1, LeftIs
  <2>3. \A k \in Keys :
          ~Alive(data, w.at) \/ ~(\E n : HasPk(n, k) /\ index[n].at = {w.at}) => SameEntries(k)
    BY <1>1, <1>13, KillLeaves DEF w
  <2>4. CASE \A k \in Keys : SameEntries(k)
    BY <1>9, <1>10, <2>4
  <2>5. CASE \E k \in Keys : ~SameEntries(k)
    <3>1. PICK k \in Keys : ~SameEntries(k)
      BY <2>5
    <3>2. PICK n : HasPk(n, k) /\ index[n].at = {w.at}
      BY <2>3, <3>1
    <3>3. Alive(data, w.at) /\ data[w.at].key = k
      <4>1. Alive(data, w.at)
        BY <2>3, <3>1
      <4>2. QED
        BY <1>5, <3>2, <4>1 DEF EntriesLead, HasPk
    <3>4. \A j \in Keys \ {k} : ~\E m : HasPk(m, j) /\ index[m].at = {w.at}
      BY <1>5, <3>3 DEF EntriesLead, HasPk
    <3>5. k \in op.keys
      <4>1. Freeing(W, w.at) /\ FreeingInv(data, index, indexAt, W)
        BY <1>1, <1>2, <2>1 DEF Freeing, Inv, Sound, W
      <4>2. w.at \in index[n].at /\ IsPk(index[n]) /\ n \in DOMAIN index /\ index[n].key = k
        BY <3>2 DEF HasPk
      <4>3. ~Logging(W, <<"pk", k>>)
        BY <1>3 DEF Logging, IsOf
      <4>4. Dying(W, n)
        BY <4>1, <4>2, <4>3 DEF FreeingInv, IsPk
      <4>5. QED
        BY <1>1, <4>2, <4>4 DEF Steady, KeysInv, W
    <3>6. Records'[k] = Absent
      <4>1. \A m : HasPk(m, k)' => m = n
        BY <1>4, <2>1, <3>2 DEF HasPk
      <4>2. Found(k)' # 0 => HasPk(Found(k), k)'
        BY <1>1 DEF RecordsAre
      <4>3. CASE Found(k)' = 0
        BY <1>1, <4>3 DEF RecordsAre
      <4>4. CASE Found(k)' # 0
        <5>1. Found(k)' = n
          <6>1. PICK b : b = Found(k)'
            OBVIOUS
          <6>2. b \in DOMAIN index' /\ IsPk(index'[b]) /\ index'[b].key = k
            BY <4>2, <4>4, <6>1 DEF HasPk
          <6>3. HasPk(b, k)'
            BY <6>2 DEF HasPk
          <6>4. QED
            BY <4>1, <6>1, <6>3
        <5>2. Found(k)' # 0 /\ index'[Found(k)'] = index[n] /\ index[n].at = {w.at}
          BY <2>1, <3>2, <4>4, <5>1
        <5>3. PICK o : o = w.at
          OBVIOUS
        <5>4. index'[Found(k)'].at = {o} /\ Found(k)' # 0 /\ ~Alive(data', o)
          BY <2>1, <5>2, <5>3
        <5>5. QED
          BY <1>1, <5>4 DEF RecordsAre
      <4>5. QED
        BY <4>3, <4>4
    <3>7. \A j \in Keys \ {k} : Records'[j] = Records[j]
      BY <1>10, <2>3, <3>4
    <3>8. Records' = [Records EXCEPT ![k] = op.val]
      BY <1>1, <3>6, <3>7, RecordsBefore
    <3>9. QED
      BY <2>2, <3>5, <3>8 DEF OneChanged
  <2>6. QED
    BY <2>4, <2>5
<1>14. QED
  BY <1>6, <1>11, <1>12, <1>13

LEMMA RecordsStay ==
  ASSUME UNCHANGED files
  PROVE  Records' = Records
BY DEF files, Records, OpenedPrimary, EntryOf, EntriesOf, OffsetsIn, Live

(* An open that clears entries reads the same records after each.          *)
LEMMA OpenEffect ==
  ASSUME Inv, Steady, Read, Inv', Read', WriteNext, op.name = "open"
  PROVE  Records' = Records
<1>1. /\ Running /\ TypeInv /\ OrderInv /\ todo # <<>> /\ op \in Operation
      /\ UNCHANGED primary /\ (op' = None \/ op' = op)
  BY DEF Inv, Running, TypeInv, WriteNext
<1>2. Running' /\ op.keys = {} /\ op'.keys = {}
  BY <1>1 DEF Operation, None, Running
<1>3. Head(todo) = todo[1] /\ todo[1].do = "killEntry"
  BY <1>1, NextWrite DEF OrderInv
<1>4. data' = data
  BY <1>3 DEF WriteNext, WritePut, WriteKill, WriteLog, WriteKillEntry, WriteAll
<1>5. \A k \in Keys : Records[k] = Held(k) /\ Records'[k] = Held(k)' /\ Held(k)' = Held(k)
  BY <1>1, <1>2, <1>4 DEF Read, Reads, Held
<1>6. QED
  BY <1>5, RecordsBefore

(* A vacuum ends with the records it began with.                           *)
LEMMA VacuumEffect ==
  ASSUME Inv, Read', WriteNext, op.name = "vacuum"
  PROVE  /\ todo' # <<>> => op' = op /\ before' = before
         /\ todo' = <<>> => op' = None /\ Records' = before
<1>1. PICK d, ix : Rewriting(d, ix)
  BY DEF Inv
<1>2. /\ op' = IF todo' = <<>> THEN None ELSE op
      /\ before' = IF todo' = <<>> THEN NoRecords ELSE before
      /\ UNCHANGED primary
  BY DEF WriteNext
<1>3. ASSUME todo' = <<>>
      PROVE  Records' = before
  <2>1. \A f, c : /\ Fill(f, c).do = "fill" /\ Fill(f, c).file = f
                  /\ Cut(f).do = "cut"
    BY DEF Fill, Cut
  <2>2. Head(todo).do \in {"cut", "fill"}
    <3>1. \/ todo = <<Cut("data"), Fill("data", d), Cut("index"), Fill("index", ix)>>
          \/ todo = <<Fill("data", d), Cut("index"), Fill("index", ix)>>
          \/ todo = <<Cut("index"), Fill("index", ix)>>
          \/ todo = <<Fill("index", ix)>>
      BY <1>1 DEF Rewriting
    <3>2. \/ Head(todo) = Cut("data") \/ Head(todo) = Fill("data", d)
          \/ Head(todo) = Cut("index") \/ Head(todo) = Fill("index", ix)
      BY <3>1
    <3>3. Cut("data").do = "cut" /\ Cut("index").do = "cut"
      BY DEF Cut
    <3>4. Fill("data", d).do = "fill" /\ Fill("index", ix).do = "fill"
      BY DEF Fill
    <3>5. QED
      BY <3>2, <3>3, <3>4
  <2>3. todo' = Tail(todo) /\ WriteAll(Head(todo))
    <3> DEFINE w == Head(todo)
    <3>1. WritePut(w) \/ WriteKill(w) \/ WriteLog(w) \/ WriteKillEntry(w) \/ WriteAll(w)
      BY DEF WriteNext
    <3>2. w.do \in {"cut", "fill"}
      BY <2>2
    <3> HIDE DEF w
    <3>3. WriteAll(w)
      BY <3>1, <3>2 DEF WritePut, WriteKill, WriteLog, WriteKillEntry
    <3>4. QED
      BY <3>3 DEF WriteAll, w
  <2>4. data = d /\ todo = <<Fill("index", ix)>>
    <3>1. \A x, y, z, u : /\ Tail(<<x, y, z, u>>) # <<>>
                          /\ Tail(<<x, y, z>>) # <<>> /\ Tail(<<x, y>>) # <<>>
      OBVIOUS
    <3>2. Tail(todo) = <<>>
      BY <1>3, <2>3
    <3>3. QED
      BY <1>1, <3>1, <3>2 DEF Rewriting
  <2>5. Head(todo) = Fill("index", ix)
    BY <2>4
  <2>6. data' = d
    BY <2>1, <2>3, <2>4, <2>5 DEF WriteAll
  <2>7. Running' /\ op'.keys = {}
    BY <1>2, <1>3 DEF Running, None
  <2>8. ASSUME NEW k \in Keys
        PROVE  Records'[k] = before[k]
    <3>1. Records'[k] = Held(k)'
      BY <2>7 DEF Read, Reads
    <3>2. before[k] = IF primary[k] = 0 THEN Absent ELSE d[primary[k]].val
      BY <1>1 DEF Rewriting, Saved
    <3>3. QED
      BY <1>2, <2>6, <3>1, <3>2 DEF Held
  <2>9. before = [k \in Keys |-> before[k]]
    BY DEF Inv, TypeInv
  <2>10. Records' = [k \in Keys |-> Records'[k]]
    BY DEF Records
  <2> DEFINE R == Records'
  <2> HIDE DEF R
  <2>11. R = before
    BY <2>8, <2>9, <2>10 DEF R
  <2>12. QED
    BY <2>11 DEF R
<1>4. QED
  BY <1>2, <1>3

(* Every step is a step of the map, or none.                               *)
LEMMA MapStep ==
  ASSUME StopsAreSafe, Inv, Steady, Read, Inv', Read', [Next]_vars
  PROVE  [Map!Next]_(Map!vars)
<1>1. TypeInv /\ op \in Operation
  BY DEF Inv, TypeInv
<1>2. ASSUME NEW k \in Keys, NEW v \in Vals, Upsert(k, v)
      PROVE  Map!Ask({k}, v)
  <2>1. Records' = Records
    BY <1>2, RecordsStay DEF Upsert
  <2>2. op.name = "none" /\ op' = [name |-> "upsert", keys |-> {k}, val |-> v]
    BY <1>2 DEF Upsert, AtRest
  <2>3. QED
    BY <2>1, <2>2 DEF Map!Ask
<1>3. ASSUME NEW S, NEW G, NEW E, IsDeletion(S, G, E)
      PROVE  Map!Ask(G, Absent) \/ UNCHANGED Map!vars
  <2>1. Records' = Records
    BY <1>3, RecordsStay DEF IsDeletion, Deleted
  <2>2. /\ op.name = "none"
        /\ op' = IF G = {} THEN None ELSE [name |-> "delete", keys |-> G, val |-> Absent]
    BY <1>3 DEF IsDeletion, Deleted, AtRest
  <2>3. CASE G = {}
    <3>1. op'.name = "none"
      BY <2>2, <2>3 DEF None
    <3>2. QED
      BY <2>1, <2>2, <3>1 DEF Map!vars
  <2>4. CASE G # {}
    <3>1. op' = [name |-> "delete", keys |-> G, val |-> Absent]
      BY <2>2, <2>4
    <3>2. QED
      BY <2>1, <2>2, <3>1 DEF Map!Ask
  <2>5. QED
    BY <2>3, <2>4
<1>4. ASSUME Vacuum
      PROVE  UNCHANGED Map!vars
  <2>1. op.name = "none" /\ op'.name = "vacuum" /\ before' = Records
    BY <1>4 DEF Vacuum, AtRest
  <2>2. QED
    BY <2>1 DEF Map!vars
<1>5. ASSUME Stop
      PROVE  Map!Stop
  <2>1. Records' = Records
    BY <1>5, RecordsStay DEF Stop
  <2>2. op.name # "vacuum" /\ op'.name = "down"
    BY <1>5 DEF Stop, StopsAreSafe, AtRest, Down
  <2>3. QED
    BY <2>1, <2>2 DEF Map!Stop, Map!NoCall
<1>6. ASSUME Open
      PROVE  Map!Open \/ UNCHANGED Map!vars
  <2>1. Records' = Records
    BY <1>6, RecordsStay DEF Open
  <2>2. op.name = "down" /\ op'.name \in {"none", "open"}
    BY <1>6 DEF Open, Down, None
  <2>3. CASE op'.name = "none"
    BY <2>1, <2>2, <2>3 DEF Map!Open
  <2>4. CASE op'.name = "open"
    BY <2>1, <2>2, <2>4 DEF Map!vars
  <2>5. QED
    BY <2>2, <2>3, <2>4
<1>7. ASSUME WriteNext
      PROVE  (\E k \in Keys : Map!Effect(k)) \/ Map!Answer \/ Map!Open \/ UNCHANGED Map!vars
  <2>1. /\ op' = IF todo' = <<>> THEN None ELSE op
        /\ before' = IF todo' = <<>> THEN NoRecords ELSE before
        /\ None.name = "none"
    BY <1>7 DEF WriteNext, None
  <2>2. op.name \in {"upsert", "delete", "open", "vacuum"}
    BY <1>1, <1>7 DEF TypeInv, Operation, WriteNext
  <2>3. CASE op.name \in {"upsert", "delete"}
    <3>1. OneChanged /\ (todo' = <<>> => Finished) /\ op.keys \subseteq Keys
      BY <1>1, <1>7, <2>3, UpsertEffect, DeleteEffect DEF Operation
    <3>2. CASE todo' = <<>>
      <4>1. Records' = Records /\ \A k \in op.keys : Records[k] = op.val
        BY <3>1, <3>2 DEF Finished
      <4>2. QED
        BY <2>1, <2>3, <3>2, <4>1 DEF Map!Answer, Map!NoCall
    <3>3. CASE todo' # <<>> /\ Records' = Records
      BY <2>1, <2>3, <3>3 DEF Map!vars
    <3>4. ASSUME todo' # <<>>, NEW k \in op.keys, Records' = [Records EXCEPT ![k] = op.val]
          PROVE  Map!Effect(k) /\ k \in Keys
      <4>1. op' = op
        BY <2>1, <3>4
      <4>2. QED
        BY <2>3, <3>1, <3>4, <4>1 DEF Map!Effect
    <3>5. QED
      BY <3>1, <3>2, <3>3, <3>4 DEF OneChanged
  <2>4. CASE op.name = "open"
    <3>1. Records' = Records
      BY <1>7, <2>4, OpenEffect
    <3>2. CASE todo' = <<>>
      BY <2>1, <2>4, <3>1, <3>2 DEF Map!Open
    <3>3. CASE todo' # <<>>
      BY <2>1, <2>4, <3>1, <3>3 DEF Map!vars
    <3>4. QED
      BY <3>2, <3>3
  <2>5. CASE op.name = "vacuum"
    BY <1>7, <2>1, <2>5, VacuumEffect DEF Map!vars
  <2>6. QED
    BY <2>2, <2>3, <2>4, <2>5
<1>8. ASSUME UNCHANGED vars
      PROVE  UNCHANGED Map!vars
  <2>1. UNCHANGED <<op, before, files>>
    BY <1>8 DEF vars
  <2>2. Records' = Records
    BY <2>1, RecordsStay
  <2>3. QED
    BY <2>1, <2>2 DEF Map!vars
<1>9. CASE \E k \in Keys, v \in Vals : Upsert(k, v)
  <2>1. PICK k \in Keys, v \in Vals : Upsert(k, v)
    BY <1>9
  <2>2. {k} \in SUBSET Keys /\ v \in Vals \cup {Absent}
    OBVIOUS
  <2>3. QED
    BY <1>2, <2>1, <2>2 DEF Map!Next
<1>10. CASE (\E k \in Keys : Delete(k)) \/ (\E S \in SUBSET Keys : DeleteSet(S))
  <2>1. \E S, G, E : IsDeletion(S, G, E)
    BY <1>10, DeleteIs, DeleteSetIs
  <2>2. PICK S, G, E : IsDeletion(S, G, E)
    BY <2>1
  <2>3. G \in SUBSET Keys
    BY <2>2 DEF IsDeletion
  <2>4. QED
    BY <1>3, <2>2, <2>3 DEF Map!Next
<1>11. QED
  BY <1>4, <1>5, <1>6, <1>7, <1>8, <1>9, <1>10 DEF Next, Map!Next

(* The drawer is the map DrawerMap specifies: each call changes the        *)
(* records it names, one at a time, to what it asks, and a stop leaves     *)
(* each of them old or new.                                                *)
THEOREM DrawerImplementsMap ==
  ASSUME StopsAreSafe
  PROVE  Spec => ImplementsDrawerMap
<1>1. Init => Map!Init
  <2>1. SUFFICES ASSUME Init
                 PROVE  Map!Init
    OBVIOUS
  <2>2. op.name = "down" /\ data = <<>>
    BY <2>1 DEF Init, Down
  <2>3. \A o : ~Live(o)
    BY <2>2 DEF Live
  <2>4. Records = [k \in Keys |-> Absent]
    BY <2>3 DEF Records
  <2>5. QED
    BY <2>2, <2>4 DEF Map!Init, Map!NoCall
<1>2. Inv /\ Steady /\ Read /\ Inv' /\ Read' /\ [Next]_vars => [Map!Next]_(Map!vars)
  BY MapStep
<1>3. QED
  BY <1>1, <1>2, StateIsRead, PTL DEF Spec, Map!Spec, ImplementsDrawerMap
=============================================================================
