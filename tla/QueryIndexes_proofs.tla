-------------------------- MODULE QueryIndexes_proofs --------------------------
(***************************************************************************)
(* Proofs about QueryIndexes: an index that is trusted is exact, and so is *)
(* every answer, for any records, values and filters and any sequence of   *)
(* writes, declarations, rebuilds, compactions, restarts and queries.      *)
(***************************************************************************)
EXTENDS QueryIndexes, FiniteSetTheorems, TLAPS

---------------------------------------------------------------------------
(* The invariants.                                                         *)

(* The primary index knows where each record is, and of no other record.   *)
DataInv ==
  /\ \A k \in Keys : primary[k] # None =>
       rec[primary[k]] # None /\ rec[primary[k]].key = k
  /\ \A o \in Offsets : rec[o] # None => primary[rec[o].key] = o

(* The metadata file says what memory says; an index in memory is one that *)
(* is maintained, the file has the same entries, and a unique field is     *)
(* never without.                                                          *)
IndexInv ==
  /\ meta = Metadata(unique, indexed, materialized)
  /\ unique => mem # None
  /\ mem # None => (unique \/ (indexed /\ materialized)) /\ disk = mem
  /\ TrustedIndexIsExact

Inv == TypeOK /\ DataInv /\ IndexInv

(* The record r belongs in the index under the key k.                      *)
Entry(r, k) ==
  r # None /\ r.value # None /\ Indexable(r.value) /\ IndexKey(r.value) = k

---------------------------------------------------------------------------
(* The index built from the records, entry by entry.  The lemmas are       *)
(* implications so that they can be used of the next state too.            *)

LEMMA LiveIs ==
  TypeOK /\ DataInv => Live = {o \in Offsets : rec[o] # None}
<1> SUFFICES ASSUME TypeOK, DataInv
             PROVE  Live = {o \in Offsets : rec[o] # None}
  OBVIOUS
<1>1. ASSUME NEW o \in Live
      PROVE  o \in Offsets /\ rec[o] # None
  BY <1>1 DEF Live, TypeOK, DataInv
<1>2. ASSUME NEW o \in Offsets, rec[o] # None
      PROVE  o \in Live
  <2>1. rec[o].key \in Keys /\ primary[rec[o].key] = o
    BY <1>2 DEF TypeOK, DataInv, Record
  <2>2. QED
    BY <2>1, OffsetsAssumption DEF Live
<1>3. QED
  BY <1>1, <1>2

LEMMA BuiltIs ==
  TypeOK /\ DataInv =>
    /\ Built \in Index
    /\ \A k \in IndexKeys, o \in Offsets : o \in Built[k] <=> Entry(rec[o], k)
<1> SUFFICES ASSUME TypeOK, DataInv
             PROVE  /\ Built \in Index
                    /\ \A k \in IndexKeys, o \in Offsets :
                         o \in Built[k] <=> Entry(rec[o], k)
  OBVIOUS
<1>1. Live = {o \in Offsets : rec[o] # None}
  BY LiveIs
<1>2. QED
  BY <1>1 DEF Built, Index, Has, KeyAt, Entry

LEMMA ExactIs ==
  TypeOK /\ DataInv => \A map \in Index :
    map = Built <=> \A k \in IndexKeys, o \in Offsets :
                      o \in map[k] <=> Entry(rec[o], k)
<1> SUFFICES ASSUME TypeOK, DataInv, NEW map \in Index,
                    \A k \in IndexKeys, o \in Offsets :
                      o \in map[k] <=> Entry(rec[o], k)
             PROVE  map = Built
  BY BuiltIs
<1>1. Built \in Index /\ \A k \in IndexKeys, o \in Offsets :
                           o \in Built[k] <=> Entry(rec[o], k)
  BY BuiltIs
<1>2. ASSUME NEW k \in IndexKeys
      PROVE  map[k] = Built[k]
  <2>1. map[k] \subseteq Offsets /\ Built[k] \subseteq Offsets
    BY <1>1 DEF Index
  <2>2. \A o \in Offsets : o \in map[k] <=> o \in Built[k]
    BY <1>1
  <2>3. QED
    BY <2>1, <2>2
<1>3. QED
  BY <1>1, <1>2 DEF Index

LEMMA AtMostOne ==
  ASSUME NEW S, IsFiniteSet(S)
  PROVE  Cardinality(S) <= 1 <=> \A x, y \in S : x = y
<1>1. ASSUME Cardinality(S) <= 1, NEW x \in S, NEW y \in S, x # y
      PROVE  FALSE
  <2>1. {x} \cup {y} \subseteq S /\ Cardinality({x} \cup {y}) = 2
    <3>1. IsFiniteSet({x}) /\ Cardinality({x}) = 1
      BY FS_Singleton
    <3>2. y \notin {x}
      BY <1>1
    <3>3. Cardinality({x} \cup {y}) = Cardinality({x}) + 1
      BY <3>1, <3>2, FS_AddElement
    <3>4. QED
      BY <1>1, <3>1, <3>3
  <2>2. Cardinality({x} \cup {y}) <= Cardinality(S)
    BY <2>1, FS_Subset
  <2>3. 2 <= Cardinality(S)
    BY <2>1, <2>2
  <2>4. Cardinality(S) \in Nat
    BY FS_CardinalityType
  <2>5. QED
    BY <1>1, <2>3, <2>4
<1>2. ASSUME \A x, y \in S : x = y
      PROVE  Cardinality(S) <= 1
  <2>1. CASE S = {}
    BY <2>1, FS_EmptySet
  <2>2. CASE S # {}
    <3>1. PICK x \in S : S = {x}
      BY <1>2, <2>2
    <3>2. QED
      BY <3>1, FS_Singleton
  <2>3. QED
    BY <2>1, <2>2
<1>3. QED
  BY <1>1, <1>2

LEMMA NoDuplicatesIs ==
  TypeOK /\ DataInv =>
    (NoDuplicates <=> \A k \in IndexKeys, o, p \in Offsets :
                        Entry(rec[o], k) /\ Entry(rec[p], k) => o = p)
<1> SUFFICES ASSUME TypeOK, DataInv
             PROVE  NoDuplicates <=> \A k \in IndexKeys, o, p \in Offsets :
                      Entry(rec[o], k) /\ Entry(rec[p], k) => o = p
  OBVIOUS
<1>1. /\ \A k \in IndexKeys : Built[k] \subseteq Offsets
      /\ \A k \in IndexKeys, o \in Offsets : o \in Built[k] <=> Entry(rec[o], k)
  BY BuiltIs DEF Index
<1>2. \A k \in IndexKeys : IsFiniteSet(Built[k])
  BY <1>1, FS_Subset, OffsetsAssumption
<1>3. \A k \in IndexKeys :
        Cardinality(Built[k]) <= 1 <=> \A o, p \in Built[k] : o = p
  BY <1>2, AtMostOne
<1>4. QED
  BY <1>1, <1>3 DEF NoDuplicates

LEMMA DataSame ==
  ASSUME UNCHANGED data
  PROVE  /\ Live' = Live /\ Built' = Built
         /\ NoDuplicates' <=> NoDuplicates
         /\ DataInv => DataInv'
<1>1. Live' = Live /\ (DataInv => DataInv')
  BY DEF data, Live, DataInv
<1>2. Built' = Built
  BY <1>1 DEF data, Built, Has, KeyAt
<1>3. QED
  BY <1>1, <1>2 DEF NoDuplicates

LEMMA MemIsIndex ==
  ASSUME TypeOK
  PROVE  /\ mem # None => mem \in Index
         /\ \A m \in Index : m # None
BY NoneAssumption DEF TypeOK

LEMMA OpsBounded ==
  ASSUME TypeOK, Changes
  PROVE  ops' \in 0..MaxOps /\ answer' = None
BY OffsetsAssumption DEF TypeOK, Changes

---------------------------------------------------------------------------
(* Writes.                                                                 *)

(* A record is written at a free slot and its old slot is freed.           *)
LEMMA UpsertKeepsData ==
  ASSUME TypeOK, DataInv, NEW key \in Keys, NEW value \in Values \cup {None},
         NEW new \in Offsets, rec[new] = None,
         rec' = [o \in Offsets |->
                   IF o = new THEN [key |-> key, value |-> value]
                   ELSE IF o = primary[key] THEN None ELSE rec[o]],
         primary' = [primary EXCEPT ![key] = new]
  PROVE  /\ DataInv'
         /\ rec' \in [Offsets -> Record \cup {None}]
         /\ primary' \in [Keys -> Offsets \cup {None}]
<1> DEFINE r == [key |-> key, value |-> value]
<1>1. r \in Record /\ r # None /\ r.key = key
  BY NoneAssumption DEF Record
<1>2. \A k \in Keys : primary'[k] = IF k = key THEN new ELSE primary[k]
  BY DEF TypeOK
<1>3. \A o \in Offsets : rec'[o] = IF o = new THEN r
                                   ELSE IF o = primary[key] THEN None ELSE rec[o]
  OBVIOUS
<1>4. \A o \in Offsets : rec[o] # None => rec[o].key \in Keys
  BY DEF TypeOK, Record
<1>5. \A k \in Keys : primary[k] \in Offsets \cup {None} /\ primary[k] # new
  BY OffsetsAssumption DEF TypeOK, DataInv
<1>6. rec' \in [Offsets -> Record \cup {None}]
  BY <1>1 DEF TypeOK
<1>7. primary' \in [Keys -> Offsets \cup {None}]
  BY DEF TypeOK
<1> HIDE DEF r
<1>8. ASSUME NEW k \in Keys, primary'[k] # None
      PROVE  rec'[primary'[k]] # None /\ rec'[primary'[k]].key = k
  <2>1. CASE k = key
    BY <1>1, <1>2, <1>3, <2>1
  <2>2. CASE k # key
    <3>1. primary'[k] = primary[k] /\ primary[k] \in Offsets /\ primary[k] # new
      BY <1>2, <1>5, <1>8, <2>2
    <3>2. primary[k] # primary[key]
      <4>1. primary[k] # None
        BY <1>8, <3>1
      <4>2. rec[primary[k]].key = k
        BY <4>1 DEF DataInv
      <4>3. primary[key] # None => rec[primary[key]].key = key
        BY DEF DataInv
      <4>4. QED
        BY <2>2, <4>1, <4>2, <4>3
    <3>3. QED
      BY <1>3, <1>8, <3>1, <3>2 DEF DataInv
  <2>3. QED
    BY <2>1, <2>2
<1>9. ASSUME NEW o \in Offsets, rec'[o] # None
      PROVE  primary'[rec'[o].key] = o
  <2>1. CASE o = new
    BY <1>1, <1>2, <1>3, <2>1
  <2>2. CASE o # new
    <3>1. o # primary[key] /\ rec'[o] = rec[o]
      BY <1>3, <1>9, <2>2
    <3>2. primary[rec[o].key] = o /\ rec[o].key \in Keys
      BY <1>4, <1>9, <3>1 DEF DataInv
    <3>3. QED
      BY <1>2, <3>1, <3>2
  <2>3. QED
    BY <2>1, <2>2
<1>10. QED
  BY <1>6, <1>7, <1>8, <1>9 DEF DataInv

LEMMA DeleteKeepsData ==
  ASSUME TypeOK, DataInv, NEW key \in Keys, primary[key] # None,
         rec' = [rec EXCEPT ![primary[key]] = None],
         primary' = [primary EXCEPT ![key] = None]
  PROVE  /\ DataInv'
         /\ rec' \in [Offsets -> Record \cup {None}]
         /\ primary' \in [Keys -> Offsets \cup {None}]
<1>1. \A k \in Keys : primary'[k] = IF k = key THEN None ELSE primary[k]
  BY DEF TypeOK
<1>2. \A o \in Offsets : rec'[o] = IF o = primary[key] THEN None ELSE rec[o]
  BY DEF TypeOK
<1>3. \A o \in Offsets : rec[o] # None => rec[o].key \in Keys
  BY DEF TypeOK, Record
<1>4. \A k \in Keys : primary[k] \in Offsets \cup {None}
  BY DEF TypeOK
<1>5. \A k \in Keys : primary'[k] # None =>
        rec'[primary'[k]] # None /\ rec'[primary'[k]].key = k
  BY <1>1, <1>2, <1>4 DEF DataInv
<1>6. \A o \in Offsets : rec'[o] # None => primary'[rec'[o].key] = o
  BY <1>1, <1>2, <1>3 DEF DataInv
<1>7. QED
  BY <1>5, <1>6 DEF DataInv, TypeOK

(* What update_secondary_index_for_record_change makes of a map that was   *)
(* exact.                                                                  *)
Joins(value, k) == value # None /\ Indexable(value) /\ IndexKey(value) = k

LEMMA MovedIsExact ==
  ASSUME NEW map \in Index, NEW old \in Offsets \cup {None}, NEW new, NEW value,
         \A k \in IndexKeys, o \in Offsets : o \in map[k] <=> Entry(rec[o], k)
  PROVE  \A k \in IndexKeys, o \in Offsets :
           o \in Moved(map, old, new, value)[k] <=>
             (o # old /\ Entry(rec[o], k)) \/ (o = new /\ Joins(value, k))
<1> SUFFICES ASSUME NEW k \in IndexKeys, NEW o \in Offsets
             PROVE  o \in Moved(map, old, new, value)[k] <=>
               (o # old /\ Entry(rec[o], k)) \/ (o = new /\ Joins(value, k))
  OBVIOUS
<1>1. o \in Moved(map, old, new, value)[k] <=>
        \/ o \in map[k] /\ ~(old # None /\ Has(old) /\ KeyAt(old) = k /\ o = old)
        \/ Joins(value, k) /\ o = new
  BY DEF Moved, Joins
<1>2. o = old => (Entry(rec[o], k) <=> old # None /\ Has(old) /\ KeyAt(old) = k)
  BY OffsetsAssumption DEF Entry, Has, KeyAt
<1>3. QED
  BY <1>1, <1>2

LEMMA MaintainTypes ==
  ASSUME TypeOK, NEW old, NEW new, NEW value,
         value # None => new \in Offsets, Maintain(old, new, value)
  PROVE  mem' \in Index \cup {None} /\ disk' \in Index
<1>1. CASE Maintained
  <2>1. mem \in Index
    BY <1>1, MemIsIndex DEF Maintained
  <2>2. mem' \in Index
    BY <1>1, <2>1 DEF Maintain, Moved, Index
  <2>3. disk \in Index
    BY DEF TypeOK
  <2>4. QED
    BY <1>1, <2>2, <2>3 DEF Maintain, Index
<1>2. CASE ~Maintained
  BY <1>2 DEF Maintain, TypeOK
<1>3. QED
  BY <1>1, <1>2

LEMMA ExactNext ==
  ASSUME TypeOK', DataInv'
  PROVE  /\ \A map \in Index :
              map = Built' <=> \A k \in IndexKeys, o \in Offsets :
                                 o \in map[k] <=> Entry(rec'[o], k)
         /\ NoDuplicates' <=> \A k \in IndexKeys, o, p \in Offsets :
                                Entry(rec'[o], k) /\ Entry(rec'[p], k) => o = p
<1>1. (TypeOK /\ DataInv => \A map \in Index :
        map = Built <=> \A k \in IndexKeys, o \in Offsets :
                          o \in map[k] <=> Entry(rec[o], k))'
  BY ExactIs, PTL
<1>2. (TypeOK /\ DataInv =>
        (NoDuplicates <=> \A k \in IndexKeys, o, p \in Offsets :
                            Entry(rec[o], k) /\ Entry(rec[p], k) => o = p))'
  BY NoDuplicatesIs, PTL
<1>3. QED
  BY <1>1, <1>2

(* A write that frees the slot old and lets a record with value join at    *)
(* new, and that maintains the index as it does, keeps it exact and free   *)
(* of duplicates.                                                          *)
LEMMA WriteKeepsIndex ==
  ASSUME Inv, TypeOK', DataInv',
         NEW old \in Offsets \cup {None}, NEW new,
         NEW value \in Values \cup {None}, value # None => new \in Offsets,
         \A k \in IndexKeys, o \in Offsets : Entry(rec'[o], k) <=>
           (o # old /\ Entry(rec[o], k)) \/ (o = new /\ Joins(value, k)),
         ~TakenByAnother(value, old),
         Maintain(old, new, value),
         UNCHANGED <<unique, indexed, materialized, validated, meta>>
  PROVE  IndexInv'
<1>1. TypeOK /\ DataInv /\ IndexInv /\ TrustedIndexIsExact
  BY DEF Inv, IndexInv
<1>2. mem # None => Maintained /\ mem \in Index
  BY <1>1, MemIsIndex DEF IndexInv, Maintained
<1>3. CASE mem = None
  <2>1. mem' = None
    BY <1>3 DEF Maintain, Maintained
  <2>2. QED
    BY <1>1, <1>3, <2>1 DEF IndexInv, TrustedIndexIsExact, Metadata
<1>4. CASE mem # None
  <2>1. mem' = Moved(mem, old, new, value) /\ mem \in Index
    BY <1>2, <1>4 DEF Maintain
  <2>2. mem' \in Index /\ disk' = mem'
    <3>1. mem' \in Index
      BY <2>1 DEF Moved, Index
    <3>2. disk' = [k \in IndexKeys |-> IF mem'[k] # mem[k] THEN mem'[k] ELSE mem[k]]
      BY <1>1, <1>2, <1>4 DEF Maintain, IndexInv
    <3>3. QED
      BY <3>1, <3>2 DEF Index
  <2>3. mem' # None
    BY <2>2, NoneAssumption
  <2>4. ASSUME unique \/ (materialized /\ validated)
        PROVE  mem' = Built'
    <3>1. mem = Built
      BY <1>1, <1>4, <2>4 DEF TrustedIndexIsExact
    <3>2. \A k \in IndexKeys, o \in Offsets : o \in mem[k] <=> Entry(rec[o], k)
      BY <1>1, <2>1, <3>1, ExactIs
    <3>3. \A k \in IndexKeys, o \in Offsets : o \in mem'[k] <=> Entry(rec'[o], k)
      BY <2>1, <3>2, MovedIsExact
    <3>4. QED
      BY <2>2, <3>3, ExactNext
  <2>5. ASSUME unique
        PROVE  NoDuplicates'
    <3>1. mem = Built /\ NoDuplicates
      BY <1>1, <1>4, <2>5 DEF TrustedIndexIsExact
    <3>2. /\ \A k \in IndexKeys, o \in Offsets : o \in mem[k] <=> Entry(rec[o], k)
          /\ \A k \in IndexKeys, o, p \in Offsets :
               Entry(rec[o], k) /\ Entry(rec[p], k) => o = p
      BY <1>1, <2>1, <3>1, ExactIs, NoDuplicatesIs
    <3>3. ASSUME NEW k \in IndexKeys, Joins(value, k), NEW p \in Offsets, p # old
          PROVE  ~Entry(rec[p], k)
      <4>1. mem[k] \ {old} = {}
        BY <1>4, <2>5, <3>3 DEF TakenByAnother, Joins
      <4>2. QED
        BY <3>2, <3>3, <4>1
    <3>4. \A k \in IndexKeys, o, p \in Offsets :
            Entry(rec'[o], k) /\ Entry(rec'[p], k) => o = p
      BY <3>2, <3>3
    <3>5. QED
      BY <3>4, ExactNext
  <2>6. TrustedIndexIsExact'
    BY <2>4, <2>5 DEF TrustedIndexIsExact
  <2>7. QED
    BY <1>1, <1>4, <2>2, <2>3, <2>6 DEF IndexInv, Metadata
<1>5. QED
  BY <1>3, <1>4

LEMMA UpsertKeepsInv ==
  ASSUME Inv, NEW key \in Keys, NEW value \in Values \cup {None}, Upsert(key, value)
  PROVE  Inv'
<1> DEFINE old == primary[key]
<1>1. TypeOK /\ DataInv /\ IndexInv /\ Changes /\ old \in Offsets \cup {None}
  BY DEF Inv, Upsert, TypeOK
<1>2. ops' \in 0..MaxOps /\ answer' = None
  BY <1>1, OpsBounded
<1>3. UNCHANGED <<unique, indexed, materialized, validated, meta>>
  BY DEF Upsert
<1>4. CASE TakenByAnother(value, old)
  <2>1. UNCHANGED <<data, mem, disk>>
    BY <1>4 DEF Upsert
  <2>2. TypeOK'
    BY <1>1, <1>2, <1>3, <2>1 DEF TypeOK, data
  <2>3. QED
    BY <1>1, <1>3, <2>1, <2>2, DataSame
    DEF Inv, IndexInv, TrustedIndexIsExact, Metadata
<1>5. CASE ~TakenByAnother(value, old)
  <2>1. PICK new \in Offsets :
          /\ rec[new] = None
          /\ rec' = [o \in Offsets |->
               IF o = new THEN [key |-> key, value |-> value]
               ELSE IF o = old THEN None ELSE rec[o]]
          /\ primary' = [primary EXCEPT ![key] = new]
          /\ Maintain(old, new, value)
    BY <1>5 DEF Upsert
  <2>2. /\ DataInv'
        /\ rec' \in [Offsets -> Record \cup {None}]
        /\ primary' \in [Keys -> Offsets \cup {None}]
    BY <1>1, <2>1, UpsertKeepsData
  <2>3. mem' \in Index \cup {None} /\ disk' \in Index
    BY <1>1, <2>1, MaintainTypes
  <2>4. TypeOK'
    BY <1>1, <1>2, <1>3, <2>2, <2>3 DEF TypeOK
  <2>5. [key |-> key, value |-> value] # None
    BY NoneAssumption DEF Record
  <2>6. ASSUME NEW k \in IndexKeys, NEW o \in Offsets
        PROVE  Entry(rec'[o], k) <=>
                 (o # old /\ Entry(rec[o], k)) \/ (o = new /\ Joins(value, k))
    <3>1. CASE o = new
      BY <2>1, <2>5, <3>1 DEF Entry, Joins
    <3>2. CASE o # new
      BY <2>1, <3>2 DEF Entry
    <3>3. QED
      BY <3>1, <3>2
  <2>7. IndexInv'
    BY <1>1, <1>3, <1>5, <2>1, <2>2, <2>4, <2>6, WriteKeepsIndex
  <2>8. QED
    BY <2>2, <2>4, <2>7 DEF Inv
<1>6. QED
  BY <1>4, <1>5

LEMMA DeleteKeepsInv ==
  ASSUME Inv, NEW key \in Keys, Delete(key)
  PROVE  Inv'
<1> DEFINE old == primary[key]
<1>1. TypeOK /\ DataInv /\ IndexInv /\ Changes /\ old \in Offsets /\ old # None
  BY DEF Inv, Delete, TypeOK
<1>2. ops' \in 0..MaxOps /\ answer' = None
  BY <1>1, OpsBounded
<1>3. UNCHANGED <<unique, indexed, materialized, validated, meta>>
  BY DEF Delete
<1>4. /\ rec' = [rec EXCEPT ![old] = None]
      /\ primary' = [primary EXCEPT ![key] = None]
      /\ Maintain(old, None, None)
  BY DEF Delete
<1>5. /\ DataInv'
      /\ rec' \in [Offsets -> Record \cup {None}]
      /\ primary' \in [Keys -> Offsets \cup {None}]
  BY <1>1, <1>4, DeleteKeepsData
<1>6. mem' \in Index \cup {None} /\ disk' \in Index
  BY <1>1, <1>4, MaintainTypes
<1>7. TypeOK'
  BY <1>1, <1>2, <1>3, <1>5, <1>6 DEF TypeOK
<1>8. \A k \in IndexKeys, o \in Offsets : Entry(rec'[o], k) <=>
        (o # old /\ Entry(rec[o], k)) \/ (o = None /\ Joins(None, k))
  BY <1>1, <1>4, OffsetsAssumption DEF Entry, Joins, TypeOK
<1>9. ~TakenByAnother(None, old)
  BY DEF TakenByAnother
<1>10. IndexInv'
  BY <1>1, <1>3, <1>4, <1>5, <1>7, <1>8, <1>9, WriteKeepsIndex
<1>11. QED
  BY <1>5, <1>7, <1>10 DEF Inv

(* vacuum gives every live record a slot of its own.                       *)
LEMMA CompactKeepsInv ==
  ASSUME Inv, Compact
  PROVE  Inv'
<1>1. TypeOK /\ DataInv /\ IndexInv /\ Changes /\ TrustedIndexIsExact
  BY DEF Inv, IndexInv, Compact
<1>2. ops' \in 0..MaxOps /\ answer' = None
  BY <1>1, OpsBounded
<1>3. /\ UNCHANGED <<unique, indexed, materialized, validated>>
      /\ meta' = Metadata(unique, indexed, materialized)
  BY DEF Compact
<1>4. PICK moved \in [Live -> Offsets] :
        /\ \A o, p \in Live : moved[o] = moved[p] => o = p
        /\ rec' = [o \in Offsets |->
             IF \E p \in Live : moved[p] = o
             THEN rec[CHOOSE p \in Live : moved[p] = o] ELSE None]
        /\ primary' = [k \in Keys |->
             IF primary[k] = None THEN None ELSE moved[primary[k]]]
        /\ IF Maintained
           THEN mem' = [k \in IndexKeys |-> {moved[o] : o \in Built[k]}]
           ELSE mem' = None
        /\ disk' = IF Maintained THEN mem' ELSE EmptyIndex
  BY DEF Compact
<1>5. Live = {o \in Offsets : rec[o] # None}
  BY <1>1, LiveIs
<1>6. \A p \in Live : moved[p] \in Offsets /\ rec'[moved[p]] = rec[p]
  <2> SUFFICES ASSUME NEW p \in Live
               PROVE  moved[p] \in Offsets /\ rec'[moved[p]] = rec[p]
    OBVIOUS
  <2>1. (CHOOSE q \in Live : moved[q] = moved[p]) = p
    BY <1>4
  <2>2. moved[p] \in Offsets
    OBVIOUS
  <2>3. QED
    BY <1>4, <2>1, <2>2
<1>7. \A o \in Offsets : rec'[o] # None => \E p \in Live : o = moved[p]
  BY <1>4
<1>8. \A k \in Keys : primary[k] # None => primary[k] \in Live
  BY <1>1 DEF Live
<1>9. \A p \in Live : rec[p] \in Record /\ rec[p].key \in Keys
                      /\ primary[rec[p].key] = p /\ p # None
  BY <1>1, <1>5, OffsetsAssumption DEF TypeOK, DataInv, Record
<1>10. rec' \in [Offsets -> Record \cup {None}]
  <2>1. \A o \in Offsets : rec'[o] \in Record \cup {None}
    BY <1>6, <1>7, <1>9
  <2>2. QED
    BY <1>4, <2>1
<1>11. primary' \in [Keys -> Offsets \cup {None}]
  BY <1>4, <1>6, <1>8
<1>12. DataInv'
  <2>1. ASSUME NEW k \in Keys, primary'[k] # None
        PROVE  rec'[primary'[k]] # None /\ rec'[primary'[k]].key = k
    <3>1. primary[k] # None /\ primary'[k] = moved[primary[k]]
      BY <1>4, <2>1
    <3>2. primary[k] \in Live /\ rec'[primary'[k]] = rec[primary[k]]
      BY <1>6, <1>8, <3>1
    <3>3. QED
      BY <1>1, <3>1, <3>2 DEF DataInv
  <2>2. ASSUME NEW o \in Offsets, rec'[o] # None
        PROVE  primary'[rec'[o].key] = o
    <3>1. PICK p \in Live : o = moved[p]
      BY <1>7, <2>2
    <3>2. rec'[o] = rec[p]
      BY <1>6, <3>1
    <3>3. QED
      BY <1>4, <1>9, <3>1, <3>2
  <2>3. QED
    BY <2>1, <2>2 DEF DataInv
<1>13. Built \in Index /\ \A k \in IndexKeys, o \in Offsets :
                            o \in Built[k] <=> Entry(rec[o], k)
  BY <1>1, BuiltIs
<1>14. \A k \in IndexKeys : Built[k] \subseteq Live
  BY DEF Built
<1>15. Maintained => mem' \in Index /\ mem' # None
  <2>1. ASSUME Maintained
        PROVE  mem' \in Index
    BY <1>4, <1>6, <1>14, <2>1 DEF Index
  <2>2. QED
    BY <2>1, NoneAssumption
<1>16. TypeOK'
  <2>1. mem' \in Index \cup {None} /\ disk' \in Index
    BY <1>4, <1>15 DEF EmptyIndex, Index
  <2>2. meta' \in [unique : BOOLEAN, indexed : BOOLEAN, materialized : BOOLEAN]
    BY <1>1, <1>3 DEF Metadata, TypeOK
  <2>3. QED
    BY <1>1, <1>2, <1>3, <1>10, <1>11, <2>1, <2>2 DEF TypeOK
<1>17. \A k \in IndexKeys, p \in Live :
         Entry(rec'[moved[p]], k) <=> Entry(rec[p], k)
  BY <1>6
<1>18. Maintained => mem' = Built'
  <2> SUFFICES ASSUME Maintained
               PROVE  mem' = Built'
    OBVIOUS
  <2>1. ASSUME NEW k \in IndexKeys, NEW o \in Offsets
        PROVE  o \in mem'[k] <=> Entry(rec'[o], k)
    <3>1. o \in mem'[k] <=> \E p \in Built[k] : o = moved[p]
      BY <1>4
    <3>2. (\E p \in Built[k] : o = moved[p]) <=>
            \E p \in Live : o = moved[p] /\ Entry(rec[p], k)
      BY <1>5, <1>13, <1>14
    <3>3. Entry(rec'[o], k) => \E p \in Live : o = moved[p]
      BY <1>7 DEF Entry
    <3>4. QED
      BY <1>17, <3>1, <3>2, <3>3
  <2>2. QED
    BY <1>12, <1>15, <1>16, <2>1, ExactNext
<1>19. NoDuplicates => NoDuplicates'
  <2> SUFFICES ASSUME NoDuplicates
               PROVE  NoDuplicates'
    OBVIOUS
  <2>1. \A k \in IndexKeys, o, p \in Offsets :
          Entry(rec[o], k) /\ Entry(rec[p], k) => o = p
    BY <1>1, NoDuplicatesIs
  <2>2. ASSUME NEW k \in IndexKeys, NEW o \in Offsets, NEW p \in Offsets,
               Entry(rec'[o], k), Entry(rec'[p], k)
        PROVE  o = p
    <3>1. PICK a \in Live : o = moved[a]
      BY <1>7, <2>2 DEF Entry
    <3>2. PICK b \in Live : p = moved[b]
      BY <1>7, <2>2 DEF Entry
    <3>3. Entry(rec[a], k) /\ Entry(rec[b], k)
      BY <1>17, <2>2, <3>1, <3>2
    <3>4. a = b
      BY <1>5, <2>1, <3>3
    <3>5. QED
      BY <3>1, <3>2, <3>4
  <2>3. QED
    BY <1>12, <1>16, <2>2, ExactNext
<1>20. IndexInv'
  <2>1. unique => Maintained
    BY <1>1 DEF IndexInv, Maintained
  <2>2. mem' # None => Maintained
    BY <1>4
  <2>3. Maintained => mem' # None /\ disk' = mem' /\ mem # None
    BY <1>4, <1>15 DEF Maintained
  <2>4. TrustedIndexIsExact'
    BY <1>1, <1>3, <1>18, <1>19, <2>2 DEF TrustedIndexIsExact
  <2>5. QED
    BY <1>1, <1>3, <2>1, <2>2, <2>3, <2>4 DEF IndexInv, Metadata
<1>21. QED
  BY <1>12, <1>16, <1>20 DEF Inv

---------------------------------------------------------------------------
(* Declarations, rebuilds and restarts leave the records alone.            *)

(* What is left to show of such a step.                                    *)
LEMMA RecordsStay ==
  ASSUME Inv, UNCHANGED data,
         unique' \in BOOLEAN, indexed' \in BOOLEAN,
         materialized' \in BOOLEAN, validated' \in BOOLEAN,
         mem' = None \/ mem' \in Index, disk' \in Index,
         meta' = Metadata(unique', indexed', materialized'),
         answer' \in {None} \cup Answered, ops' \in 0..MaxOps,
         unique' => mem' # None /\ NoDuplicates,
         mem' # None => /\ unique' \/ (indexed' /\ materialized')
                        /\ disk' = mem',
         (mem' # None /\ (unique' \/ (materialized' /\ validated'))) => mem' = Built
  PROVE  Inv'
<1>1. TypeOK /\ DataInv
  BY DEF Inv
<1>2. meta' \in [unique : BOOLEAN, indexed : BOOLEAN, materialized : BOOLEAN]
  BY DEF Metadata
<1>3. TypeOK'
  BY <1>1, <1>2 DEF TypeOK, data
<1>4. DataInv' /\ Built' = Built /\ (NoDuplicates' <=> NoDuplicates)
  BY <1>1, DataSame
<1>5. IndexInv'
  BY <1>4 DEF IndexInv, TrustedIndexIsExact, Metadata
<1>6. QED
  BY <1>3, <1>4, <1>5 DEF Inv

LEMMA DeclarationsKeepInv ==
  ASSUME Inv,
         \/ AddIndex \/ RemoveIndex \/ RemoveIndexStops \/ RebuildIndex
         \/ AddUnique \/ RemoveUnique \/ Restart
  PROVE  Inv'
<1>1. TypeOK /\ DataInv /\ IndexInv /\ TrustedIndexIsExact /\ Changes
  BY DEF Inv, IndexInv, AddIndex, RemoveIndex, RemoveIndexStops, RebuildIndex,
         AddUnique, RemoveUnique, Restart
<1>2. ops' \in 0..MaxOps /\ answer' \in {None} \cup Answered
  BY <1>1, OpsBounded
<1>3. Built \in Index /\ Built # None
  BY <1>1, BuiltIs, MemIsIndex
<1>4. /\ mem = None \/ mem \in Index
      /\ mem # None => (unique \/ (indexed /\ materialized)) /\ disk = mem
      /\ disk \in Index
      /\ unique => mem # None /\ NoDuplicates /\ mem = Built
      /\ (mem # None /\ materialized /\ validated) => mem = Built
      /\ unique \in BOOLEAN /\ indexed \in BOOLEAN
      /\ materialized \in BOOLEAN /\ validated \in BOOLEAN
  BY <1>1 DEF TypeOK, IndexInv, TrustedIndexIsExact
<1>5. meta = Metadata(unique, indexed, materialized)
  BY <1>1 DEF IndexInv
<1>6. UNCHANGED data
  BY DEF AddIndex, RemoveIndex, RemoveIndexStops, RebuildIndex, AddUnique,
         RemoveUnique, Restart
<1>7. /\ \A k \in IndexKeys : disk[k] \subseteq Offsets
      /\ mem # None => [k \in IndexKeys |-> IF mem[k] = {} THEN disk[k] ELSE {}] \in Index
  BY <1>4 DEF Index
<1>8. CASE AddIndex
  BY <1>2, <1>4, <1>6, <1>8, RecordsStay DEF AddIndex
<1>9. ASSUME ClearEntries
      PROVE  /\ mem' = None /\ materialized' = FALSE /\ validated' = FALSE
             /\ disk' \in Index
  BY <1>4, <1>7, <1>9 DEF ClearEntries
<1>10. CASE RemoveIndex
  <2>1. /\ indexed' = FALSE /\ unique' = unique
        /\ meta' = Metadata(unique, FALSE, materialized')
    BY <1>10 DEF RemoveIndex, Persist
  <2>2. CASE unique
    BY <1>2, <1>4, <1>6, <1>10, <2>1, <2>2, RecordsStay DEF RemoveIndex
  <2>3. CASE ~unique
    <3>1. ClearEntries
      BY <1>10, <2>3 DEF RemoveIndex
    <3>2. QED
      BY <1>2, <1>4, <1>6, <1>9, <2>1, <2>3, <3>1, RecordsStay
  <2>4. QED
    BY <2>2, <2>3
<1>11. CASE RemoveIndexStops
  <2> DEFINE d == [k \in IndexKeys |-> IF mem[k] = {} THEN disk[k] ELSE {}]
  <2>1. ~unique /\ d \in Index
    BY <1>7, <1>11 DEF RemoveIndexStops
  <2>2. /\ Restarted(meta.unique, meta.indexed, meta.materialized, d)
        /\ meta' = meta
    BY <1>11 DEF RemoveIndexStops
  <2> HIDE DEF d
  <2>3. /\ unique' = FALSE /\ indexed' = indexed /\ materialized' = materialized
        /\ validated' = FALSE /\ disk' = d
        /\ mem' = IF indexed /\ materialized THEN d ELSE None
    BY <1>4, <1>5, <2>1, <2>2 DEF Restarted, Metadata
  <2>4. meta' = Metadata(unique', indexed', materialized')
    BY <1>4, <1>5, <2>1, <2>2, <2>3
  <2>5. QED
    BY <1>2, <1>4, <1>6, <2>1, <2>3, <2>4, RecordsStay
<1>12. CASE Restart
  <2>1. /\ Restarted(meta.unique, meta.indexed, meta.materialized, disk)
        /\ meta' = meta
    BY <1>12 DEF Restart
  <2>2. /\ unique' = unique /\ indexed' = indexed /\ materialized' = materialized
        /\ validated' = FALSE /\ disk' = disk
        /\ mem' = IF unique \/ (indexed /\ materialized) THEN disk ELSE None
    BY <1>5, <2>1 DEF Restarted, Metadata
  <2>3. meta' = Metadata(unique', indexed', materialized')
    BY <1>5, <2>1, <2>2
  <2>4. disk # None
    BY <1>4, NoneAssumption
  <2>5. QED
    BY <1>2, <1>4, <1>6, <2>2, <2>3, <2>4, RecordsStay
<1>13. CASE AddUnique
  <2>1. CASE NoDuplicates
    BY <1>2, <1>3, <1>4, <1>6, <1>13, <2>1, RecordsStay DEF AddUnique, Persist
  <2>2. CASE ~NoDuplicates
    BY <1>2, <1>4, <1>5, <1>6, <1>13, <2>2, RecordsStay DEF AddUnique
  <2>3. QED
    BY <2>1, <2>2
<1>14. CASE RemoveUnique
  <2>1. unique' = FALSE /\ indexed' = indexed
        /\ meta' = Metadata(FALSE, indexed, materialized')
    BY <1>14 DEF RemoveUnique, Persist
  <2>2. CASE indexed
    BY <1>2, <1>4, <1>6, <1>14, <2>1, <2>2, RecordsStay DEF RemoveUnique
  <2>3. CASE ~indexed
    <3>1. ClearEntries
      BY <1>14, <2>3 DEF RemoveUnique
    <3>2. QED
      BY <1>2, <1>4, <1>6, <1>9, <2>1, <3>1, RecordsStay
  <2>4. QED
    BY <2>2, <2>3
<1>15. CASE RebuildIndex
  <2>1. unique' = unique /\ indexed' = indexed /\ (unique \/ indexed)
    BY <1>15 DEF RebuildIndex
  <2>2. CASE unique
    BY <1>2, <1>3, <1>4, <1>6, <1>15, <2>1, <2>2, RecordsStay DEF RebuildIndex
  <2>3. CASE ~unique
    BY <1>2, <1>3, <1>4, <1>6, <1>15, <2>1, <2>3, RecordsStay
    DEF RebuildIndex, Materialize
  <2>4. QED
    BY <2>2, <2>3
<1>16. QED
  BY <1>8, <1>10, <1>11, <1>12, <1>13, <1>14, <1>15

---------------------------------------------------------------------------
(* Queries.                                                                *)

(* The index keys a filter asks for are those of all values that meet it.  *)
(* The $in of a reference is why it needs a hypothesis: record_matches_    *)
(* filter takes two spellings of a reference for equal, and the index      *)
(* keeps them apart.                                                       *)
ReferencesAgree ==
  \A f \in Filters : \A c \in Conditions(f, "in") :
    \A w \in c.arg, v \in Values : SameReference(v, w) => RankOf[v] = RankOf[w]

LEMMA EqualKeys ==
  ASSUME NEW v \in Values, NEW w \in Values, Equal(v, w)
  PROVE  Indexable(v) /\ IndexKey(v) = IndexKey(w)
BY DEF Equal, Comparable, IndexKey

LEMMA LessIsBelow ==
  ASSUME NEW v \in Values, NEW w \in Values, Less(v, w)
  PROVE  /\ Indexable(v) /\ Indexable(w)
         /\ Below(IndexKey(v), IndexKey(w)) /\ ~Below(IndexKey(w), IndexKey(v))
<1>1. KindOf[v] = KindOf[w] /\ KindOf[v] \in DOMAIN KindRank
  BY ValuesAssumption DEF Less, Comparable, Indexable
<1>2. KindRank[KindOf[v]] \in Nat
  BY <1>1 DEF KindRank
<1>3. RankOf[v] \in Nat /\ RankOf[w] \in Nat /\ RankOf[v] < RankOf[w]
  BY ValuesAssumption DEF Less
<1>4. QED
  BY <1>1, <1>2, <1>3 DEF Less, Comparable, Indexable, IndexKey, Below

LEMMA NotBelowItself ==
  ASSUME NEW v \in Values, Indexable(v)
  PROVE  ~Below(IndexKey(v), IndexKey(v))
<1>1. KindOf[v] \in DOMAIN KindRank /\ RankOf[v] \in Nat
  BY ValuesAssumption DEF Indexable
<1>2. KindRank[KindOf[v]] \in Nat
  BY <1>1 DEF KindRank
<1>3. QED
  BY <1>1, <1>2 DEF IndexKey, Below

LEMMA PredicateCovers ==
  ASSUME ReferencesAgree, NEW f \in Filters, f.field # {}, HasPredicate(f),
         NEW v \in Values, \A c \in f.field : Meets(v, c)
  PROVE  Indexable(v) /\ IndexKey(v) \in PredicateKeys(f)
<1>1. \A c \in f.field :
        /\ c.op \in Ops
        /\ c.op \in {"like", "in"} => c.arg \subseteq Values
        /\ c.op \notin {"like", "in"} => c.arg \in Values
  BY FiltersAssumption
<1>2. CASE Conditions(f, "in") # {}
  <2>1. PICK c \in f.field : c.op = "in"
    BY <1>2 DEF Conditions
  <2>2. PICK w \in c.arg : v = w \/ Equal(v, w) \/ SameReference(v, w)
    BY <2>1 DEF Meets
  <2>3. w \in Values /\ w \in Asked(f, "in") /\ Indexable(w)
    BY <1>1, <1>2, <2>1, <2>2 DEF Asked, Conditions, HasPredicate
  <2>4. Indexable(v) /\ IndexKey(v) = IndexKey(w)
    <3>1. CASE v = w
      BY <2>3, <3>1
    <3>2. CASE Equal(v, w)
      BY <2>3, <3>2, EqualKeys
    <3>3. CASE SameReference(v, w)
      <4>1. RankOf[v] = RankOf[w]
        BY <2>1, <2>2, <2>3, <3>3 DEF ReferencesAgree, Conditions
      <4>2. QED
        BY <3>3, <4>1 DEF SameReference, Indexable, IndexKey
    <3>4. QED
      BY <2>2, <3>1, <3>2, <3>3
  <2>5. QED
    BY <1>2, <2>3, <2>4 DEF PredicateKeys
<1>3. CASE Conditions(f, "in") = {}
  <2>1. \A c \in f.field : /\ c.op \notin {"like", "ne", "in"} /\ Indexable(c.arg)
                           /\ c.arg \in Values
    BY <1>1, <1>3 DEF HasPredicate, Conditions
  <2>2. ASSUME NEW c \in f.field
        PROVE  /\ Indexable(v)
               /\ c.op \in {"plain", "eq"} => IndexKey(v) = IndexKey(c.arg)
               /\ c.op = "gt" => Below(IndexKey(c.arg), IndexKey(v))
               /\ c.op = "gte" => ~Below(IndexKey(v), IndexKey(c.arg))
               /\ c.op = "lt" => Below(IndexKey(v), IndexKey(c.arg))
               /\ c.op = "lte" => ~Below(IndexKey(c.arg), IndexKey(v))
    <3>1. c.arg \in Values /\ Indexable(c.arg) /\ Meets(v, c)
          /\ c.op \in {"plain", "eq", "gt", "gte", "lt", "lte"}
      BY <1>1, <2>1 DEF Ops
    <3>2. Equal(v, c.arg) => Indexable(v) /\ IndexKey(v) = IndexKey(c.arg)
      BY <3>1, EqualKeys
    <3>3. Less(v, c.arg) => /\ Indexable(v) /\ Below(IndexKey(v), IndexKey(c.arg))
                            /\ ~Below(IndexKey(c.arg), IndexKey(v))
      BY <3>1, LessIsBelow
    <3>4. Less(c.arg, v) => /\ Indexable(v) /\ Below(IndexKey(c.arg), IndexKey(v))
                            /\ ~Below(IndexKey(v), IndexKey(c.arg))
      BY <3>1, LessIsBelow
    <3>5. ~Below(IndexKey(c.arg), IndexKey(c.arg))
      BY <3>1, NotBelowItself
    <3>6. CASE c.op = "plain"
      BY <3>1, <3>6 DEF Meets
    <3>7. CASE c.op = "eq"
      BY <3>1, <3>2, <3>7 DEF Meets
    <3>8. CASE c.op \in {"gt", "gte"}
      BY <3>1, <3>2, <3>4, <3>5, <3>8 DEF Meets
    <3>9. CASE c.op \in {"lt", "lte"}
      BY <3>1, <3>2, <3>3, <3>5, <3>9 DEF Meets
    <3>10. QED
      BY <3>1, <3>6, <3>7, <3>8, <3>9
  <2>3. Indexable(v) /\ IndexKey(v) \in IndexKeys
    BY <2>2 DEF IndexKeys
  <2>4. WithinBounds(IndexKey(v), f)
    BY <2>2 DEF WithinBounds
  <2>5. CASE Conditions(f, "eq") # {}
    BY <1>3, <2>2, <2>3, <2>5 DEF PredicateKeys, Conditions
  <2>6. CASE Conditions(f, "eq") = {}
    BY <1>3, <2>3, <2>4, <2>6 DEF PredicateKeys
  <2>7. QED
    BY <2>3, <2>5, <2>6
<1>4. QED
  BY <1>2, <1>3

(* What remains after the filter does not depend on where the candidates   *)
(* come from, if all are live and none that matches is missing.            *)
LEMMA CandidatesSuffice ==
  ASSUME TypeOK, DataInv, UNCHANGED data, NEW f \in Filters, NEW S \in SUBSET Live,
         \A o \in Live : Matches(rec[o], f) => o \in S,
         Answer(f, S)
  PROVE  AnswersAreExact' /\ answer' \in {None} \cup Answered
<1> DEFINE found == {rec[o].key : o \in {p \in S : rec[p] # None /\ Matches(rec[p], f)}}
           right == {r.key : r \in {rec[o] : o \in {p \in Live : Matches(rec[p], f)}}}
<1>1. answer' = [filter |-> f, keys |-> found]
  BY DEF Answer
<1>2. \A o \in Live : rec[o] # None /\ rec[o].key \in Keys
  BY LiveIs DEF TypeOK, Record
<1>3. found = right
  BY <1>2
<1>4. found \subseteq Keys
  BY <1>2
<1> HIDE DEF found
<1>5. answer'.filter = f /\ answer'.keys = found
  BY <1>1
<1>6. Live' = Live /\ rec' = rec
  BY DataSame DEF data
<1>7. AnswersAreExact'
  BY <1>3, <1>5, <1>6 DEF AnswersAreExact
<1>8. QED
  BY <1>1, <1>4, <1>7 DEF Answered

LEMMA ByIdCovers ==
  ASSUME TypeOK, DataInv, NEW f \in Filters
  PROVE  /\ ById(f) \subseteq Live
         /\ \A o \in Live : Matches(rec[o], f) => o \in ById(f)
<1>1. Live = {o \in Offsets : rec[o] # None}
  BY LiveIs
<1>2. \A o \in Live : rec[o].key \in Keys /\ primary[rec[o].key] = o /\ o # None
  BY <1>1, OffsetsAssumption DEF TypeOK, DataInv, Record
<1>3. f.id = None \/ f.id \subseteq Keys
  BY FiltersAssumption
<1>4. QED
  BY <1>2, <1>3 DEF ById, Live, Matches

LEMMA ByIndexCovers ==
  ASSUME ReferencesAgree, TypeOK, DataInv, NEW f \in Filters,
         f.field # {}, HasPredicate(f), mem' = Built
  PROVE  /\ ByIndex(f) \subseteq Live
         /\ \A o \in Live : Matches(rec[o], f) => o \in ByIndex(f)
<1>1. ByIndex(f) \subseteq Live
  BY ByIdCovers DEF ByIndex
<1>2. ASSUME NEW o \in Live, Matches(rec[o], f)
      PROVE  o \in ByIndex(f)
  <2> DEFINE v == rec[o].value
  <2>1. o \in Offsets /\ rec[o] # None
    BY LiveIs
  <2>2. v # None /\ \A c \in f.field : Meets(v, c)
    BY <1>2 DEF Matches
  <2>3. v \in Values
    BY <2>1, <2>2 DEF TypeOK, Record
  <2>4. Indexable(v) /\ IndexKey(v) \in PredicateKeys(f)
    BY <2>2, <2>3, PredicateCovers
  <2>5. IndexKey(v) \in IndexKeys
    BY <2>3, <2>4 DEF IndexKeys
  <2>6. o \in Built[IndexKey(v)]
    BY <2>1, <2>2, <2>4, <2>5, BuiltIs DEF Entry
  <2>7. o \in ById(f)
    BY <1>2, ByIdCovers
  <2>8. QED
    BY <2>4, <2>6, <2>7 DEF ByIndex
<1>3. QED
  BY <1>1, <1>2

(* A query changes no record, and the index only by building it.           *)
LEMMA QueryKeepsIndex ==
  ASSUME Inv, NEW f \in Filters, Query(f)
  PROVE  /\ UNCHANGED <<data, unique, indexed, ops>>
         /\ materialized' \in BOOLEAN /\ validated' \in BOOLEAN
         /\ mem' = None \/ mem' \in Index
         /\ disk' \in Index
         /\ meta' = Metadata(unique', indexed', materialized')
         /\ unique' => mem' # None /\ NoDuplicates
         /\ mem' # None => (unique' \/ (indexed' /\ materialized')) /\ disk' = mem'
         /\ (mem' # None /\ (unique' \/ (materialized' /\ validated'))) => mem' = Built
<1>1. TypeOK /\ DataInv /\ IndexInv /\ TrustedIndexIsExact
  BY DEF Inv, IndexInv
<1>2. Built \in Index /\ Built # None
  BY <1>1, BuiltIs, MemIsIndex
<1>3. /\ mem = None \/ mem \in Index
      /\ mem # None => (unique \/ (indexed /\ materialized)) /\ disk = mem
      /\ disk \in Index
      /\ unique => mem # None /\ NoDuplicates /\ mem = Built
      /\ (mem # None /\ materialized /\ validated) => mem = Built
      /\ materialized \in BOOLEAN /\ validated \in BOOLEAN
      /\ meta = Metadata(unique, indexed, materialized)
  BY <1>1 DEF TypeOK, IndexInv, TrustedIndexIsExact
<1>4. CASE QueryScans(f) \/ QueryById(f)
  BY <1>3, <1>4 DEF QueryScans, QueryById, index
<1>5. CASE QueryUnique(f)
  BY <1>3, <1>5 DEF QueryUnique
<1>6. CASE QueryIndexed(f)
  <2>1. indexed /\ ~unique /\ UNCHANGED <<data, unique, indexed, ops>>
    BY <1>6 DEF QueryIndexed, Unindexable
  <2>2. CASE Trusted
    <3>1. /\ materialized' = materialized /\ validated' = TRUE
          /\ mem' = mem /\ disk' = disk /\ meta' = meta
      BY <1>6, <2>2 DEF QueryIndexed
    <3>2. materialized /\ mem # None /\ mem = Built
      BY <1>3, <2>2 DEF Trusted
    <3>3. QED
      BY <1>3, <2>1, <3>1, <3>2
  <2>3. CASE ~Trusted
    BY <1>2, <1>3, <1>6, <2>1, <2>3 DEF QueryIndexed, Materialize
  <2>4. QED
    BY <2>2, <2>3
<1>7. QED
  BY <1>4, <1>5, <1>6 DEF Query

(* The types do not need the hypothesis on references.                     *)
LEMMA AnswerTypes ==
  ASSUME TypeOK, DataInv, NEW f \in Filters, NEW S \in SUBSET Live, Answer(f, S)
  PROVE  answer' \in Answered
<1>1. \A o \in Live : rec[o].key \in Keys
  BY LiveIs DEF TypeOK, Record
<1>2. QED
  BY <1>1 DEF Answer, Answered

LEMMA QueryKeepsInv ==
  ASSUME Inv, NEW f \in Filters, Query(f)
  PROVE  Inv'
<1>1. TypeOK /\ DataInv
  BY DEF Inv
<1>2. PICK S \in SUBSET Live : Answer(f, S)
  <2>1. ById(f) \subseteq Live /\ ByIndex(f) \subseteq Live
    BY <1>1, ByIdCovers DEF ByIndex
  <2>2. Answer(f, Live) \/ Answer(f, ById(f)) \/ Answer(f, ByIndex(f))
    BY DEF Query, QueryScans, QueryById, QueryUnique, QueryIndexed
  <2>3. QED
    BY <2>1, <2>2
<1>3. answer' \in {None} \cup Answered
  BY <1>1, <1>2, AnswerTypes
<1>4. unique \in BOOLEAN /\ indexed \in BOOLEAN /\ ops \in 0..MaxOps
  BY <1>1 DEF TypeOK
<1>5. QED
  BY <1>3, <1>4, QueryKeepsIndex, RecordsStay

LEMMA QueryIsExact ==
  ASSUME ReferencesAgree, Inv, NEW f \in Filters, Query(f)
  PROVE  AnswersAreExact'
<1>1. TypeOK /\ DataInv /\ TrustedIndexIsExact /\ UNCHANGED data
  BY QueryKeepsIndex DEF Inv, IndexInv
<1>2. CASE QueryScans(f)
  BY <1>1, <1>2, CandidatesSuffice DEF QueryScans
<1>3. CASE QueryById(f)
  <2>1. ById(f) \in SUBSET Live /\ Answer(f, ById(f))
    BY <1>1, <1>3, ByIdCovers DEF QueryById
  <2>2. QED
    BY <1>1, <2>1, ByIdCovers, CandidatesSuffice
<1>4. ASSUME f.field # {}, ~Unindexable(f), mem' = Built, Answer(f, ByIndex(f))
      PROVE  AnswersAreExact'
  <2>1. HasPredicate(f)
    BY <1>4 DEF Unindexable
  <2>2. /\ ByIndex(f) \in SUBSET Live
        /\ \A o \in Live : Matches(rec[o], f) => o \in ByIndex(f)
    BY <1>1, <1>4, <2>1, ByIndexCovers
  <2>3. QED
    BY <1>1, <1>4, <2>2, CandidatesSuffice
<1>5. CASE QueryUnique(f)
  <2>1. mem' = Built
    BY <1>1, <1>5 DEF QueryUnique, TrustedIndexIsExact
  <2>2. QED
    BY <1>4, <1>5, <2>1 DEF QueryUnique
<1>6. CASE QueryIndexed(f)
  <2>1. CASE Trusted
    <3>1. mem' = Built
      BY <1>1, <1>6, <2>1 DEF QueryIndexed, Trusted, TrustedIndexIsExact
    <3>2. QED
      BY <1>4, <1>6, <2>1, <3>1 DEF QueryIndexed
  <2>2. CASE ~Trusted
    BY <1>1, <1>6, <2>2, CandidatesSuffice DEF QueryIndexed
  <2>3. QED
    BY <2>1, <2>2
<1>7. QED
  BY <1>2, <1>3, <1>5, <1>6 DEF Query

---------------------------------------------------------------------------
LEMMA InvInit ==
  ASSUME Init
  PROVE  Inv
<1>1. EmptyIndex \in Index
  BY DEF EmptyIndex, Index
<1>2. meta \in [unique : BOOLEAN, indexed : BOOLEAN, materialized : BOOLEAN]
  BY DEF Init, Metadata
<1>3. rec \in [Offsets -> Record \cup {None}] /\ primary \in [Keys -> Offsets \cup {None}]
  BY DEF Init
<1>4. TypeOK
  <2>1. ops \in 0..MaxOps
    BY OffsetsAssumption DEF Init
  <2>2. disk \in Index /\ mem \in Index \cup {None} /\ answer \in {None} \cup Answered
    BY <1>1 DEF Init
  <2>3. /\ unique \in BOOLEAN /\ indexed \in BOOLEAN
        /\ materialized \in BOOLEAN /\ validated \in BOOLEAN
    BY DEF Init
  <2>4. QED
    BY <1>2, <1>3, <2>1, <2>2, <2>3 DEF TypeOK
<1>5. DataInv
  BY DEF Init, DataInv
<1>6. IndexInv
  BY DEF Init, IndexInv, TrustedIndexIsExact
<1>7. QED
  BY <1>4, <1>5, <1>6 DEF Inv

LEMMA InvStep ==
  ASSUME Inv, [Next]_vars
  PROVE  Inv'
<1>1. CASE UNCHANGED vars
  <2>1. TypeOK'
    BY <1>1 DEF Inv, TypeOK, vars, data, index
  <2>2. UNCHANGED data
    BY <1>1 DEF vars
  <2>3. IndexInv'
    BY <1>1, <2>2, DataSame
    DEF Inv, IndexInv, TrustedIndexIsExact, Metadata, vars, index
  <2>4. QED
    BY <2>1, <2>2, <2>3, DataSame DEF Inv
<1>2. ASSUME NEW k \in Keys, Delete(k)
      PROVE  Inv'
  BY <1>2, DeleteKeepsInv
<1>3. ASSUME NEW k \in Keys, NEW v \in Values \cup {None}, Upsert(k, v)
      PROVE  Inv'
  BY <1>3, UpsertKeepsInv
<1>4. CASE Compact
  BY <1>4, CompactKeepsInv
<1>5. CASE \/ AddIndex \/ RemoveIndex \/ RemoveIndexStops \/ RebuildIndex
           \/ AddUnique \/ RemoveUnique \/ Restart
  BY <1>5, DeclarationsKeepInv
<1>6. ASSUME NEW f \in Filters, Query(f)
      PROVE  Inv'
  BY <1>6, QueryKeepsInv
<1>7. QED
  BY <1>1, <1>2, <1>3, <1>4, <1>5, <1>6 DEF Next

LEMMA AnswersStep ==
  ASSUME ReferencesAgree, Inv, AnswersAreExact, [Next]_vars
  PROVE  AnswersAreExact'
<1>1. CASE UNCHANGED vars
  BY <1>1, DataSame DEF AnswersAreExact, vars, data
<1>2. CASE Changes
  BY <1>2 DEF Changes, AnswersAreExact
<1>3. ASSUME NEW f \in Filters, Query(f)
      PROVE  AnswersAreExact'
  BY <1>3, QueryIsExact
<1>4. QED
  BY <1>1, <1>2, <1>3 DEF Next, Delete, Upsert, Compact, Restart, AddIndex,
     RemoveIndex, RemoveIndexStops, RebuildIndex, AddUnique, RemoveUnique

LEMMA InvAlways == Spec => []Inv
<1>1. Init => Inv
  BY InvInit
<1>2. Inv /\ [Next]_vars => Inv'
  BY InvStep
<1>3. QED
  BY <1>1, <1>2, PTL DEF Spec

(* Memory, index file and metadata keep their types: an index maps every   *)
(* index key to slots of the data file.                                    *)
THEOREM TypeCorrect == Spec => []TypeOK
<1>1. Inv => TypeOK
  BY DEF Inv
<1>2. QED
  BY <1>1, InvAlways, PTL

(* Whatever is declared, dropped, rebuilt, compacted or lost with the      *)
(* process, an index that is trusted holds exactly the live records, and a *)
(* unique field has no duplicates.                                         *)
THEOREM TrustedIndexExact == Spec => []TrustedIndexIsExact
<1>1. Inv => TrustedIndexIsExact
  BY DEF Inv, IndexInv
<1>2. QED
  BY <1>1, InvAlways, PTL

(* A query returns the records that match it, however it finds them, if no *)
(* $in asks for a reference that a record spells in another way.           *)
THEOREM QueriesAreExact ==
  ASSUME ReferencesAgree
  PROVE  Spec => []AnswersAreExact
<1>1. Init => AnswersAreExact
  BY DEF Init, AnswersAreExact
<1>2. Inv /\ Inv' /\ AnswersAreExact /\ [Next]_vars => AnswersAreExact'
  BY AnswersStep
<1>3. QED
  BY <1>1, <1>2, InvAlways, PTL DEF Spec
=============================================================================
