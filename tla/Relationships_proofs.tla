----------------------- MODULE Relationships_proofs -----------------------
(***************************************************************************)
(* Proofs about Relationships: its types, that the index holds exactly the *)
(* references of every record nobody is changing, that a delete never      *)
(* comes back to a record it is in the middle of, that it leaves no        *)
(* reference to what it has removed, and that one which meets no other     *)
(* operation removes exactly what its rules say.                           *)
(***************************************************************************)
EXTENDS Relationships, FiniteSetTheorems, TLAPS

-----------------------------------------------------------------------------
(* Sections and sequences of them.                                         *)

Batches == UNION {[ps -> Record] : ps \in SUBSET Pointers}

(* The sections an operation may consist of.                               *)
Item ==
  [op : {"store", "index"}, recs : Batches]
    \cup [op : {"attach"}, child : Pointers, field : Fields, parent : Pointers]
    \cup [op : {"visit", "leave", "remove"}, ptr : Pointers]
    \cup [op : {"filter", "removeSet", "unindex"}, ptrs : SUBSET Pointers]
    \cup [op : {"effects"}, ptr : Pointers, rec : Record, skip : SUBSET Pointers]
    \cup [op : {"lookup"}, rule : Rules, ptr : Pointers, skip : SUBSET Pointers]
    \cup [op : {"fetch"}, rule : Rules, ptr : Pointers, skip : SUBSET Pointers,
          ids : SUBSET Pointers]

(* What a section holds, by its name.                                      *)
LEMMA ItemParts ==
  ASSUME NEW i \in Item
  PROVE  /\ i.op \in {"store", "index"} =>
              /\ i.recs \in [DOMAIN i.recs -> Record] /\ DOMAIN i.recs \subseteq Pointers
         /\ i.op = "attach" => i.child \in Pointers /\ i.field \in Fields /\ i.parent \in Pointers
         /\ i.op \in {"visit", "leave", "remove", "effects", "lookup", "fetch"} => i.ptr \in Pointers
         /\ i.op \in {"filter", "removeSet", "unindex"} => i.ptrs \subseteq Pointers
         /\ i.op = "effects" => i.rec \in Record
         /\ i.op \in {"effects", "lookup", "fetch"} => i.skip \subseteq Pointers
         /\ i.op \in {"lookup", "fetch"} => i.rule \in Rules
         /\ i.op = "fetch" => i.ids \subseteq Pointers
<1>1. CASE i \in [op : {"store", "index"}, recs : Batches]
  <2>1. i.recs \in Batches /\ i.op \in {"store", "index"}
    BY <1>1
  <2>2. PICK ps \in SUBSET Pointers : i.recs \in [ps -> Record]
    BY <2>1 DEF Batches
  <2>3. QED
    BY <2>1, <2>2
<1>2. CASE i \in [op : {"attach"}, child : Pointers, field : Fields, parent : Pointers]
  BY <1>2
<1>3. CASE i \in [op : {"visit", "leave", "remove"}, ptr : Pointers]
  BY <1>3
<1>4. CASE i \in [op : {"filter", "removeSet", "unindex"}, ptrs : SUBSET Pointers]
  BY <1>4
<1>5. CASE i \in [op : {"effects"}, ptr : Pointers, rec : Record, skip : SUBSET Pointers]
  BY <1>5
<1>6. CASE i \in [op : {"lookup"}, rule : Rules, ptr : Pointers, skip : SUBSET Pointers]
  BY <1>6
<1>7. CASE i \in [op : {"fetch"}, rule : Rules, ptr : Pointers, skip : SUBSET Pointers,
                  ids : SUBSET Pointers]
  BY <1>7
<1>8. QED
  BY <1>1, <1>2, <1>3, <1>4, <1>5, <1>6, <1>7 DEF Item

(* The sections the handlers make.                                         *)
LEMMA BatchItems ==
  ASSUME NEW recs, Batch(recs)
  PROVE  StoreRecords(recs) \in Item /\ IndexRecords(recs) \in Item
<1>1. recs \in Batches
  BY DEF Batch, Batches
<1>2. QED
  BY <1>1 DEF StoreRecords, IndexRecords, Item

LEMMA PointerItems ==
  ASSUME NEW p \in Pointers
  PROVE  Visit(p) \in Item /\ Leave(p) \in Item /\ RemoveOne(p) \in Item
BY DEF Visit, Leave, RemoveOne, Item

LEMMA PointerSetItems ==
  ASSUME NEW ps \in SUBSET Pointers
  PROVE  Filter(ps) \in Item /\ RemoveSet(ps) \in Item /\ Unindex(ps) \in Item
BY DEF Filter, RemoveSet, Unindex, Item

LEMMA RuleItems ==
  ASSUME NEW r \in Rules, NEW p \in Pointers, NEW skip \in SUBSET Pointers,
         NEW ids \in SUBSET Pointers
  PROVE  Lookup(r, p, skip) \in Item /\ Fetch(r, p, skip, ids) \in Item
BY DEF Lookup, Fetch, Item

LEMMA EffectsItems ==
  ASSUME NEW p \in Pointers, NEW rec \in Record, NEW skip \in SUBSET Pointers
  PROVE  ApplyEffects(p, rec, skip) \in Item
BY DEF ApplyEffects, Item

(* A finite set is taken in some order.                                    *)
LEMMA SetToSeqType ==
  ASSUME NEW S, IsFiniteSet(S)
  PROVE  /\ SetToSeq(S) \in [1..Cardinality(S) -> S]
         /\ Cardinality(S) \in Nat
<1>1. Cardinality(S) \in Nat /\ ExistsBijection(1..Cardinality(S), S)
  BY FS_CardinalityType
<1>2. \E f \in [1..Cardinality(S) -> S] : IsInjective(f)
  BY <1>1 DEF ExistsBijection, Bijection, Injection
<1>3. QED
  BY <1>1, <1>2 DEF SetToSeq

(* The sequence n in the place of the first element of s.                  *)
LEMMA Splice ==
  ASSUME NEW S, NEW n \in Seq(S), NEW s \in Seq(S), s # <<>>
  PROVE  /\ n \o Tail(s) \in Seq(S)
         /\ Len(n \o Tail(s)) = Len(n) + Len(s) - 1
         /\ \A i \in 1..Len(n) : (n \o Tail(s))[i] = n[i]
         /\ \A i \in 1..Len(n \o Tail(s)) : i > Len(n) => (n \o Tail(s))[i] = s[i - Len(n) + 1]
OBVIOUS

-----------------------------------------------------------------------------
(* How a handler changes what remains to be done.                          *)

TypeInv == TypeOK /\ todo \in [Threads -> Seq(Item)]

(* The sections that come in the place of the one a thread goes through.   *)
Shape(t, new) ==
  /\ new \in Seq(Item)
  /\ \A i \in DOMAIN new :
       /\ new[i].op # "filter"
       /\ new[i].op \in {"index", "unindex"} =>
            i = 1 /\ Current(t).op \in {"store", "remove", "removeSet"}
       /\ new[i].op = "effects" => Current(t).op = "filter"
       /\ Current(t).op = "filter" => new[i].op \in {"effects", "removeSet"}
       /\ new[i].op \in {"leave", "remove"} =>
            /\ i = Len(new)
            /\ \/ Current(t).op = "visit" /\ new[i].ptr \notin Active(t)
               \/ Current(t).op = "effects"

Spliced(t) == \E new : Shape(t, new) /\ Continue(t, new \o Rest(t))

LEMMA CurrentIsItem ==
  ASSUME TypeInv, NEW t \in Threads, Running(t)
  PROVE  /\ todo[t] \in Seq(Item) /\ todo[t] # <<>>
         /\ Current(t) = todo[t][1] /\ Current(t) \in Item
         /\ Rest(t) \in Seq(Item)
<1>1. todo[t] \in Seq(Item) /\ todo[t] # <<>>
  BY DEF TypeInv, TypeOK
<1>2. QED
  BY <1>1 DEF Current, Rest

(* Nothing new.                                                            *)
LEMMA NothingNew ==
  ASSUME TypeInv, NEW t \in Threads, Running(t), Continue(t, Rest(t))
  PROVE  Spliced(t)
<1>1. Rest(t) = <<>> \o Rest(t)
  BY CurrentIsItem
<1>2. Shape(t, <<>>)
  BY DEF Shape
<1>3. Continue(t, <<>> \o Rest(t))
  BY <1>1
<1>4. QED
  BY <1>2, <1>3 DEF Spliced

(* New sections that nothing depends on but their kind.                    *)
LEMMA PlainNew ==
  ASSUME TypeInv, NEW t \in Threads, Running(t), Current(t).op # "filter",
         NEW new \in Seq({i \in Item : i.op \in {"store", "visit", "lookup", "fetch"}}),
         Continue(t, new \o Rest(t))
  PROVE  Spliced(t)
<1>1. new \in Seq(Item)
  OBVIOUS
<1>2. \A i \in DOMAIN new : new[i].op \in {"store", "visit", "lookup", "fetch"}
  OBVIOUS
<1>3. Shape(t, new)
  BY <1>1, <1>2 DEF Shape
<1>4. QED
  BY <1>3 DEF Spliced

LEMMA PointersFinite ==
  ASSUME NEW ps \in SUBSET Pointers
  PROVE  IsFiniteSet(ps)
BY FS_Subset, RecordsAssumption

LEMMA RulesFinite ==
  ASSUME NEW d, NEW action
  PROVE  IsFiniteSet(RulesOf(d, action)) /\ RulesOf(d, action) \subseteq Rules
<1>1. CASE RulesOf(d, action) = {}
  BY <1>1, FS_EmptySet
<1>2. ASSUME NEW r \in RulesOf(d, action)
      PROVE  IsFiniteSet(RulesOf(d, action))
  <2>1. RulesOf(d, action) = {r}
    BY <1>2, RulesAssumption DEF RulesOf
  <2>2. QED
    BY <2>1, FS_Singleton
<1>3. QED
  BY <1>1, <1>2 DEF RulesOf

VisitOrLookup == {i \in Item : i.op \in {"visit", "lookup"}}

LEMMA VisitsType ==
  ASSUME NEW ps \in SUBSET Pointers
  PROVE  VisitAll(ps) \in Seq(VisitOrLookup)
<1> DEFINE order == SetToSeq(ps)
<1>1. order \in [1..Cardinality(ps) -> ps] /\ Cardinality(ps) \in Nat
  BY PointersFinite, SetToSeqType
<1> HIDE DEF order
<1>2. \A i \in DOMAIN order : Visit(order[i]) \in VisitOrLookup
  BY <1>1, PointerItems DEF VisitOrLookup, Visit
<1>3. [i \in DOMAIN order |-> Visit(order[i])] \in Seq(VisitOrLookup)
  BY <1>1, <1>2
<1>4. QED
  BY <1>3 DEF VisitAll, order

LEMMA LookupsType ==
  ASSUME NEW p \in Pointers, NEW action, NEW skip \in SUBSET Pointers
  PROVE  LookupAll(p, action, skip) \in Seq(VisitOrLookup)
<1> DEFINE rules == RulesOf(DrawerOf[p], action)
           order == SetToSeq(rules)
<1>1. order \in [1..Cardinality(rules) -> rules] /\ Cardinality(rules) \in Nat /\ rules \subseteq Rules
  BY RulesFinite, SetToSeqType
<1>2. LookupAll(p, action, skip) = [i \in DOMAIN order |-> Lookup(order[i], p, skip)]
  BY DEF LookupAll
<1> HIDE DEF order, rules
<1>3. \A i \in DOMAIN order : Lookup(order[i], p, skip) \in VisitOrLookup
  BY <1>1, RuleItems DEF VisitOrLookup, Lookup
<1>4. [i \in DOMAIN order |-> Lookup(order[i], p, skip)] \in Seq(VisitOrLookup)
  BY <1>1, <1>3
<1>5. QED
  BY <1>2, <1>4

LEMMA EffectsType ==
  ASSUME NEW p \in Pointers, NEW rec \in Record, NEW skip \in SUBSET Pointers
  PROVE  Effects(p, rec, skip) \in Seq(VisitOrLookup)
<1>1. Forward(p, rec) \subseteq Pointers
  BY DEF Forward, Record
<1>2. VisitAll(Forward(p, rec) \ skip) \in Seq(VisitOrLookup)
  BY <1>1, VisitsType
<1>3. \A action : LookupAll(p, action, skip) \in Seq(VisitOrLookup)
  BY LookupsType
<1>4. \A s1, s2, s3, s4 \in Seq(VisitOrLookup) : s1 \o s2 \o s3 \o s4 \in Seq(VisitOrLookup)
  OBVIOUS
<1>5. QED
  BY <1>2, <1>3, <1>4 DEF Effects

(* The effects of a delete and what closes them.                           *)
LEMMA EffectsThen ==
  ASSUME TypeInv, NEW t \in Threads, Running(t),
         NEW p \in Pointers, NEW rec \in Record, NEW skip \in SUBSET Pointers,
         NEW last \in Item, last.op \in {"leave", "remove"}, last.ptr = p,
         \/ Current(t).op = "visit" /\ p \notin Active(t)
         \/ Current(t).op = "effects",
         Continue(t, Effects(p, rec, skip) \o <<last>> \o Rest(t))
  PROVE  Spliced(t)
<1> DEFINE effects == Effects(p, rec, skip)
           new == effects \o <<last>>
<1>1. effects \in Seq(VisitOrLookup)
  BY EffectsType
<1>2. Continue(t, new \o Rest(t))
  OBVIOUS
<1> HIDE DEF effects
<1>3. effects \in Seq(Item) /\ \A i \in DOMAIN effects : effects[i].op \in {"visit", "lookup"}
  BY <1>1 DEF VisitOrLookup
<1>4. /\ new \in Seq(Item) /\ Len(new) = Len(effects) + 1 /\ Len(effects) \in Nat
      /\ \A i \in DOMAIN new : \/ i \in DOMAIN effects /\ new[i] = effects[i]
                               \/ i = Len(new) /\ new[i] = last
  BY <1>3
<1> HIDE DEF new
<1>5. \A i \in DOMAIN new : \/ new[i].op \in {"visit", "lookup"}
                            \/ i = Len(new) /\ new[i].op \in {"leave", "remove"} /\ new[i].ptr = p
  BY <1>3, <1>4
<1>6. Shape(t, new)
  BY <1>4, <1>5 DEF Shape
<1>7. QED
  BY <1>2, <1>6 DEF Spliced

LEMMA OneRecordBatch ==
  ASSUME NEW p \in Pointers, NEW rec \in Record
  PROVE  Batch(OneRecord(p, rec))
BY DEF OneRecord, Batch

LEMMA ExistingRecord ==
  ASSUME TypeInv, NEW p \in Pointers, Exists(store, p)
  PROVE  store[p] \in Record
BY DEF TypeInv, TypeOK, Store, Exists

(* Every section of an operation is followed by what it asks for and by    *)
(* the rest, or by nothing when it is refused.                             *)
LEMMA StepShape ==
  ASSUME TypeInv, NEW t \in Threads, Step(t)
  PROVE  Running(t) /\ (Spliced(t) \/ Refuse(t))
<1>1. Running(t)
  BY DEF Step, DoStore, DoIndex, DoAttach, DoVisit, DoFilter, DoEffects, DoLeave, DoLookup,
         DoFetch, DoRemove, DoRemoveSet, DoUnindex, At
<1> DEFINE i == Current(t)
<1>2. i \in Item /\ Rest(t) \in Seq(Item)
  BY <1>1, CurrentIsItem
<1>3. CASE DoStore(t)
  <2>1. i.op = "store" /\ Batch(i.recs)
    BY <1>2, <1>3, ItemParts DEF DoStore, At, Batch
  <2>2. IndexRecords(i.recs) \in Item /\ IndexRecords(i.recs).op = "index"
    BY <2>1, BatchItems DEF IndexRecords
  <2>3. CASE Continue(t, <<IndexRecords(i.recs)>> \o Rest(t))
    <3>1. Shape(t, <<IndexRecords(i.recs)>>)
      BY <2>1, <2>2 DEF Shape
    <3>2. QED
      BY <1>1, <2>3, <3>1 DEF Spliced
  <2>4. QED
    BY <1>1, <1>3, <2>3 DEF DoStore
<1>4. CASE DoIndex(t) \/ DoLeave(t) \/ DoUnindex(t)
  BY <1>1, <1>4, NothingNew DEF DoIndex, DoLeave, DoUnindex
<1>5. CASE DoAttach(t)
  <2>1. i.op = "attach" /\ i.child \in Pointers /\ i.field \in Fields /\ i.parent \in Pointers
    BY <1>2, <1>5, ItemParts DEF DoAttach, At
  <2> DEFINE base == IF Exists(store, i.child) THEN store[i.child] ELSE EmptyRecord
             child == [base EXCEPT ![i.field] = {i.parent}]
             new == <<StoreRecords(OneRecord(i.child, child))>>
  <2>2. base \in Record
    <3>1. EmptyRecord \in Record
      BY DEF EmptyRecord, Record
    <3>2. QED
      BY <2>1, <3>1, ExistingRecord
  <2>3. child \in Record
    BY <2>1, <2>2 DEF Record
  <2>4. StoreRecords(OneRecord(i.child, child)) \in Item /\ StoreRecords(OneRecord(i.child, child)).op = "store"
    BY <2>1, <2>3, OneRecordBatch, BatchItems DEF StoreRecords
  <2>5. Continue(t, new \o Rest(t))
    BY <1>5 DEF DoAttach
  <2>6. new \in Seq({j \in Item : j.op \in {"store", "visit", "lookup", "fetch"}})
    BY <2>4
  <2>7. QED
    BY <1>1, <2>1, <2>5, <2>6, PlainNew
<1>6. CASE DoVisit(t)
  <2>1. i.op = "visit" /\ i.ptr \in Pointers
    BY <1>2, <1>6, ItemParts DEF DoVisit, At
  <2>2. CASE i.ptr \in Active(t) \/ ~Exists(store, i.ptr)
    BY <1>1, <1>6, <2>2, NothingNew DEF DoVisit
  <2>3. CASE i.ptr \notin Active(t) /\ Exists(store, i.ptr)
    <3>1. Continue(t, Effects(i.ptr, store[i.ptr], {}) \o <<RemoveOne(i.ptr)>> \o Rest(t))
      BY <1>6, <2>3 DEF DoVisit
    <3>2. store[i.ptr] \in Record
      BY <2>1, <2>3, ExistingRecord
    <3>3. RemoveOne(i.ptr) \in Item /\ RemoveOne(i.ptr).op = "remove" /\ RemoveOne(i.ptr).ptr = i.ptr
      BY <2>1, PointerItems DEF RemoveOne
    <3>4. QED
      BY <1>1, <2>1, <2>3, <3>1, <3>2, <3>3, EffectsThen
  <2>4. QED
    BY <2>2, <2>3
<1>7. CASE DoFilter(t)
  <2> DEFINE found == {p \in i.ptrs : Exists(store, p)}
             order == SetToSeq(found)
             effects == [n \in DOMAIN order |-> ApplyEffects(order[n], store[order[n]], found)]
             new == effects \o <<RemoveSet(found)>>
  <2>1. i.op = "filter" /\ found \in SUBSET Pointers
    BY <1>2, <1>7, ItemParts DEF DoFilter, At
  <2>2. CASE found = {}
    BY <1>1, <1>7, <2>2, NothingNew DEF DoFilter
  <2>3. CASE found # {}
    <3>1. Continue(t, new \o Rest(t))
      BY <1>7, <2>3 DEF DoFilter
    <3>2. order \in [1..Cardinality(found) -> found] /\ Cardinality(found) \in Nat
      BY <2>1, PointersFinite, SetToSeqType
    <3>3. \A p \in found : store[p] \in Record
      BY <2>1, ExistingRecord
    <3>4. RemoveSet(found) \in Item /\ RemoveSet(found).op = "removeSet"
      BY <2>1, PointerSetItems DEF RemoveSet
    <3> HIDE DEF order, found
    <3>5. \A n \in DOMAIN order : /\ ApplyEffects(order[n], store[order[n]], found) \in Item
                                  /\ ApplyEffects(order[n], store[order[n]], found).op = "effects"
      <4>1. \A n \in DOMAIN order : order[n] \in Pointers /\ store[order[n]] \in Record
        BY <2>1, <3>2, <3>3
      <4>2. QED
        BY <2>1, <4>1, EffectsItems DEF ApplyEffects
    <3>6. effects \in Seq(Item) /\ \A n \in DOMAIN effects : effects[n].op = "effects"
      BY <3>2, <3>5
    <3> HIDE DEF effects
    <3>7. new \in Seq(Item) /\ \A n \in DOMAIN new : new[n].op \in {"effects", "removeSet"}
      BY <3>4, <3>6
    <3> HIDE DEF new
    <3>8. Shape(t, new)
      BY <2>1, <3>7 DEF Shape
    <3>9. QED
      BY <1>1, <3>1, <3>8 DEF Spliced
  <2>4. QED
    BY <2>2, <2>3
<1>8. CASE DoEffects(t)
  <2>1. i.op = "effects" /\ i.ptr \in Pointers /\ i.rec \in Record /\ i.skip \in SUBSET Pointers
    BY <1>2, <1>8, ItemParts DEF DoEffects, At
  <2>2. Continue(t, Effects(i.ptr, i.rec, i.skip) \o <<Leave(i.ptr)>> \o Rest(t))
    BY <1>8 DEF DoEffects
  <2>3. Leave(i.ptr) \in Item /\ Leave(i.ptr).op = "leave" /\ Leave(i.ptr).ptr = i.ptr
    BY <2>1, PointerItems DEF Leave
  <2>4. QED
    BY <1>1, <2>1, <2>2, <2>3, EffectsThen
<1>9. CASE DoLookup(t)
  <2> DEFINE ids == {e.child : e \in {e \in refs : /\ e.parent = i.ptr
                                                 /\ DrawerOf[e.child] = i.rule.target
                                                 /\ e.field = i.rule.field}}
             new == <<Fetch(i.rule, i.ptr, i.skip, ids)>>
  <2>1. i.op = "lookup" /\ i.rule \in Rules /\ i.ptr \in Pointers /\ i.skip \in SUBSET Pointers
    BY <1>2, <1>9, ItemParts DEF DoLookup, At
  <2>2. ids \in SUBSET Pointers
    BY DEF TypeInv, TypeOK, Entry
  <2>3. CASE ids = {}
    BY <1>1, <1>9, <2>3, NothingNew DEF DoLookup
  <2>4. CASE ids # {}
    <3>1. Continue(t, new \o Rest(t))
      BY <1>9, <2>4 DEF DoLookup
    <3> HIDE DEF ids
    <3>2. Fetch(i.rule, i.ptr, i.skip, ids) \in Item /\ Fetch(i.rule, i.ptr, i.skip, ids).op = "fetch"
      BY <2>1, <2>2, RuleItems DEF Fetch
    <3>3. new \in Seq({j \in Item : j.op \in {"store", "visit", "lookup", "fetch"}})
      BY <3>2
    <3>4. QED
      BY <1>1, <2>1, <3>1, <3>3, PlainNew
  <2>5. QED
    BY <2>3, <2>4
<1>10. CASE DoFetch(t)
  <2> DEFINE f == i.rule.field
             found == {c \in i.ids : Exists(store, c) /\ i.ptr \in store[c][f]}
             order == SetToSeq(found)
             write(c) == StoreRecords(OneRecord(c, Cleared(store[c], f, i.ptr)))
             writes == [k \in DOMAIN order |-> write(order[k])]
  <2>1. i.op = "fetch" /\ f \in Fields /\ found \in SUBSET Pointers
    BY <1>2, <1>10, ItemParts, RulesAssumption DEF DoFetch, At, Rule
  <2>2. CASE Continue(t, Rest(t))
    BY <1>1, <2>2, NothingNew
  <2>3. CASE Continue(t, VisitAll(found \ i.skip) \o Rest(t))
    <3>1. VisitAll(found \ i.skip) \in Seq(VisitOrLookup)
      BY <2>1, VisitsType
    <3>2. VisitAll(found \ i.skip) \in Seq({j \in Item : j.op \in {"store", "visit", "lookup", "fetch"}})
      BY <3>1 DEF VisitOrLookup
    <3>3. QED
      BY <1>1, <2>1, <2>3, <3>2, PlainNew
  <2>4. CASE Continue(t, writes \o Rest(t))
    <3>1. order \in [1..Cardinality(found) -> found] /\ Cardinality(found) \in Nat
      BY <2>1, PointersFinite, SetToSeqType
    <3>2. \A c \in found : write(c) \in Item /\ write(c).op = "store"
      <4>1. ASSUME NEW c \in found
            PROVE  write(c) \in Item /\ write(c).op = "store"
        <5>1. c \in Pointers /\ store[c] \in Record
          BY <2>1, ExistingRecord
        <5>2. Cleared(store[c], f, i.ptr) \in Record
          BY <2>1, <5>1 DEF Cleared, Record
        <5>3. QED
          BY <5>1, <5>2, OneRecordBatch, BatchItems DEF StoreRecords
      <4>2. QED
        BY <4>1
    <3> HIDE DEF order, found, write
    <3>3. writes \in Seq({j \in Item : j.op \in {"store", "visit", "lookup", "fetch"}})
      BY <3>1, <3>2
    <3>4. QED
      BY <1>1, <2>1, <2>4, <3>3, PlainNew
  <2>5. Continue(t, Rest(t)) \/ Refuse(t)
          \/ Continue(t, VisitAll(found \ i.skip) \o Rest(t)) \/ Continue(t, writes \o Rest(t))
    BY <1>10 DEF DoFetch
  <2>6. QED
    BY <1>1, <2>2, <2>3, <2>4, <2>5
<1>11. ASSUME NEW ps \in SUBSET Pointers, Erase(t, ps), i.op \in {"remove", "removeSet"}
       PROVE  Spliced(t)
  <2> DEFINE new == IF {p \in ps : Exists(store, p)} = {} THEN <<>> ELSE <<Unindex(ps)>>
  <2>1. Continue(t, new \o Rest(t))
    BY <1>11 DEF Erase
  <2>2. Unindex(ps) \in Item /\ Unindex(ps).op = "unindex"
    BY PointerSetItems DEF Unindex
  <2>3. new \in Seq(Item) /\ \A n \in DOMAIN new : n = 1 /\ new[n].op = "unindex"
    BY <2>2
  <2> HIDE DEF new
  <2>4. Shape(t, new)
    BY <1>11, <2>3 DEF Shape
  <2>5. QED
    BY <2>1, <2>4 DEF Spliced
<1>12. CASE DoRemove(t)
  BY <1>2, <1>11, <1>12, ItemParts DEF DoRemove, At
<1>13. CASE DoRemoveSet(t)
  BY <1>2, <1>11, <1>13, ItemParts DEF DoRemoveSet, At
<1>14. QED
  BY <1>1, <1>3, <1>4, <1>5, <1>6, <1>7, <1>8, <1>9, <1>10, <1>12, <1>13 DEF Step

(* An operation begins with a payload, one visit or one filter.            *)
BeginsWith(t, program) ==
  /\ program \in Seq(Item) /\ program # <<>>
  /\ \A i \in DOMAIN program : \/ program[i].op \in {"store", "attach", "visit"}
                               \/ program[i].op = "filter" /\ Len(program) = 1
  /\ \/ \A i \in DOMAIN program : program[i].op \in {"store", "attach"}
     \/ \A i \in DOMAIN program : program[i].op \in {"visit", "filter"}
  /\ \E targets : Begin(t, program, targets)

LEMMA BeginShape ==
  ASSUME NEW t \in Threads, BeginUpsert(t) \/ BeginDelete(t) \/ BeginDeleteByFilter(t)
  PROVE  \E program : BeginsWith(t, program)
<1>1. ASSUME NEW payload \in Payloads, Begin(t, payload, {})
      PROVE  BeginsWith(t, payload)
  <2>1. payload \in Seq(Range(payload)) /\ payload # <<>>
    BY PayloadsAssumption
  <2>2. \A i \in DOMAIN payload : payload[i] \in Range(payload)
    BY <2>1 DEF Range
  <2>3. ASSUME NEW i \in DOMAIN payload
        PROVE  payload[i] \in Item /\ payload[i].op \in {"store", "attach"}
    <3> DEFINE j == payload[i]
    <3>1. \/ j.op = "store" /\ j = StoreRecords(j.recs) /\ Batch(j.recs)
          \/ j.op = "attach" /\ j \in [op : {"attach"}, child : Pointers, field : Fields,
                                       parent : Pointers]
      BY <2>2, PayloadsAssumption
    <3> HIDE DEF j
    <3>2. CASE j.op = "store" /\ j = StoreRecords(j.recs) /\ Batch(j.recs)
      BY <3>2, BatchItems DEF j
    <3>3. CASE j \in [op : {"attach"}, child : Pointers, field : Fields, parent : Pointers]
      <4>1. j \in Item /\ j.op = "attach"
        BY <3>3 DEF Item
      <4>2. QED
        BY <4>1 DEF j
    <3>4. QED
      BY <3>1, <3>2, <3>3
  <2>4. payload \in Seq(Item)
    BY <2>1, <2>3
  <2>5. QED
    BY <1>1, <2>1, <2>3, <2>4 DEF BeginsWith
<1>2. ASSUME NEW p \in Pointers, Begin(t, <<Visit(p)>>, {p})
      PROVE  BeginsWith(t, <<Visit(p)>>)
  <2>1. Visit(p) \in Item /\ Visit(p).op = "visit"
    BY PointerItems DEF Visit
  <2>2. QED
    BY <1>2, <2>1 DEF BeginsWith
<1>3. ASSUME NEW ps \in SUBSET Pointers, Begin(t, <<Filter(ps)>>, ps)
      PROVE  BeginsWith(t, <<Filter(ps)>>)
  <2>1. Filter(ps) \in Item /\ Filter(ps).op = "filter"
    BY PointerSetItems DEF Filter
  <2>2. QED
    BY <1>3, <2>1 DEF BeginsWith
<1>4. CASE BeginUpsert(t)
  BY <1>1, <1>4 DEF BeginUpsert
<1>5. CASE BeginDelete(t)
  BY <1>2, <1>5 DEF BeginDelete
<1>6. CASE BeginDeleteByFilter(t)
  <2>1. PICK d \in Drawers : \E ps \in SUBSET {p \in Pointers : DrawerOf[p] = d} :
          ps # {} /\ Begin(t, <<Filter(ps)>>, ps)
    BY <1>6 DEF BeginDeleteByFilter
  <2>2. PICK ps \in SUBSET Pointers : Begin(t, <<Filter(ps)>>, ps)
    BY <2>1
  <2>3. QED
    BY <1>3, <2>2
<1>7. QED
  BY <1>4, <1>5, <1>6

(* What a thread has left after a section.                                 *)
LEMMA SplicedTodo ==
  ASSUME TypeInv, NEW t \in Threads, Running(t), NEW new \in Seq(Item),
         Continue(t, new \o Rest(t))
  PROVE  /\ todo' \in [Threads -> Seq(Item)]
         /\ outcome' \in [Threads -> {"idle", "running", "ok", "refused"}]
         /\ \A u \in Threads : u # t => todo'[u] = todo[u] /\ outcome'[u] = outcome[u]
         /\ outcome'[t] = "running" <=> todo'[t] # <<>>
         /\ Len(todo'[t]) = Len(new) + Len(todo[t]) - 1
         /\ \A i \in DOMAIN todo'[t] :
              \/ i \in DOMAIN new /\ todo'[t][i] = new[i]
              \/ /\ i > Len(new) /\ i - Len(new) + 1 \in DOMAIN todo[t]
                 /\ todo'[t][i] = todo[t][i - Len(new) + 1]
<1>1. todo[t] \in Seq(Item) /\ todo[t] # <<>> /\ Rest(t) = Tail(todo[t])
  BY CurrentIsItem DEF Rest
<1> DEFINE rest == new \o Tail(todo[t])
<1>2. rest \in Seq(Item) /\ Len(rest) = Len(new) + Len(todo[t]) - 1
  BY <1>1, Splice
<1>3. \A i \in DOMAIN rest :
        \/ i \in DOMAIN new /\ rest[i] = new[i]
        \/ i > Len(new) /\ i - Len(new) + 1 \in DOMAIN todo[t] /\ rest[i] = todo[t][i - Len(new) + 1]
  <2>1. /\ Len(new) \in Nat /\ DOMAIN new = 1..Len(new)
        /\ Len(todo[t]) \in Nat \ {0} /\ DOMAIN todo[t] = 1..Len(todo[t])
    BY <1>1
  <2>2. DOMAIN rest = 1..Len(rest)
    BY <1>2
  <2>3. \A i \in 1..Len(new) : rest[i] = new[i]
    BY <1>1, Splice
  <2>4. \A i \in 1..Len(rest) : i > Len(new) => rest[i] = todo[t][i - Len(new) + 1]
    BY <1>1, Splice
  <2> HIDE DEF rest
  <2>5. QED
    BY <1>2, <2>1, <2>2, <2>3, <2>4
<1>4. /\ todo' = [todo EXCEPT ![t] = rest]
      /\ outcome' = [outcome EXCEPT ![t] = IF rest = <<>> THEN "ok" ELSE @]
  BY <1>1 DEF Continue
<1> HIDE DEF rest
<1>5. todo \in [Threads -> Seq(Item)] /\ outcome \in [Threads -> {"idle", "running", "ok", "refused"}]
  BY DEF TypeInv, TypeOK
<1>6. todo'[t] = rest /\ todo' \in [Threads -> Seq(Item)]
      /\ \A u \in Threads : u # t => todo'[u] = todo[u] /\ outcome'[u] = outcome[u]
  BY <1>2, <1>4, <1>5
<1>7. outcome' \in [Threads -> {"idle", "running", "ok", "refused"}]
  BY <1>4, <1>5
<1>8. outcome'[t] = "running" <=> rest # <<>>
  BY <1>4, <1>5 DEF Running
<1>9. QED
  BY <1>2, <1>3, <1>6, <1>7, <1>8

LEMMA RefusedTodo ==
  ASSUME TypeInv, NEW t \in Threads, Refuse(t)
  PROVE  /\ todo' \in [Threads -> Seq(Item)]
         /\ outcome' \in [Threads -> {"idle", "running", "ok", "refused"}]
         /\ \A u \in Threads : u # t => todo'[u] = todo[u] /\ outcome'[u] = outcome[u]
         /\ todo'[t] = <<>> /\ outcome'[t] = "refused"
BY DEF TypeInv, TypeOK, Refuse

LEMMA BegunTodo ==
  ASSUME TypeInv, NEW t \in Threads, NEW program, BeginsWith(t, program)
  PROVE  /\ todo' \in [Threads -> Seq(Item)]
         /\ outcome' \in [Threads -> {"idle", "running", "ok", "refused"}]
         /\ \A u \in Threads : u # t => todo'[u] = todo[u] /\ outcome'[u] = outcome[u]
         /\ todo'[t] = program /\ outcome'[t] = "running" /\ ~Running(t)
BY DEF TypeInv, TypeOK, BeginsWith, Begin

-----------------------------------------------------------------------------
(* The sections a thread has still to go through.                          *)

(* An index section comes right after the store it belongs to, a filter is *)
(* an operation's only section, and after the effects of a record of a     *)
(* filter come only those of its other records and their removal.          *)
StackInv ==
  \A t \in Threads : \A i \in DOMAIN todo[t] :
    /\ todo[t][i].op \in {"index", "unindex"} => i = 1
    /\ todo[t][i].op = "filter" => Len(todo[t]) = 1
    /\ todo[t][i].op = "effects" =>
         \A j \in DOMAIN todo[t] : i < j => todo[t][j].op \in {"effects", "removeSet"}

LEMMA StackStep == TypeInv /\ StackInv /\ [Next]_vars => StackInv'
<1> DEFINE Stack(s) ==
             \A i \in DOMAIN s :
               /\ s[i].op \in {"index", "unindex"} => i = 1
               /\ s[i].op = "filter" => Len(s) = 1
               /\ s[i].op = "effects" =>
                    \A j \in DOMAIN s : i < j => s[j].op \in {"effects", "removeSet"}
<1> SUFFICES ASSUME TypeInv, StackInv, [Next]_vars
             PROVE  \A u \in Threads : Stack(todo'[u])
  BY DEF StackInv
<1>1. \A u \in Threads : Stack(todo[u])
  BY DEF StackInv
<1>2. ASSUME NEW t \in Threads, BeginUpsert(t) \/ BeginDelete(t) \/ BeginDeleteByFilter(t)
      PROVE  \A u \in Threads : Stack(todo'[u])
  <2>1. PICK program : BeginsWith(t, program)
    BY <1>2, BeginShape
  <2>2. Stack(program)
    BY <2>1 DEF BeginsWith
  <2>3. QED
    BY <1>1, <2>1, <2>2, BegunTodo
<1>3. ASSUME NEW t \in Threads, Step(t)
      PROVE  \A u \in Threads : Stack(todo'[u])
  <2>1. Running(t) /\ (Spliced(t) \/ Refuse(t))
    BY <1>3, StepShape
  <2>2. CASE Refuse(t)
    <3>1. Stack(<<>>)
      OBVIOUS
    <3>2. QED
      BY <1>1, <2>2, <3>1, RefusedTodo
  <2>3. CASE Spliced(t)
    <3>1. PICK new : Shape(t, new) /\ Continue(t, new \o Rest(t))
      BY <2>3 DEF Spliced
    <3>2. new \in Seq(Item) /\ Current(t) = todo[t][1] /\ todo[t] \in Seq(Item) /\ todo[t] # <<>>
      BY <2>1, <3>1, CurrentIsItem DEF Shape
    <3>3. /\ todo'[t] \in Seq(Item)
          /\ Len(todo'[t]) = Len(new) + Len(todo[t]) - 1
          /\ \A i \in DOMAIN todo'[t] :
               \/ i \in DOMAIN new /\ todo'[t][i] = new[i]
               \/ /\ i > Len(new) /\ i - Len(new) + 1 \in DOMAIN todo[t]
                  /\ todo'[t][i] = todo[t][i - Len(new) + 1]
      BY <2>1, <3>1, <3>2, SplicedTodo
    <3>4. /\ Len(new) \in Nat /\ DOMAIN new = 1..Len(new)
          /\ Len(todo[t]) \in Nat \ {0} /\ DOMAIN todo[t] = 1..Len(todo[t])
          /\ DOMAIN todo'[t] = 1..Len(todo'[t])
      BY <3>2, <3>3
    <3>5. ASSUME NEW i \in DOMAIN todo'[t], i \in DOMAIN new
          PROVE  /\ todo'[t][i].op \in {"index", "unindex"} => i = 1
                 /\ todo'[t][i].op = "filter" => Len(todo'[t]) = 1
                 /\ todo'[t][i].op = "effects" =>
                      \A j \in DOMAIN todo'[t] : i < j => todo'[t][j].op \in {"effects", "removeSet"}
      <4>1. todo'[t][i] = new[i]
        BY <3>3, <3>4, <3>5
      <4>2. ASSUME new[i].op = "effects"
            PROVE  \A j \in DOMAIN todo'[t] : j \in DOMAIN new /\ todo'[t][j].op \in {"effects", "removeSet"}
        <5>1. todo[t][1].op = "filter" /\ 1 \in DOMAIN todo[t]
          BY <3>1, <3>2, <3>4, <3>5, <4>2 DEF Shape
        <5>2. Len(todo[t]) = 1
          BY <1>1, <5>1
        <5>3. DOMAIN todo'[t] = DOMAIN new
          BY <3>3, <3>4, <5>2
        <5>4. QED
          BY <3>1, <3>2, <3>3, <3>4, <5>1, <5>3 DEF Shape
      <4>3. QED
        BY <3>1, <3>5, <4>1, <4>2 DEF Shape
    <3>6. ASSUME NEW i \in DOMAIN todo'[t], i \notin DOMAIN new
          PROVE  /\ todo'[t][i].op \notin {"index", "unindex", "filter"}
                 /\ todo'[t][i].op = "effects" =>
                      \A j \in DOMAIN todo'[t] : i < j => todo'[t][j].op \in {"effects", "removeSet"}
      <4> DEFINE old(j) == j - Len(new) + 1
      <4>1. ASSUME NEW j \in DOMAIN todo'[t], i <= j
            PROVE  old(j) \in DOMAIN todo[t] /\ todo'[t][j] = todo[t][old(j)] /\ old(j) > 1
        <5>1. j \in Nat /\ i \in Nat /\ i > Len(new)
          BY <3>4, <3>6
        <5>2. j > Len(new)
          BY <3>4, <4>1, <5>1
        <5>3. j \notin DOMAIN new /\ old(j) > 1
          BY <3>4, <5>1, <5>2
        <5>4. QED
          BY <3>3, <5>3
      <4>2. \A j \in DOMAIN todo'[t] : i < j => old(i) < old(j)
        BY <3>4
      <4>3. Len(todo[t]) # 1
        BY <3>3, <3>4, <3>6
      <4> HIDE DEF old
      <4>4. i <= i
        BY <3>4
      <4>5. todo'[t][i].op \notin {"index", "unindex", "filter"}
        <5>1. old(i) \in DOMAIN todo[t] /\ todo'[t][i] = todo[t][old(i)] /\ old(i) # 1
          BY <3>4, <4>1, <4>4
        <5>2. QED
          BY <1>1, <4>3, <5>1
      <4>6. ASSUME todo'[t][i].op = "effects", NEW j \in DOMAIN todo'[t], i < j
            PROVE  todo'[t][j].op \in {"effects", "removeSet"}
        <5>1. i <= j
          BY <3>4, <4>6
        <5>2. todo[t][old(i)].op = "effects" /\ old(i) \in DOMAIN todo[t]
          BY <4>1, <4>4, <4>6
        <5>3. old(j) \in DOMAIN todo[t] /\ todo'[t][j] = todo[t][old(j)] /\ old(i) < old(j)
          BY <4>1, <4>2, <4>6, <5>1
        <5>4. QED
          BY <1>1, <5>2, <5>3
      <4>7. QED
        BY <4>5, <4>6
    <3>7. Stack(todo'[t])
      BY <3>5, <3>6
    <3>8. \A u \in Threads : u # t => todo'[u] = todo[u]
      BY <2>1, <3>1, <3>2, SplicedTodo
    <3> HIDE DEF Stack
    <3>9. QED
      BY <1>1, <3>7, <3>8
  <2>4. QED
    BY <2>1, <2>2, <2>3
<1>4. CASE Restart
  <2>1. Stack(<<>>)
    OBVIOUS
  <2>2. QED
    BY <1>4, <2>1 DEF Restart
<1>5. CASE UNCHANGED vars
  BY <1>1, <1>5 DEF vars
<1>6. QED
  BY <1>2, <1>3, <1>4, <1>5 DEF Next

-----------------------------------------------------------------------------
(* Types.                                                                  *)

LEMMA EntriesType ==
  ASSUME NEW p \in Pointers, NEW rec \in Record
  PROVE  /\ Entries(p, rec) \subseteq Entry
         /\ \A e \in Entries(p, rec) : e.child = p /\ Tracked(DrawerOf[e.child], e.field)
<1>1. UNION Range(rec) \subseteq Pointers
  BY DEF Record, Range
<1>2. QED
  BY <1>1 DEF Entries, Entry

LEMMA ReindexedType ==
  ASSUME NEW index \in SUBSET Entry, NEW recs, Batch(recs)
  PROVE  /\ Reindexed(index, recs) \subseteq Entry
         /\ \A e \in Reindexed(index, recs) : e \in index \/ Tracked(DrawerOf[e.child], e.field)
<1>1. \A p \in DOMAIN recs : p \in Pointers /\ recs[p] \in Record
  BY DEF Batch
<1>2. QED
  BY <1>1, EntriesType DEF Reindexed, Indexed, Unindexed

LEMMA RebuiltType ==
  ASSUME store \in Store
  PROVE  /\ Rebuilt(store) \subseteq Entry
         /\ \A e \in Rebuilt(store) : Tracked(DrawerOf[e.child], e.field)
<1>1. \A p \in {q \in Pointers : Exists(store, q)} : p \in Pointers /\ store[p] \in Record
  BY DEF Store, Exists
<1>2. QED
  BY <1>1, EntriesType DEF Rebuilt

LEMMA TouchType ==
  ASSUME TypeInv, NEW t \in Threads, NEW ps \in SUBSET Pointers, NEW stored \in BOOLEAN,
         Touch(t, ps, stored)
  PROVE  raced' \subseteq Pointers /\ fresh' \in [Threads -> SUBSET Pointers]
<1>1. raced \subseteq Pointers /\ fresh \in [Threads -> SUBSET Pointers]
  BY DEF TypeInv, TypeOK
<1>2. raced' \subseteq Pointers
  BY <1>1 DEF Touch
<1>3. \A u \in Threads : (fresh[u] \cup (ps \cap PendingOfOthers(t))
                            \cup (IF stored /\ u # t THEN ps ELSE {})) \in SUBSET Pointers
  BY <1>1
<1>4. QED
  BY <1>2, <1>3 DEF Touch

LEMMA PendingType ==
  ASSUME TypeInv
  PROVE  \A t \in Threads : Pending(t) \subseteq Pointers
<1>1. ASSUME NEW t \in Threads
      PROVE  Pending(t) \subseteq Pointers
  <2>1. CASE At(t, "index") \/ At(t, "unindex")
    <3>1. Current(t) \in Item
      BY <2>1, CurrentIsItem DEF At
    <3>2. QED
      BY <2>1, <3>1, ItemParts DEF At, Pending
  <2>2. QED
    BY <2>1 DEF Pending
<1>2. QED
  BY <1>1

LEMMA EraseType ==
  ASSUME TypeInv, NEW t \in Threads, NEW ps \in SUBSET Pointers, Erase(t, ps)
  PROVE  /\ store' \in Store /\ refs' = refs
         /\ gone' \in [Threads -> SUBSET Pointers]
         /\ raced' \subseteq Pointers /\ fresh' \in [Threads -> SUBSET Pointers]
<1>1. store' \in Store
  BY DEF TypeInv, TypeOK, Store, Erase
<1>2. gone' \in [Threads -> SUBSET Pointers]
  BY DEF TypeInv, TypeOK, Erase
<1>3. {p \in ps : Exists(store, p)} \in SUBSET Pointers
  OBVIOUS
<1>4. raced' \subseteq Pointers /\ fresh' \in [Threads -> SUBSET Pointers]
  BY <1>3, TouchType DEF Erase
<1>5. QED
  BY <1>1, <1>2, <1>4 DEF Erase

(* The records and the index of one section's end.                         *)
LEMMA StepData ==
  ASSUME TypeInv, NEW t \in Threads, Step(t)
  PROVE  /\ store' \in Store
         /\ refs' \subseteq Entry /\ \A e \in refs' : Tracked(DrawerOf[e.child], e.field)
         /\ gone' \in [Threads -> SUBSET Pointers]
         /\ raced' \subseteq Pointers /\ fresh' \in [Threads -> SUBSET Pointers]
<1> DEFINE i == Current(t)
<1>1. Running(t) /\ i \in Item
  BY StepShape, CurrentIsItem
<1>2. ASSUME Untouched
      PROVE  /\ store' \in Store
             /\ refs' \subseteq Entry /\ \A e \in refs' : Tracked(DrawerOf[e.child], e.field)
             /\ gone' \in [Threads -> SUBSET Pointers]
             /\ raced' \subseteq Pointers /\ fresh' \in [Threads -> SUBSET Pointers]
  BY <1>2 DEF Untouched, TypeInv, TypeOK
<1>3. CASE DoStore(t)
  <2>1. i.op = "store" /\ i.recs \in [DOMAIN i.recs -> Record] /\ DOMAIN i.recs \subseteq Pointers
    BY <1>1, <1>3, ItemParts DEF DoStore, At
  <2>2. CASE Refuse(t)
    BY <1>2, <2>2 DEF Refuse
  <2>3. CASE /\ store' = [p \in Pointers |-> IF p \in DOMAIN i.recs THEN i.recs[p] ELSE store[p]]
             /\ Touch(t, DOMAIN i.recs, TRUE)
             /\ UNCHANGED <<refs, gone>>
    <3>1. store' \in Store
      BY <2>1, <2>3 DEF TypeInv, TypeOK, Store
    <3>2. raced' \subseteq Pointers /\ fresh' \in [Threads -> SUBSET Pointers]
      BY <2>1, <2>3, TouchType
    <3>3. QED
      BY <2>3, <3>1, <3>2 DEF TypeInv, TypeOK
  <2>4. QED
    BY <1>3, <2>2, <2>3 DEF DoStore
<1>4. CASE DoIndex(t)
  <2>1. Batch(i.recs)
    BY <1>1, <1>4, ItemParts DEF DoIndex, At, Batch
  <2>2. refs' = Reindexed(refs, i.recs) /\ UNCHANGED <<store, gone, fresh, raced>>
    BY <1>4 DEF DoIndex
  <2>3. refs \in SUBSET Entry /\ \A e \in refs : Tracked(DrawerOf[e.child], e.field)
    BY DEF TypeInv, TypeOK
  <2>4. refs' \subseteq Entry /\ \A e \in refs' : Tracked(DrawerOf[e.child], e.field)
    BY <2>1, <2>2, <2>3, ReindexedType
  <2>5. QED
    BY <2>2, <2>4 DEF TypeInv, TypeOK
<1>5. CASE DoUnindex(t)
  BY <1>5 DEF DoUnindex, Unindexed, TypeInv, TypeOK
<1>6. CASE DoRemove(t)
  <2>1. {i.ptr} \in SUBSET Pointers /\ Erase(t, {i.ptr})
    BY <1>1, <1>6, ItemParts DEF DoRemove, At
  <2>2. QED
    BY <2>1, EraseType DEF TypeInv, TypeOK
<1>7. CASE DoRemoveSet(t)
  <2>1. i.ptrs \in SUBSET Pointers /\ Erase(t, i.ptrs)
    BY <1>1, <1>7, ItemParts DEF DoRemoveSet, At
  <2>2. QED
    BY <2>1, EraseType DEF TypeInv, TypeOK
<1>8. CASE DoAttach(t) \/ DoVisit(t) \/ DoFilter(t) \/ DoEffects(t) \/ DoLeave(t) \/ DoLookup(t)
  BY <1>2, <1>8 DEF DoAttach, DoVisit, DoFilter, DoEffects, DoLeave, DoLookup
<1>9. CASE DoFetch(t)
  BY <1>2, <1>9 DEF DoFetch, Refuse
<1>10. QED
  BY <1>3, <1>4, <1>5, <1>6, <1>7, <1>8, <1>9 DEF Step

LEMMA TypeStep == TypeInv /\ [Next]_vars => TypeInv'
<1> SUFFICES ASSUME TypeInv, [Next]_vars
             PROVE  TypeInv'
  OBVIOUS
<1>1. ASSUME NEW t \in Threads, BeginUpsert(t) \/ BeginDelete(t) \/ BeginDeleteByFilter(t)
      PROVE  TypeInv'
  <2>1. PICK program : BeginsWith(t, program)
    BY <1>1, BeginShape
  <2>2. /\ todo' \in [Threads -> Seq(Item)]
        /\ outcome' \in [Threads -> {"idle", "running", "ok", "refused"}]
        /\ \A u \in Threads : u # t => todo'[u] = todo[u] /\ outcome'[u] = outcome[u]
        /\ todo'[t] # <<>> /\ outcome'[t] = "running"
    BY <2>1, BegunTodo DEF BeginsWith
  <2>3. \A u \in Threads : outcome'[u] = "running" <=> todo'[u] # <<>>
    BY <2>2 DEF TypeInv, TypeOK, Running
  <2>4. PICK targets : Begin(t, program, targets)
    BY <2>1 DEF BeginsWith
  <2>5. gone' \in [Threads -> SUBSET Pointers] /\ ops' \in 0..MaxOps
    BY <2>4, BoundsAssumption DEF Begin, TypeInv, TypeOK
  <2>6. fresh' \in [Threads -> SUBSET Pointers]
    <3>1. PendingOfOthers(t) \subseteq Pointers
      BY PendingType DEF PendingOfOthers
    <3>2. QED
      BY <2>4, <3>1 DEF Begin, TypeInv, TypeOK
  <2>7. QED
    BY <2>2, <2>3, <2>4, <2>5, <2>6 DEF Begin, TypeInv, TypeOK, Running
<1>2. ASSUME NEW t \in Threads, Step(t)
      PROVE  TypeInv'
  <2>1. Running(t) /\ (Spliced(t) \/ Refuse(t))
    BY <1>2, StepShape
  <2>2. /\ todo' \in [Threads -> Seq(Item)]
        /\ outcome' \in [Threads -> {"idle", "running", "ok", "refused"}]
        /\ \A u \in Threads : u # t => todo'[u] = todo[u] /\ outcome'[u] = outcome[u]
        /\ outcome'[t] = "running" <=> todo'[t] # <<>>
        /\ UNCHANGED bounds
    <3>1. CASE Refuse(t)
      BY <3>1, RefusedTodo DEF Refuse
    <3>2. CASE Spliced(t)
      <4>1. PICK new : Shape(t, new) /\ Continue(t, new \o Rest(t))
        BY <3>2 DEF Spliced
      <4>2. new \in Seq(Item)
        BY <4>1 DEF Shape
      <4>3. UNCHANGED bounds
        BY <4>1 DEF Continue
      <4>4. QED
        BY <2>1, <4>1, <4>2, <4>3, SplicedTodo
    <3>3. QED
      BY <2>1, <3>1, <3>2
  <2>3. \A u \in Threads : outcome'[u] = "running" <=> todo'[u] # <<>>
    BY <2>2 DEF TypeInv, TypeOK, Running
  <2>4. QED
    BY <1>2, <2>2, <2>3, StepData DEF TypeInv, TypeOK, Running, bounds
<1>3. CASE Restart
  <2>1. store' \in Store /\ refs' = Rebuilt(store)
    BY <1>3 DEF Restart, TypeInv, TypeOK
  <2>2. refs' \subseteq Entry /\ \A e \in refs' : Tracked(DrawerOf[e.child], e.field)
    BY <2>1, RebuiltType DEF TypeInv, TypeOK
  <2>3. todo' \in [Threads -> Seq(Item)] /\ \A u \in Threads : outcome'[u] # "running" /\ todo'[u] = <<>>
    BY <1>3 DEF Restart
  <2>4. restarts' \in 0..MaxRestarts
    BY <1>3, BoundsAssumption DEF Restart, TypeInv, TypeOK
  <2>5. QED
    BY <1>3, <2>1, <2>2, <2>3, <2>4 DEF Restart, TypeInv, TypeOK, Running
<1>4. CASE UNCHANGED vars
  BY <1>4 DEF vars, history, bounds, TypeInv, TypeOK, Running
<1>5. QED
  BY <1>1, <1>2, <1>3, <1>4 DEF Next

LEMMA TypeInit == Init => TypeInv
<1> SUFFICES ASSUME Init
             PROVE  TypeInv
  OBVIOUS
<1>1. store \in Store
  BY RecordsAssumption DEF Init
<1>2. refs \subseteq Entry /\ \A e \in refs : Tracked(DrawerOf[e.child], e.field)
  BY <1>1, RebuiltType DEF Init
<1>3. todo \in [Threads -> Seq(Item)] /\ \A u \in Threads : outcome[u] # "running" /\ todo[u] = <<>>
  BY DEF Init
<1>4. QED
  BY <1>1, <1>2, <1>3, BoundsAssumption DEF Init, TypeInv, TypeOK, Running

(* Every reachable state has the types the code's structures have, and the *)
(* index never holds a reference of a field without inverse tracking, with *)
(* any drawers, rules, payloads and threads.                               *)
THEOREM TypeCorrect == Spec => []TypeOK
<1>1. Init => TypeInv
  BY TypeInit
<1>2. TypeInv /\ [Next]_vars => TypeInv'
  BY TypeStep
<1>3. TypeInv => TypeOK
  BY DEF TypeInv
<1>4. QED
  BY <1>1, <1>2, <1>3, PTL DEF Spec

-----------------------------------------------------------------------------
(* No delete comes back to a record it is in the middle of.                *)

ReentryInv == TypeInv /\ StackInv /\ NoReentry

LEMMA ReentryStep == ReentryInv /\ [Next]_vars => NoReentry'
<1> DEFINE Marks(i) == i.op \in {"remove", "leave"}
           Once(s) == \A i, j \in DOMAIN s : Marks(s[i]) /\ Marks(s[j]) /\ s[i].ptr = s[j].ptr => i = j
<1> SUFFICES ASSUME TypeInv, StackInv, NoReentry, [Next]_vars
             PROVE  \A u \in Threads : Once(todo'[u])
  BY DEF ReentryInv, NoReentry
<1>1. \A u \in Threads : Once(todo[u])
  BY DEF NoReentry
<1>2. ASSUME NEW t \in Threads, BeginUpsert(t) \/ BeginDelete(t) \/ BeginDeleteByFilter(t)
      PROVE  \A u \in Threads : Once(todo'[u])
  <2>1. PICK program : BeginsWith(t, program)
    BY <1>2, BeginShape
  <2>2. Once(program)
    BY <2>1 DEF BeginsWith
  <2>3. QED
    BY <1>1, <2>1, <2>2, BegunTodo
<1>3. ASSUME NEW t \in Threads, Step(t)
      PROVE  \A u \in Threads : Once(todo'[u])
  <2>1. Running(t) /\ (Spliced(t) \/ Refuse(t))
    BY <1>3, StepShape
  <2>2. CASE Refuse(t)
    <3>1. Once(<<>>)
      OBVIOUS
    <3>2. QED
      BY <1>1, <2>2, <3>1, RefusedTodo
  <2>3. CASE Spliced(t)
    <3>1. PICK new : Shape(t, new) /\ Continue(t, new \o Rest(t))
      BY <2>3 DEF Spliced
    <3>2. new \in Seq(Item) /\ Current(t) = todo[t][1] /\ todo[t] \in Seq(Item) /\ todo[t] # <<>>
      BY <2>1, <3>1, CurrentIsItem DEF Shape
    <3>3. /\ todo'[t] \in Seq(Item)
          /\ \A i \in DOMAIN todo'[t] :
               \/ i \in DOMAIN new /\ todo'[t][i] = new[i]
               \/ /\ i > Len(new) /\ i - Len(new) + 1 \in DOMAIN todo[t]
                  /\ todo'[t][i] = todo[t][i - Len(new) + 1]
      BY <2>1, <3>1, <3>2, SplicedTodo
    <3>4. /\ Len(new) \in Nat /\ DOMAIN new = 1..Len(new)
          /\ DOMAIN todo[t] = 1..Len(todo[t]) /\ Len(todo[t]) \in Nat \ {0}
          /\ DOMAIN todo'[t] = 1..Len(todo'[t])
      BY <3>2, <3>3
    <3> DEFINE old(j) == j - Len(new) + 1
    <3>5. \A i \in DOMAIN todo'[t] :
            \/ i \in DOMAIN new /\ todo'[t][i] = new[i]
            \/ old(i) \in DOMAIN todo[t] /\ old(i) # 1 /\ todo'[t][i] = todo[t][old(i)]
      BY <3>3, <3>4
    <3>6. \A i, j \in DOMAIN todo'[t] : old(i) = old(j) => i = j
      BY <3>4
    <3> HIDE DEF old
    <3>7. \A i, j \in DOMAIN new : Marks(new[i]) /\ Marks(new[j]) => i = j
      BY <3>1 DEF Shape
    <3>8. ASSUME NEW i \in DOMAIN new, Marks(new[i]),
                 NEW j \in DOMAIN todo[t], j # 1, Marks(todo[t][j])
          PROVE  new[i].ptr # todo[t][j].ptr
      <4>1. CASE todo[t][1].op = "effects"
        <5>1. 1 < j /\ 1 \in DOMAIN todo[t]
          BY <3>4, <3>8
        <5>2. todo[t][j].op \in {"effects", "removeSet"}
          BY <3>8, <4>1, <5>1 DEF StackInv
        <5>3. QED
          BY <3>8, <5>2
      <4>2. CASE new[i].ptr \notin Active(t)
        BY <3>8, <4>2 DEF Active, Range
      <4>3. QED
        BY <3>1, <3>2, <3>8, <4>1, <4>2 DEF Shape
    <3>9. Once(todo'[t])
      <4>1. SUFFICES ASSUME NEW i \in DOMAIN todo'[t], NEW j \in DOMAIN todo'[t],
                            Marks(todo'[t][i]), Marks(todo'[t][j]),
                            todo'[t][i].ptr = todo'[t][j].ptr
                     PROVE  i = j
        OBVIOUS
      <4> HIDE DEF Marks
      <4>2. CASE i \in DOMAIN new /\ todo'[t][i] = new[i]
        BY <3>5, <3>7, <3>8, <4>1, <4>2
      <4>3. CASE old(i) \in DOMAIN todo[t] /\ old(i) # 1 /\ todo'[t][i] = todo[t][old(i)]
        BY <1>1, <3>5, <3>6, <3>8, <4>1, <4>3
      <4>4. QED
        BY <3>5, <4>2, <4>3
    <3>10. \A u \in Threads : u # t => todo'[u] = todo[u]
      BY <2>1, <3>1, <3>2, SplicedTodo
    <3> HIDE DEF Once
    <3>11. QED
      BY <1>1, <3>9, <3>10
  <2>4. QED
    BY <2>1, <2>2, <2>3
<1>4. CASE Restart
  <2>1. Once(<<>>)
    OBVIOUS
  <2>2. QED
    BY <1>4, <2>1 DEF Restart
<1>5. CASE UNCHANGED vars
  BY <1>1, <1>5 DEF vars
<1>6. QED
  BY <1>2, <1>3, <1>4, <1>5 DEF Next

(* A delete that follows references through any cycle never has a record   *)
(* twice in the middle of its own delete, so that its depth is bounded by  *)
(* the number of records.                                                  *)
THEOREM DeletesDoNotReenter == Spec => []NoReentry
<1>1. Init => ReentryInv
  BY TypeInit DEF Init, ReentryInv, StackInv, NoReentry
<1>2. ReentryInv /\ [Next]_vars => ReentryInv'
  BY TypeStep, StackStep, ReentryStep DEF ReentryInv
<1>3. ReentryInv => NoReentry
  BY DEF ReentryInv
<1>4. QED
  BY <1>1, <1>2, <1>3, PTL DEF Spec

-----------------------------------------------------------------------------
(* The index holds the references of every record nobody is changing.      *)

LEMMA EntriesChild ==
  ASSUME NEW p, NEW rec, NEW e \in Entries(p, rec)
  PROVE  e.child = p
BY DEF Entries

LEMMA ReindexedEntries ==
  ASSUME NEW index, NEW recs, NEW c
  PROVE  {e \in Reindexed(index, recs) : e.child = c}
           = IF c \in DOMAIN recs THEN Entries(c, recs[c]) ELSE {e \in index : e.child = c}
BY EntriesChild DEF Reindexed, Indexed, Unindexed

LEMMA UnindexedEntries ==
  ASSUME NEW index, NEW ps, NEW c
  PROVE  {e \in Unindexed(index, ps) : e.child = c}
           = IF c \in ps THEN {} ELSE {e \in index : e.child = c}
BY DEF Unindexed

LEMMA RebuiltEntries ==
  ASSUME NEW s, NEW c \in Pointers
  PROVE  {e \in Rebuilt(s) : e.child = c} = IF Exists(s, c) THEN Entries(c, s[c]) ELSE {}
BY EntriesChild DEF Rebuilt

(* A record whose change has still to reach the index is in its drawer as  *)
(* the thread that changed it left it, unless another changed it as well.  *)
Left(t) ==
  /\ At(t, "index") => \A c \in DOMAIN Current(t).recs \ raced : store[c] = Current(t).recs[c]
  /\ At(t, "unindex") => \A c \in Current(t).ptrs \ raced : store[c] = Absent
PendingInv == \A t \in Threads : Left(t)

Exact(c) ==
  {e \in refs : e.child = c} = IF Exists(store, c) THEN Entries(c, store[c]) ELSE {}

LEMMA ExactWhenSettled ==
  IndexExact <=> \A c \in Pointers : c \in raced \/ (\E t \in Threads : c \in Pending(t)) \/ Exact(c)
BY DEF IndexExact, Exact

(* A thread with nothing to bring to the index.                            *)
Quiet(t) == ~At(t, "index") /\ ~At(t, "unindex")

LEMMA QuietPending ==
  ASSUME NEW t, Quiet(t)
  PROVE  Pending(t) = {} /\ Left(t)
BY DEF Quiet, Pending, Left

(* A thread that a step leaves alone.                                      *)
LEMMA OtherThread ==
  ASSUME NEW u, todo'[u] = todo[u], outcome'[u] = outcome[u]
  PROVE  /\ Pending(u)' = Pending(u) /\ Current(u)' = Current(u)
         /\ \A op : At(u, op)' = At(u, op)
BY DEF Pending, Current, At, Running

LEMMA QuietAfter ==
  ASSUME TypeInv, StackInv, NEW t \in Threads, Step(t),
         Current(t).op \notin {"store", "remove", "removeSet"}
  PROVE  Quiet(t)'
<1>1. Running(t) /\ (Spliced(t) \/ Refuse(t))
  BY StepShape
<1>2. CASE Refuse(t)
  BY <1>2, RefusedTodo DEF Quiet, At, Running
<1>3. CASE Spliced(t)
  <2>1. PICK new : Shape(t, new) /\ Continue(t, new \o Rest(t))
    BY <1>3 DEF Spliced
  <2>2. new \in Seq(Item) /\ \A i \in DOMAIN new : new[i].op \notin {"index", "unindex"}
    BY <2>1 DEF Shape
  <2>3. /\ todo'[t] \in Seq(Item)
        /\ outcome'[t] = "running" <=> todo'[t] # <<>>
        /\ \A i \in DOMAIN todo'[t] :
             \/ i \in DOMAIN new /\ todo'[t][i] = new[i]
             \/ /\ i > Len(new) /\ i - Len(new) + 1 \in DOMAIN todo[t]
                /\ todo'[t][i] = todo[t][i - Len(new) + 1]
    BY <1>1, <2>1, <2>2, SplicedTodo DEF TypeInv
  <2>4. \A i \in DOMAIN todo'[t] : todo'[t][i].op \notin {"index", "unindex"}
    <3>1. Len(new) \in Nat /\ DOMAIN todo'[t] \subseteq Nat
      BY <2>2, <2>3
    <3>2. \A i \in DOMAIN todo'[t] : i > Len(new) => i - Len(new) + 1 # 1
      BY <3>1
    <3>3. QED
      BY <2>2, <2>3, <3>2 DEF StackInv
  <2>5. CASE todo'[t] = <<>>
    BY <2>3, <2>5 DEF Quiet, At, Running
  <2>6. CASE todo'[t] # <<>>
    <3>1. Current(t)' = todo'[t][1] /\ 1 \in DOMAIN todo'[t]
      BY <2>3, <2>6 DEF Current
    <3>2. QED
      BY <2>4, <3>1 DEF Quiet, At
  <2>7. QED
    BY <2>5, <2>6
<1>4. QED
  BY <1>1, <1>2, <1>3

LEMMA OthersAfter ==
  ASSUME TypeInv, NEW t \in Threads, Step(t)
  PROVE  \A u \in Threads : u # t => todo'[u] = todo[u] /\ outcome'[u] = outcome[u]
<1>1. Running(t) /\ (Spliced(t) \/ Refuse(t))
  BY StepShape
<1>2. CASE Refuse(t)
  BY <1>2, RefusedTodo
<1>3. CASE Spliced(t)
  BY <1>1, <1>3, SplicedTodo DEF Spliced, Shape
<1>4. QED
  BY <1>1, <1>2, <1>3

LEMMA QuietRest ==
  ASSUME TypeInv, StackInv, NEW t \in Threads, Running(t), Continue(t, Rest(t))
  PROVE  Quiet(t)'
<1>1. <<>> \in Seq(Item) /\ Continue(t, <<>> \o Rest(t))
  BY CurrentIsItem
<1>2. /\ todo'[t] \in Seq(Item)
      /\ outcome'[t] = "running" <=> todo'[t] # <<>>
      /\ \A i \in DOMAIN todo'[t] :
           \/ i \in DOMAIN <<>>
           \/ /\ i > Len(<<>>) /\ i - Len(<<>>) + 1 \in DOMAIN todo[t]
              /\ todo'[t][i] = todo[t][i - Len(<<>>) + 1]
  BY <1>1, SplicedTodo DEF TypeInv
<1>3. todo'[t] # <<>> => Current(t)' = todo'[t][1] /\ 1 \in DOMAIN todo'[t]
  BY <1>2 DEF Current
<1>4. todo'[t] # <<>> => 2 \in DOMAIN todo[t] /\ Current(t)' = todo[t][2]
  BY <1>2, <1>3
<1>5. todo'[t] # <<>> => Current(t)'.op \notin {"index", "unindex"}
  BY <1>4 DEF StackInv
<1>6. QED
  BY <1>2, <1>5 DEF Quiet, At, Running

(* What a thread has just done comes next to the index.                    *)
LEMMA NextSection ==
  ASSUME TypeInv, NEW t \in Threads, Running(t), NEW i \in Item,
         Continue(t, <<i>> \o Rest(t))
  PROVE  Running(t)' /\ Current(t)' = i
<1>1. /\ todo'[t] \in Seq(Item)
      /\ outcome'[t] = "running" <=> todo'[t] # <<>>
      /\ Len(todo'[t]) = Len(<<i>>) + Len(todo[t]) - 1
      /\ \A n \in DOMAIN todo'[t] :
           \/ n \in DOMAIN <<i>> /\ todo'[t][n] = <<i>>[n]
           \/ n > Len(<<i>>)
  <2>1. <<i>> \in Seq(Item)
    OBVIOUS
  <2>2. QED
    BY <2>1, SplicedTodo DEF TypeInv
<1>2. todo[t] \in Seq(Item) /\ todo[t] # <<>>
  BY CurrentIsItem
<1>3. Len(todo'[t]) = Len(todo[t]) /\ Len(todo[t]) \in Nat \ {0}
  BY <1>1, <1>2
<1>4. todo'[t] # <<>> /\ 1 \in DOMAIN todo'[t] /\ Current(t)' = todo'[t][1]
  BY <1>1, <1>3 DEF Current
<1>5. todo'[t][1] = i
  BY <1>1, <1>4
<1>6. QED
  BY <1>1, <1>4, <1>5 DEF Running

Settled(c) == c \notin raced /\ \A t \in Threads : c \notin Pending(t)

LEMMA SettledExact == IndexExact <=> \A c \in Pointers : Settled(c) => Exact(c)
BY ExactWhenSettled DEF Settled

(* A section that changes no record and no entry.                          *)
LEMMA NothingTouched ==
  ASSUME PendingInv, IndexExact, UNCHANGED <<store, refs, raced>>,
         NEW t \in Threads, Quiet(t), Quiet(t)',
         \A u \in Threads : u # t => todo'[u] = todo[u] /\ outcome'[u] = outcome[u]
  PROVE  PendingInv' /\ IndexExact'
<1>1. \A u \in Threads : u # t => /\ Pending(u)' = Pending(u) /\ Current(u)' = Current(u)
                                  /\ \A op : At(u, op)' = At(u, op)
  BY OtherThread
<1>2. Pending(t) = {} /\ Pending(t)' = {} /\ Left(t)'
  BY QuietPending DEF Quiet, Pending, Left
<1>3. \A u \in Threads : Left(u)'
  BY <1>1, <1>2 DEF PendingInv, Left
<1>4. \A u \in Threads : Pending(u)' = Pending(u)
  BY <1>1, <1>2
<1>5. IndexExact'
  BY <1>4 DEF IndexExact, Exists
<1>6. QED
  BY <1>3, <1>5 DEF PendingInv

(* The records ps change in a drawer, and what thread t changes comes next *)
(* to the index.                                                           *)
LEMMA Touched ==
  ASSUME TypeInv, PendingInv, IndexExact, UNCHANGED refs,
         NEW t \in Threads, Quiet(t), NEW ps \in SUBSET Pointers, NEW stored,
         Touch(t, ps, stored), \A c \in Pointers \ ps : store'[c] = store[c],
         Left(t)', ps \subseteq Pending(t)',
         \A u \in Threads : u # t => todo'[u] = todo[u] /\ outcome'[u] = outcome[u]
  PROVE  PendingInv' /\ IndexExact'
<1>1. \A u \in Threads : u # t => /\ Pending(u)' = Pending(u) /\ Current(u)' = Current(u)
                                  /\ \A op : At(u, op)' = At(u, op)
  BY OtherThread
<1>2. raced' = (raced \ ps) \cup (ps \cap PendingOfOthers(t))
  BY DEF Touch
<1>3. ASSUME NEW u \in Threads, u # t
      PROVE  Left(u)'
  <2>1. Pending(u) \subseteq PendingOfOthers(t) /\ Pending(u) \subseteq Pointers
    BY <1>3, PendingType DEF PendingOfOthers
  <2>2. \A c \in Pending(u) \ raced' : c \notin raced /\ store'[c] = store[c]
    BY <1>2, <2>1
  <2>3. Left(u)
    BY DEF PendingInv
  <2>4. CASE At(u, "index")
    <3>1. Pending(u) = DOMAIN Current(u).recs /\ ~At(u, "unindex")
      BY <2>4 DEF Pending, At
    <3>2. \A c \in DOMAIN Current(u).recs \ raced' : store'[c] = Current(u).recs[c]
      BY <2>2, <2>3, <2>4, <3>1 DEF Left
    <3>3. QED
      BY <1>1, <1>3, <3>1, <3>2 DEF Left
  <2>5. CASE At(u, "unindex")
    <3>1. Pending(u) = Current(u).ptrs /\ ~At(u, "index")
      BY <2>5 DEF Pending, At
    <3>2. \A c \in Current(u).ptrs \ raced' : store'[c] = Absent
      BY <2>2, <2>3, <2>5, <3>1 DEF Left
    <3>3. QED
      BY <1>1, <1>3, <3>1, <3>2 DEF Left
  <2>6. CASE Quiet(u)
    BY <1>1, <1>3, <2>6 DEF Left, Quiet
  <2>7. QED
    BY <2>4, <2>5, <2>6 DEF Quiet
<1>4. ASSUME NEW c \in Pointers, Settled(c)'
      PROVE  Exact(c)'
  <2>1. c \notin ps /\ c \notin raced
    BY <1>2, <1>4 DEF Settled
  <2>2. \A u \in Threads : c \notin Pending(u)
    BY <1>1, <1>4, QuietPending DEF Settled
  <2>3. Exact(c)
    BY <2>1, <2>2, SettledExact DEF Settled
  <2>4. QED
    BY <2>1, <2>3 DEF Exact, Exists
<1>5. (\A c \in Pointers : Settled(c) => Exact(c))'
  BY <1>4
<1>6. IndexExact'
  BY <1>5, SettledExact, PTL
<1>7. QED
  BY <1>3, <1>6 DEF PendingInv

(* Thread t brings the records ps to the index.                            *)
LEMMA Brought ==
  ASSUME TypeInv, PendingInv, IndexExact, UNCHANGED <<store, raced>>,
         NEW t \in Threads, Quiet(t)', NEW ps, Pending(t) = ps,
         \A c \in Pointers \ ps : {e \in refs' : e.child = c} = {e \in refs : e.child = c},
         \A c \in ps \ raced : Exact(c)',
         \A u \in Threads : u # t => todo'[u] = todo[u] /\ outcome'[u] = outcome[u]
  PROVE  PendingInv' /\ IndexExact'
<1>1. \A u \in Threads : u # t => /\ Pending(u)' = Pending(u) /\ Current(u)' = Current(u)
                                  /\ \A op : At(u, op)' = At(u, op)
  BY OtherThread
<1>2. Left(t)'
  BY DEF Quiet, Left
<1>3. \A u \in Threads : Left(u)'
  BY <1>1, <1>2 DEF PendingInv, Left
<1>4. ASSUME NEW c \in Pointers, Settled(c)'
      PROVE  Exact(c)'
  <2>1. c \notin raced /\ \A u \in Threads : u # t => c \notin Pending(u)
    BY <1>1, <1>4 DEF Settled
  <2>2. CASE c \notin ps
    <3>1. Exact(c)
      BY <2>1, <2>2, SettledExact DEF Settled
    <3>2. QED
      BY <2>2, <3>1 DEF Exact, Exists
  <2>3. QED
    BY <2>1, <2>2
<1>5. (\A c \in Pointers : Settled(c) => Exact(c))'
  BY <1>4
<1>6. IndexExact'
  BY <1>5, SettledExact, PTL
<1>7. QED
  BY <1>3, <1>6 DEF PendingInv

(* A delete's removals from a drawer.                                      *)
LEMMA EraseStep ==
  ASSUME TypeInv, PendingInv, IndexExact, NEW t \in Threads, Running(t), Quiet(t),
         NEW ps \in SUBSET Pointers, Erase(t, ps), Current(t).op \in {"remove", "removeSet"},
         StackInv,
         \A u \in Threads : u # t => todo'[u] = todo[u] /\ outcome'[u] = outcome[u]
  PROVE  PendingInv' /\ IndexExact'
<1> DEFINE found == {p \in ps : Exists(store, p)}
<1>1. /\ store' = [p \in Pointers |-> IF p \in ps THEN Absent ELSE store[p]]
      /\ Touch(t, found, FALSE) /\ UNCHANGED refs
      /\ Continue(t, (IF found = {} THEN <<>> ELSE <<Unindex(ps)>>) \o Rest(t))
  BY DEF Erase
<1>2. \A c \in Pointers \ found : store'[c] = store[c]
  BY <1>1 DEF Exists
<1>3. Left(t)' /\ found \subseteq Pending(t)'
  <2>1. CASE found # {}
    <3>1. Continue(t, <<Unindex(ps)>> \o Rest(t))
      BY <1>1, <2>1
    <3>2. Unindex(ps) \in Item /\ Unindex(ps).op = "unindex" /\ Unindex(ps).ptrs = ps
      BY PointerSetItems DEF Unindex
    <3>3. Running(t)' /\ Current(t)' = Unindex(ps)
      BY <3>1, <3>2, NextSection
    <3>4. \A c \in ps : store'[c] = Absent
      BY <1>1
    <3>5. At(t, "unindex")' /\ ~At(t, "index")' /\ (Current(t).ptrs)' = ps
      BY <3>2, <3>3 DEF At
    <3>6. Left(t)'
      BY <3>4, <3>5 DEF Left
    <3>7. Pending(t)' = ps
      BY <3>5 DEF Pending
    <3>8. QED
      BY <3>6, <3>7
  <2>2. CASE found = {}
    <3>1. Continue(t, Rest(t))
      BY <1>1, <2>2, CurrentIsItem
    <3>2. Quiet(t)'
      BY <3>1, QuietRest
    <3>3. QED
      BY <2>2, <3>2 DEF Quiet, Left
  <2>3. QED
    BY <2>1, <2>2
<1>4. found \in SUBSET Pointers
  OBVIOUS
<1> HIDE DEF found
<1>5. QED
  BY <1>1, <1>2, <1>3, <1>4, Touched

LEMMA IndexStep ==
  TypeInv /\ StackInv /\ PendingInv /\ IndexExact /\ [Next]_vars => PendingInv' /\ IndexExact'
<1> SUFFICES ASSUME TypeInv, StackInv, PendingInv, IndexExact, [Next]_vars
             PROVE  PendingInv' /\ IndexExact'
  OBVIOUS
<1>1. ASSUME NEW t \in Threads, BeginUpsert(t) \/ BeginDelete(t) \/ BeginDeleteByFilter(t)
      PROVE  PendingInv' /\ IndexExact'
  <2>1. PICK program : BeginsWith(t, program)
    BY <1>1, BeginShape
  <2>2. /\ \A u \in Threads : u # t => todo'[u] = todo[u] /\ outcome'[u] = outcome[u]
        /\ todo'[t] = program /\ ~Running(t)
    BY <2>1, BegunTodo
  <2>3. UNCHANGED <<store, refs, raced>>
    BY <2>1 DEF BeginsWith, Begin
  <2>4. Quiet(t)
    BY <2>2 DEF Quiet, At
  <2>5. Quiet(t)'
    <3>1. Current(t)' = program[1] /\ 1 \in DOMAIN program
      BY <2>1, <2>2 DEF BeginsWith, Current
    <3>2. Current(t)'.op \in {"store", "attach", "visit", "filter"}
      BY <2>1, <3>1 DEF BeginsWith
    <3>3. QED
      BY <3>2 DEF Quiet, At
  <2>6. QED
    BY <2>2, <2>3, <2>4, <2>5, NothingTouched
<1>2. ASSUME NEW t \in Threads, Step(t)
      PROVE  PendingInv' /\ IndexExact'
  <2> DEFINE i == Current(t)
  <2>1. Running(t) /\ i \in Item
    BY <1>2, StepShape, CurrentIsItem
  <2>2. \A u \in Threads : u # t => todo'[u] = todo[u] /\ outcome'[u] = outcome[u]
    BY <1>2, OthersAfter
  <2>3. i.op \notin {"store", "remove", "removeSet"} => Quiet(t)'
    BY <1>2, QuietAfter
  <2>4. i.op \notin {"index", "unindex"} => Quiet(t)
    BY DEF Quiet, At
  <2>5. CASE DoStore(t)
    <3>1. i.op = "store" /\ Batch(i.recs)
      BY <2>1, <2>5, ItemParts DEF DoStore, At, Batch
    <3>2. CASE Refuse(t)
      <4>1. Quiet(t)' /\ UNCHANGED <<store, refs, raced>>
        BY <3>2, RefusedTodo DEF Refuse, Untouched, Quiet, At, Running
      <4>2. QED
        BY <2>2, <2>4, <3>1, <4>1, NothingTouched
    <3>3. CASE /\ store' = [p \in Pointers |-> IF p \in DOMAIN i.recs THEN i.recs[p] ELSE store[p]]
               /\ Touch(t, DOMAIN i.recs, TRUE)
               /\ Continue(t, <<IndexRecords(i.recs)>> \o Rest(t))
               /\ UNCHANGED <<refs, gone>>
      <4> DEFINE recs == i.recs
      <4>1. IndexRecords(recs) \in Item /\ IndexRecords(recs).op = "index" /\ IndexRecords(recs).recs = recs
        BY <3>1, BatchItems DEF IndexRecords
      <4>2. Running(t)' /\ Current(t)' = IndexRecords(recs)
        BY <2>1, <3>3, <4>1, NextSection
      <4>3. /\ \A c \in DOMAIN recs : store'[c] = recs[c]
            /\ \A c \in Pointers \ DOMAIN recs : store'[c] = store[c]
            /\ DOMAIN recs \in SUBSET Pointers
        BY <3>1, <3>3 DEF Batch
      <4>4. At(t, "index")' /\ ~At(t, "unindex")' /\ Current(t)'.recs = recs
        BY <4>1, <4>2 DEF At
      <4>5. Left(t)' /\ DOMAIN recs \subseteq Pending(t)'
        BY <4>3, <4>4 DEF Left, Pending
      <4>6. Touch(t, DOMAIN recs, TRUE) /\ UNCHANGED refs
        BY <3>3
      <4> HIDE DEF recs
      <4>7. QED
        BY <2>2, <2>4, <3>1, <4>3, <4>5, <4>6, Touched
    <3>4. QED
      BY <2>5, <3>2, <3>3 DEF DoStore
  <2>6. CASE DoIndex(t)
    <3>1. i.op = "index" /\ At(t, "index") /\ Batch(i.recs)
      BY <2>1, <2>6, ItemParts DEF DoIndex, At, Batch
    <3>2. refs' = Reindexed(refs, i.recs) /\ UNCHANGED <<store, raced>>
      BY <2>6 DEF DoIndex
    <3>3. Pending(t) = DOMAIN i.recs
      BY <3>1 DEF Pending
    <3>4. \A c \in DOMAIN i.recs \ raced : store[c] = i.recs[c] /\ i.recs[c] # Absent
      BY <3>1, RecordsAssumption DEF PendingInv, Left, Batch
    <3>5. \A c : {e \in refs' : e.child = c}
                   = IF c \in DOMAIN i.recs THEN Entries(c, i.recs[c]) ELSE {e \in refs : e.child = c}
      <4>1. \A c, recs : {e \in Reindexed(refs, recs) : e.child = c}
                           = IF c \in DOMAIN recs THEN Entries(c, recs[c]) ELSE {e \in refs : e.child = c}
        BY ReindexedEntries
      <4>2. QED
        BY <3>2, <4>1
    <3>6. \A c \in DOMAIN i.recs \ raced : Exact(c)'
      BY <3>2, <3>4, <3>5 DEF Exact, Exists
    <3>7. QED
      BY <2>2, <2>3, <3>1, <3>2, <3>3, <3>5, <3>6, Brought
  <2>7. CASE DoUnindex(t)
    <3>1. i.op = "unindex" /\ At(t, "unindex") /\ ~At(t, "index")
      BY <2>7 DEF DoUnindex, At
    <3>2. refs' = Unindexed(refs, i.ptrs) /\ UNCHANGED <<store, raced>>
      BY <2>7 DEF DoUnindex
    <3>3. Pending(t) = i.ptrs
      BY <3>1 DEF Pending
    <3>4. \A c \in i.ptrs \ raced : store[c] = Absent
      BY <3>1 DEF PendingInv, Left
    <3>5. \A c : {e \in refs' : e.child = c} = IF c \in i.ptrs THEN {} ELSE {e \in refs : e.child = c}
      BY <3>2, UnindexedEntries
    <3>6. \A c \in i.ptrs \ raced : Exact(c)'
      BY <3>2, <3>4, <3>5 DEF Exact, Exists
    <3>7. QED
      BY <2>2, <2>3, <3>1, <3>2, <3>3, <3>5, <3>6, Brought
  <2>8. CASE DoRemove(t)
    <3>1. i.op = "remove" /\ {i.ptr} \in SUBSET Pointers /\ Erase(t, {i.ptr})
      BY <2>1, <2>8, ItemParts DEF DoRemove, At
    <3>2. QED
      BY <2>1, <2>2, <2>4, <3>1, EraseStep
  <2>9. CASE DoRemoveSet(t)
    <3>1. i.op = "removeSet" /\ i.ptrs \in SUBSET Pointers /\ Erase(t, i.ptrs)
      BY <2>1, <2>9, ItemParts DEF DoRemoveSet, At
    <3>2. QED
      BY <2>1, <2>2, <2>4, <3>1, EraseStep
  <2>10. CASE Untouched /\ i.op \notin {"store", "remove", "removeSet", "index", "unindex"}
    <3>1. UNCHANGED <<store, refs, raced>>
      BY <2>10 DEF Untouched
    <3>2. QED
      BY <2>2, <2>3, <2>4, <2>10, <3>1, NothingTouched
  <2>11. CASE DoAttach(t) \/ DoVisit(t) \/ DoFilter(t) \/ DoEffects(t) \/ DoLeave(t) \/ DoLookup(t)
    <3>1. Untouched /\ i.op \notin {"store", "remove", "removeSet", "index", "unindex"}
      BY <2>11 DEF DoAttach, DoVisit, DoFilter, DoEffects, DoLeave, DoLookup, At
    <3>2. QED
      BY <2>10, <3>1
  <2>12. CASE DoFetch(t)
    <3>1. Untouched /\ i.op = "fetch"
      BY <2>12 DEF DoFetch, Refuse, At
    <3>2. QED
      BY <2>10, <3>1
  <2>13. QED
    BY <1>2, <2>5, <2>6, <2>7, <2>8, <2>9, <2>11, <2>12 DEF Step
<1>3. CASE Restart
  <2>1. /\ refs' = Rebuilt(store) /\ UNCHANGED store
        /\ \A u \in Threads : ~Running(u)'
    BY <1>3 DEF Restart, Running
  <2>2. \A u \in Threads : Left(u)'
    BY <2>1 DEF Left, At
  <2>3. \A c \in Pointers : Exact(c)'
    BY <2>1, RebuiltEntries DEF Exact, Exists
  <2>4. (\A c \in Pointers : Settled(c) => Exact(c))'
    BY <2>3
  <2>5. IndexExact'
    BY <2>4, SettledExact, PTL
  <2>6. QED
    BY <2>2, <2>5 DEF PendingInv
<1>4. CASE UNCHANGED vars
  BY <1>4 DEF vars, history, PendingInv, Left, IndexExact, Pending, At, Running, Current, Exists
<1>5. QED
  BY <1>1, <1>2, <1>3, <1>4 DEF Next

(* The index always holds exactly the tracked references of every record   *)
(* whose last change has reached it and was not disputed by two threads:   *)
(* upserts, attached children, deletes by pointer and by filter, cascades, *)
(* set-null writes and the rebuild of an open all end in the same entries, *)
(* for any rules, payloads and threads.                                    *)
THEOREM IndexIsExact == Spec => []IndexExact
<1> DEFINE IndexInv == TypeInv /\ StackInv /\ PendingInv /\ IndexExact
<1>1. Init => IndexInv
  <2> SUFFICES ASSUME Init
               PROVE  IndexInv
    OBVIOUS
  <2>1. TypeInv /\ StackInv
    BY TypeInit DEF Init, StackInv
  <2>2. refs = Rebuilt(store) /\ \A u \in Threads : ~Running(u)
    BY DEF Init, Running
  <2>3. PendingInv
    BY <2>2 DEF PendingInv, Left, At
  <2>4. \A c \in Pointers : Exact(c)
    BY <2>2, RebuiltEntries DEF Exact
  <2>5. IndexExact
    BY <2>4, SettledExact
  <2>6. QED
    BY <2>1, <2>3, <2>5
<1>2. IndexInv /\ [Next]_vars => IndexInv'
  BY TypeStep, StackStep, IndexStep
<1>3. IndexInv => IndexExact
  OBVIOUS
<1> HIDE DEF IndexInv
<1>4. QED
  BY <1>1, <1>2, <1>3, PTL DEF Spec

-----------------------------------------------------------------------------
(* What a delete leaves behind.                                           *)

(* Section i takes record p out of its drawer.                             *)
Removes(i, p) ==
  \/ i.op = "remove" /\ i.ptr = p
  \/ i.op = "removeSet" /\ p \in i.ptrs

(* Thread t has still to remove c.                                         *)
Doomed(t, c) == \E k \in DOMAIN todo[t] : Removes(todo[t][k], c)

(* Section i deals with the reference that c makes to p by rule r.         *)
Handles(i, r, c, p) ==
  \/ i.op = "effects" /\ i.ptr = p
  \/ i.op = "lookup" /\ i.ptr = p /\ i.rule = r
  \/ i.op = "fetch" /\ i.ptr = p /\ i.rule = r /\ c \in i.ids
  \/ i.op = "visit" /\ i.ptr = c
  \/ i.op = "store" /\ c \in DOMAIN i.recs /\ p \notin i.recs[c][r.field]

(* What c is, and what thread t has made ready to write over it.           *)
Written(t, c) ==
  {todo[t][k].recs[c] :
     k \in {l \in DOMAIN todo[t] : todo[t][l].op = "store" /\ c \in DOMAIN todo[t][l].recs}}
Copies(t, c) == (IF Exists(store, c) THEN {store[c]} ELSE {}) \cup Written(t, c)

Refers(rec, r, c, p) ==
  /\ r.of = DrawerOf[p] /\ r.target = DrawerOf[c]
  /\ Tracked(r.target, r.field)
  /\ p \in rec[r.field]

(* A reference to a record that is gone dies with the record that makes it; *)
(* one to a record that will go is dealt with before.                      *)
Cover(t) ==
  \A r \in Rules, p \in Pointers, c \in Pointers \ fresh[t] :
    \A rec \in Copies(t, c) : Refers(rec, r, c, p) =>
      \/ Doomed(t, c)
      \/ /\ p \notin gone[t]
         /\ \A k \in DOMAIN todo[t] : Removes(todo[t][k], p) =>
              \E j \in 1 .. k - 1 : Handles(todo[t][j], r, c, p)

(* An operation that deletes writes what it has just read.                 *)
Plain(t) ==
  /\ gone[t] = {}
  /\ \A k \in DOMAIN todo[t] : todo[t][k].op \in {"store", "index", "attach"}
Fronted(t) ==
  \A k \in DOMAIN todo[t] :
    /\ todo[t][k].op # "attach"
    /\ todo[t][k].op = "store" => \A j \in 1 .. k - 1 :
         /\ todo[t][j].op \in {"store", "index"}
         /\ todo[t][j].op = "store" => DOMAIN todo[t][j].recs \cap DOMAIN todo[t][k].recs = {}

(* A record that effects leave alone, or are closing, is removed later.     *)
Awaits(i) ==
  IF i.op = "effects" THEN i.skip \cup {i.ptr}
  ELSE IF i.op \in {"lookup", "fetch"} THEN i.skip
  ELSE IF i.op = "leave" THEN {i.ptr} ELSE {}
Later(t) ==
  \A k \in DOMAIN todo[t] : \A p \in Awaits(todo[t][k]) :
    \E l \in DOMAIN todo[t] : l > k /\ Removes(todo[t][l], p)

(* A record in dispute, or on its way to the index, is known to be new.     *)
Known(t) ==
  \A c \in Pointers : (Exists(store, c) /\ c \in raced \cup PendingOfOthers(t)) => c \in fresh[t]

OrderInv == \A t \in Threads : (Plain(t) \/ Fronted(t)) /\ Later(t)
FreshInv == \A t \in Threads : outcome[t] # "idle" => Known(t)
CoverInv == \A t \in Threads : outcome[t] # "refused" => Cover(t)

-----------------------------------------------------------------------------
(* What is in a sequence of sections.                                      *)

Has(s, x) == \E j \in DOMAIN s : s[j] = x

(* A sequence put behind another.                                           *)
LEMMA ConcatParts ==
  ASSUME NEW S, NEW s1 \in Seq(S), NEW s2 \in Seq(S)
  PROVE  /\ s1 \o s2 \in Seq(S) /\ Len(s1) \in Nat /\ Len(s2) \in Nat
         /\ DOMAIN s1 = 1..Len(s1) /\ DOMAIN s2 = 1..Len(s2)
         /\ Len(s1 \o s2) = Len(s1) + Len(s2) /\ DOMAIN (s1 \o s2) = 1..(Len(s1) + Len(s2))
         /\ \A i \in 1..Len(s1) : (s1 \o s2)[i] = s1[i]
         /\ \A i \in 1..Len(s2) : (s1 \o s2)[Len(s1) + i] = s2[i]
OBVIOUS

LEMMA ItemConcat ==
  ASSUME NEW s1 \in Seq(Item), NEW s2 \in Seq(Item)
  PROVE  /\ s1 \o s2 \in Seq(Item) /\ Len(s1) \in Nat /\ Len(s2) \in Nat
         /\ DOMAIN s1 = 1..Len(s1) /\ DOMAIN s2 = 1..Len(s2)
         /\ Len(s1 \o s2) = Len(s1) + Len(s2) /\ DOMAIN (s1 \o s2) = 1..(Len(s1) + Len(s2))
         /\ \A i \in 1..Len(s1) : (s1 \o s2)[i] = s1[i]
         /\ \A i \in 1..Len(s2) : (s1 \o s2)[Len(s1) + i] = s2[i]
BY ConcatParts

LEMMA HasConcat ==
  ASSUME NEW S, NEW s1 \in Seq(S), NEW s2 \in Seq(S), NEW x
  PROVE  /\ s1 \o s2 \in Seq(S)
         /\ Has(s1, x) \/ Has(s2, x) => Has(s1 \o s2, x)
<1>1. /\ s1 \o s2 \in Seq(S) /\ Len(s1) \in Nat /\ Len(s2) \in Nat
      /\ DOMAIN s1 = 1..Len(s1) /\ DOMAIN s2 = 1..Len(s2)
      /\ DOMAIN (s1 \o s2) = 1..(Len(s1) + Len(s2))
      /\ \A i \in 1..Len(s1) : (s1 \o s2)[i] = s1[i]
      /\ \A i \in 1..Len(s2) : (s1 \o s2)[Len(s1) + i] = s2[i]
  BY ConcatParts
<1>2. ASSUME NEW j \in DOMAIN s1, s1[j] = x
      PROVE  Has(s1 \o s2, x)
  <2>1. j \in DOMAIN (s1 \o s2) /\ (s1 \o s2)[j] = x
    BY <1>1, <1>2
  <2>2. QED
    BY <2>1 DEF Has
<1>3. ASSUME NEW j \in DOMAIN s2, s2[j] = x
      PROVE  Has(s1 \o s2, x)
  <2>1. Len(s1) + j \in DOMAIN (s1 \o s2) /\ (s1 \o s2)[Len(s1) + j] = x
    BY <1>1, <1>3
  <2>2. QED
    BY <2>1 DEF Has
<1>4. QED
  BY <1>1, <1>2, <1>3 DEF Has

(* The order takes every element, and none twice.                          *)
LEMMA SetToSeqOnto ==
  ASSUME NEW S, IsFiniteSet(S)
  PROVE  /\ \A x \in S : \E j \in DOMAIN SetToSeq(S) : SetToSeq(S)[j] = x
         /\ \A i, j \in DOMAIN SetToSeq(S) : SetToSeq(S)[i] = SetToSeq(S)[j] => i = j
<1> DEFINE n == Cardinality(S)
           f == SetToSeq(S)
<1>1. n \in Nat /\ ExistsBijection(1..n, S)
  BY FS_CardinalityType
<1>2. \E g \in [1..n -> S] : IsInjective(g)
  BY <1>1 DEF ExistsBijection, Bijection, Injection
<1>3. f \in [1..n -> S] /\ IsInjective(f)
  BY <1>2 DEF SetToSeq
<1>4. f \in Injection(1..n, S)
  BY <1>3 DEF Injection
<1>5. IsFiniteSet(1..n) /\ Cardinality(1..n) = n
  BY <1>1, FS_Interval
<1>6. f \in Surjection(1..n, S)
  BY <1>4, <1>5, FS_Injection
<1>7. QED
  BY <1>3, <1>6 DEF Surjection, IsInjective

(* VisitAll visits each of the records.                                     *)
LEMMA VisitsAll ==
  ASSUME NEW ps \in SUBSET Pointers
  PROVE  /\ \A c \in ps : Has(VisitAll(ps), Visit(c))
         /\ \A j \in DOMAIN VisitAll(ps) : VisitAll(ps)[j].op = "visit"
<1> DEFINE order == SetToSeq(ps)
<1>1. \A c \in ps : \E j \in DOMAIN order : order[j] = c
  BY PointersFinite, SetToSeqOnto
<1>2. VisitAll(ps) = [j \in DOMAIN order |-> Visit(order[j])]
  BY DEF VisitAll
<1> HIDE DEF order
<1>3. QED
  BY <1>1, <1>2 DEF Has, Visit

(* LookupAll looks up each of the rules.                                    *)
LEMMA LooksUpAll ==
  ASSUME NEW p \in Pointers, NEW action, NEW skip \in SUBSET Pointers
  PROVE  /\ \A r \in RulesOf(DrawerOf[p], action) : Has(LookupAll(p, action, skip), Lookup(r, p, skip))
         /\ \A j \in DOMAIN LookupAll(p, action, skip) :
              LookupAll(p, action, skip)[j].op = "lookup" /\ LookupAll(p, action, skip)[j].skip = skip
<1> DEFINE rules == RulesOf(DrawerOf[p], action)
           order == SetToSeq(rules)
<1>1. \A r \in rules : \E j \in DOMAIN order : order[j] = r
  BY RulesFinite, SetToSeqOnto
<1>2. LookupAll(p, action, skip) = [j \in DOMAIN order |-> Lookup(order[j], p, skip)]
  BY DEF LookupAll
<1> HIDE DEF order, rules
<1>3. (\A r \in rules : Has(LookupAll(p, action, skip), Lookup(r, p, skip)))
      /\ \A j \in DOMAIN LookupAll(p, action, skip) :
           LookupAll(p, action, skip)[j].op = "lookup" /\ LookupAll(p, action, skip)[j].skip = skip
  BY <1>1, <1>2 DEF Has, Lookup
<1>4. QED
  BY <1>3 DEF rules

(* The effects of a delete look up every rule of its drawer.               *)
EffectOf(skip) == {i \in VisitOrLookup : i.op = "lookup" => i.skip = skip}
LEMMA EffectsComplete ==
  ASSUME NEW p \in Pointers, NEW rec \in Record, NEW skip \in SUBSET Pointers
  PROVE  /\ Effects(p, rec, skip) \in Seq(EffectOf(skip))
         /\ \A r \in Rules : r.of = DrawerOf[p] => Has(Effects(p, rec, skip), Lookup(r, p, skip))
<1> DEFINE look(a) == LookupAll(p, a, skip)
           ahead == VisitAll(Forward(p, rec) \ skip)
<1>1. Forward(p, rec) \subseteq Pointers
  BY DEF Forward, Record
<1>2. ahead \in Seq(VisitOrLookup) /\ \A j \in DOMAIN ahead : ahead[j].op = "visit"
  BY <1>1, VisitsType, VisitsAll
<1>3. \A a : look(a) \in Seq(VisitOrLookup) /\ \A j \in DOMAIN look(a) : look(a)[j].skip = skip
  BY LookupsType, LooksUpAll
<1>4. \A a : \A r \in RulesOf(DrawerOf[p], a) : Has(look(a), Lookup(r, p, skip))
  BY LooksUpAll
<1>5. Effects(p, rec, skip) = ((look("Restrict") \o look("Cascade")) \o ahead) \o look("SetNull")
  BY DEF Effects
<1> HIDE DEF look, ahead
<1>6. ahead \in Seq(EffectOf(skip))
  BY <1>2 DEF EffectOf
<1>7. \A a : look(a) \in Seq(EffectOf(skip))
  BY <1>3 DEF EffectOf
<1>8. /\ look("Restrict") \o look("Cascade") \in Seq(EffectOf(skip))
      /\ (look("Restrict") \o look("Cascade")) \o ahead \in Seq(EffectOf(skip))
      /\ ((look("Restrict") \o look("Cascade")) \o ahead) \o look("SetNull") \in Seq(EffectOf(skip))
  BY <1>6, <1>7
<1>9. ASSUME NEW r \in Rules, r.of = DrawerOf[p]
      PROVE  Has(Effects(p, rec, skip), Lookup(r, p, skip))
  <2>1. r.action \in Actions /\ r \in RulesOf(DrawerOf[p], r.action)
    BY <1>9, RulesAssumption DEF RulesOf, Rule
  <2>2. Has(look(r.action), Lookup(r, p, skip))
    BY <1>4, <2>1
  <2>3. r.action = "Restrict" \/ r.action = "Cascade" \/ r.action = "SetNull"
    BY <2>1 DEF Actions
  <2>4. CASE r.action = "Restrict"
    <3>1. Has(look("Restrict") \o look("Cascade"), Lookup(r, p, skip))
      BY <1>7, <2>2, <2>4, HasConcat
    <3>2. Has((look("Restrict") \o look("Cascade")) \o ahead, Lookup(r, p, skip))
      BY <1>6, <1>8, <3>1, HasConcat
    <3>3. QED
      BY <1>5, <1>7, <1>8, <3>2, HasConcat
  <2>5. CASE r.action = "Cascade"
    <3>1. Has(look("Restrict") \o look("Cascade"), Lookup(r, p, skip))
      BY <1>7, <2>2, <2>5, HasConcat
    <3>2. Has((look("Restrict") \o look("Cascade")) \o ahead, Lookup(r, p, skip))
      BY <1>6, <1>8, <3>1, HasConcat
    <3>3. QED
      BY <1>5, <1>7, <1>8, <3>2, HasConcat
  <2>6. CASE r.action = "SetNull"
    BY <1>5, <1>7, <1>8, <2>2, <2>6, HasConcat
  <2>7. QED
    BY <2>3, <2>4, <2>5, <2>6
<1>10. QED
  BY <1>5, <1>8, <1>9

-----------------------------------------------------------------------------
(* What a step leaves of the sections.                                     *)

(* Where the sections of a thread are after one has been replaced.          *)
LEMMA SplicedAt ==
  ASSUME TypeInv, NEW t \in Threads, Running(t), NEW new \in Seq(Item),
         Continue(t, new \o Rest(t))
  PROVE  /\ Len(new) \in Nat /\ DOMAIN new = 1..Len(new)
         /\ Len(todo[t]) \in Nat \ {0} /\ DOMAIN todo[t] = 1..Len(todo[t])
         /\ todo[t][1] = Current(t)
         /\ DOMAIN todo'[t] = 1..(Len(new) + Len(todo[t]) - 1)
         /\ \A i \in DOMAIN new : i \in DOMAIN todo'[t] /\ todo'[t][i] = new[i]
         /\ \A l \in DOMAIN todo[t] : l > 1 =>
              /\ l + Len(new) - 1 \in DOMAIN todo'[t]
              /\ todo'[t][l + Len(new) - 1] = todo[t][l]
         /\ \A k \in DOMAIN todo'[t] :
              \/ k \in DOMAIN new
              \/ \E l \in DOMAIN todo[t] : l > 1 /\ k = l + Len(new) - 1
<1>1. todo[t] \in Seq(Item) /\ todo[t] # <<>> /\ Rest(t) = Tail(todo[t]) /\ Current(t) = todo[t][1]
  BY CurrentIsItem DEF Rest
<1>2. todo'[t] = new \o Tail(todo[t])
  BY <1>1 DEF Continue, TypeInv, TypeOK
<1>3. /\ Len(new) \in Nat /\ DOMAIN new = 1..Len(new)
      /\ Len(todo[t]) \in Nat \ {0} /\ DOMAIN todo[t] = 1..Len(todo[t])
  BY <1>1
<1>4. /\ todo'[t] \in Seq(Item) /\ Len(todo'[t]) = Len(new) + Len(todo[t]) - 1
      /\ \A i \in 1..Len(new) : todo'[t][i] = new[i]
      /\ \A i \in 1..Len(todo'[t]) : i > Len(new) => todo'[t][i] = todo[t][i - Len(new) + 1]
  BY <1>1, <1>2, Splice
<1>5. DOMAIN todo'[t] = 1..(Len(new) + Len(todo[t]) - 1)
  BY <1>4
<1>6. \A l \in DOMAIN todo[t] : l > 1 =>
              /\ l + Len(new) - 1 \in DOMAIN todo'[t]
              /\ todo'[t][l + Len(new) - 1] = todo[t][l]
  <2>1. SUFFICES ASSUME NEW l \in DOMAIN todo[t], l > 1
                 PROVE  /\ l + Len(new) - 1 \in DOMAIN todo'[t]
                        /\ todo'[t][l + Len(new) - 1] = todo[t][l]
    OBVIOUS
  <2>2. /\ l \in Nat /\ l + Len(new) - 1 \in 1..(Len(new) + Len(todo[t]) - 1)
        /\ l + Len(new) - 1 > Len(new) /\ (l + Len(new) - 1) - Len(new) + 1 = l
    BY <1>3, <2>1
  <2>3. QED
    BY <1>4, <1>5, <2>2
<1>7. \A k \in DOMAIN todo'[t] : \/ k \in DOMAIN new
                                 \/ \E l \in DOMAIN todo[t] : l > 1 /\ k = l + Len(new) - 1
  <2>1. SUFFICES ASSUME NEW k \in DOMAIN todo'[t], k \notin DOMAIN new
                 PROVE  \E l \in DOMAIN todo[t] : l > 1 /\ k = l + Len(new) - 1
    OBVIOUS
  <2>2. /\ k - Len(new) + 1 \in DOMAIN todo[t] /\ k - Len(new) + 1 > 1
        /\ k = (k - Len(new) + 1) + Len(new) - 1
    BY <1>3, <1>5, <2>1
  <2>3. QED
    BY <2>2
<1>8. QED
  BY <1>1, <1>3, <1>4, <1>5, <1>6, <1>7

(* New sections await what the old one did, or bring the removal with       *)
(* them.                                                                    *)
LEMMA LaterSplice ==
  ASSUME TypeInv, NEW t \in Threads, Running(t), Later(t), NEW new \in Seq(Item),
         Continue(t, new \o Rest(t)),
         \A m \in DOMAIN new : \A p \in Awaits(new[m]) :
           \/ p \in Awaits(Current(t))
           \/ \E l \in DOMAIN new : l > m /\ Removes(new[l], p)
  PROVE  Later(t)'
<1> DEFINE n == Len(new)
           q == todo[t]
           q2 == todo'[t]
<1>1. /\ n \in Nat /\ DOMAIN new = 1..n /\ Len(q) \in Nat \ {0} /\ DOMAIN q = 1..Len(q)
      /\ q[1] = Current(t) /\ DOMAIN q2 = 1..(n + Len(q) - 1)
      /\ \A i \in DOMAIN new : i \in DOMAIN q2 /\ q2[i] = new[i]
      /\ \A l \in DOMAIN q : l > 1 => l + n - 1 \in DOMAIN q2 /\ q2[l + n - 1] = q[l]
      /\ \A k \in DOMAIN q2 : k \in DOMAIN new \/ \E l \in DOMAIN q : l > 1 /\ k = l + n - 1
  BY SplicedAt
<1>2. \A k \in DOMAIN q : \A p \in Awaits(q[k]) : \E l \in DOMAIN q : l > k /\ Removes(q[l], p)
  BY DEF Later
<1> SUFFICES ASSUME NEW k \in DOMAIN q2, NEW p \in Awaits(q2[k])
             PROVE  \E l \in DOMAIN q2 : l > k /\ Removes(q2[l], p)
  BY DEF Later
<1> HIDE DEF n, q, q2
<1>3. CASE k \in DOMAIN new
  <2>1. p \in Awaits(new[k])
    BY <1>1, <1>3
  <2>2. CASE \E l \in DOMAIN new : l > k /\ Removes(new[l], p)
    BY <1>1, <2>2
  <2>3. CASE p \in Awaits(Current(t))
    <3>1. PICK l \in DOMAIN q : l > 1 /\ Removes(q[l], p)
      BY <1>1, <1>2, <2>3
    <3>2. l + n - 1 \in DOMAIN q2 /\ Removes(q2[l + n - 1], p) /\ l + n - 1 > k
      BY <1>1, <1>3, <3>1
    <3>3. QED
      BY <3>2
  <2>4. QED
    BY <1>3, <2>1, <2>2, <2>3
<1>4. CASE \E l \in DOMAIN q : l > 1 /\ k = l + n - 1
  <2>1. PICK l \in DOMAIN q : l > 1 /\ k = l + n - 1
    BY <1>4
  <2>2. PICK m \in DOMAIN q : m > l /\ Removes(q[m], p)
    BY <1>1, <1>2, <2>1
  <2>3. m + n - 1 \in DOMAIN q2 /\ Removes(q2[m + n - 1], p) /\ m + n - 1 > k
    BY <1>1, <2>1, <2>2
  <2>4. QED
    BY <2>3
<1>5. QED
  BY <1>1, <1>3, <1>4

(* No section of an operation that deletes is stored ahead of its turn.    *)
LEMMA NoStores ==
  ASSUME TypeInv, NEW t \in Threads, Running(t), Fronted(t), Current(t).op \notin {"store", "index"}
  PROVE  \A k \in DOMAIN todo[t] : todo[t][k].op # "store"
<1>1. todo[t] \in Seq(Item) /\ todo[t] # <<>> /\ Current(t) = todo[t][1]
  BY CurrentIsItem
<1>2. \A k \in DOMAIN todo[t] : k = 1 \/ 1 \in 1 .. k - 1
  BY <1>1
<1>3. QED
  BY <1>1, <1>2 DEF Fronted

(* New stores come first and write different records.                       *)
LEMMA FrontedSplice ==
  ASSUME TypeInv, NEW t \in Threads, Running(t), Fronted(t), NEW new \in Seq(Item),
         Continue(t, new \o Rest(t)),
         Current(t).op \in {"store", "index"} => \A m \in DOMAIN new : new[m].op = "index",
         \A m \in DOMAIN new : new[m].op # "attach",
         \A m \in DOMAIN new : new[m].op = "store" => \A j \in 1 .. m - 1 :
           /\ new[j].op = "store"
           /\ DOMAIN new[j].recs \cap DOMAIN new[m].recs = {}
  PROVE  Fronted(t)'
<1> DEFINE n == Len(new)
           q == todo[t]
           q2 == todo'[t]
<1>1. /\ n \in Nat /\ DOMAIN new = 1..n /\ Len(q) \in Nat \ {0} /\ DOMAIN q = 1..Len(q)
      /\ q[1] = Current(t) /\ DOMAIN q2 = 1..(n + Len(q) - 1)
      /\ \A i \in DOMAIN new : i \in DOMAIN q2 /\ q2[i] = new[i]
      /\ \A l \in DOMAIN q : l > 1 => l + n - 1 \in DOMAIN q2 /\ q2[l + n - 1] = q[l]
      /\ \A k \in DOMAIN q2 : k \in DOMAIN new \/ \E l \in DOMAIN q : l > 1 /\ k = l + n - 1
  BY SplicedAt
<1>2. \A k \in DOMAIN q : q[k].op = "store" => \A j \in 1 .. k - 1 :
        /\ q[j].op \in {"store", "index"}
        /\ q[j].op = "store" => DOMAIN q[j].recs \cap DOMAIN q[k].recs = {}
  BY DEF Fronted
<1>3. Current(t).op \notin {"store", "index"} => \A k \in DOMAIN q : q[k].op # "store"
  BY NoStores
<1>0. \A k \in DOMAIN q : q[k].op # "attach"
  BY DEF Fronted
<1>8. \A k \in DOMAIN q2 : q2[k].op # "attach"
  BY <1>0, <1>1
<1> SUFFICES ASSUME NEW k \in DOMAIN q2, q2[k].op = "store", NEW j \in 1 .. k - 1
             PROVE  /\ q2[j].op \in {"store", "index"}
                    /\ q2[j].op = "store" => DOMAIN q2[j].recs \cap DOMAIN q2[k].recs = {}
  BY <1>8 DEF Fronted
<1> HIDE DEF n, q, q2
<1>4. j \in DOMAIN q2 /\ j < k
  BY <1>1
<1>5. CASE k \in DOMAIN new
  BY <1>1, <1>4, <1>5
<1>6. CASE \E l \in DOMAIN q : l > 1 /\ k = l + n - 1
  <2>1. PICK l \in DOMAIN q : l > 1 /\ k = l + n - 1
    BY <1>6
  <2>2. q[l].op = "store" /\ q2[k] = q[l]
    BY <1>1, <2>1
  <2>3. Current(t).op \in {"store", "index"}
    BY <1>3, <2>2
  <2>4. CASE j \in DOMAIN new
    <3>1. q2[j].op = "index"
      BY <1>1, <2>3, <2>4
    <3>2. QED
      BY <3>1
  <2>5. CASE \E m \in DOMAIN q : m > 1 /\ j = m + n - 1
    <3>1. PICK m \in DOMAIN q : m > 1 /\ j = m + n - 1
      BY <2>5
    <3>2. m \in 1 .. l - 1 /\ q2[j] = q[m]
      BY <1>1, <1>4, <2>1, <3>1
    <3>3. QED
      BY <1>2, <2>2, <3>2
  <2>6. QED
    BY <1>1, <1>4, <2>4, <2>5
<1>7. QED
  BY <1>1, <1>5, <1>6

(* A record that is to be removed is removed now or stays so.               *)
LEMMA DoomedSplice ==
  ASSUME TypeInv, NEW t \in Threads, Running(t), NEW new \in Seq(Item),
         Continue(t, new \o Rest(t)), NEW c, Doomed(t, c)
  PROVE  Removes(Current(t), c) \/ Doomed(t, c)'
<1>1. PICK k \in DOMAIN todo[t] : Removes(todo[t][k], c)
  BY DEF Doomed
<1>2. Len(todo[t]) \in Nat \ {0} /\ DOMAIN todo[t] = 1..Len(todo[t]) /\ todo[t][1] = Current(t)
  BY SplicedAt
<1>3. CASE k = 1
  BY <1>1, <1>2, <1>3
<1>4. CASE k > 1
  <2>1. k + Len(new) - 1 \in DOMAIN todo'[t] /\ todo'[t][k + Len(new) - 1] = todo[t][k]
    BY <1>4, SplicedAt
  <2>2. QED
    BY <1>1, <2>1 DEF Doomed
<1>5. QED
  BY <1>1, <1>2, <1>3, <1>4

(* What is ready to be written was so before, or is new.                    *)
LEMMA WrittenSplice ==
  ASSUME TypeInv, NEW t \in Threads, Running(t), NEW new \in Seq(Item),
         Continue(t, new \o Rest(t)), NEW c
  PROVE  Written(t, c)' \subseteq Written(t, c) \cup
           {new[m].recs[c] : m \in {l \in DOMAIN new : new[l].op = "store" /\ c \in DOMAIN new[l].recs}}
<1> DEFINE n == Len(new)
           q == todo[t]
           q2 == todo'[t]
<1>1. /\ \A i \in DOMAIN new : i \in DOMAIN q2 /\ q2[i] = new[i]
      /\ \A l \in DOMAIN q : l > 1 => l + n - 1 \in DOMAIN q2 /\ q2[l + n - 1] = q[l]
      /\ \A k \in DOMAIN q2 : k \in DOMAIN new \/ \E l \in DOMAIN q : l > 1 /\ k = l + n - 1
  BY SplicedAt
<1>2. \A k \in DOMAIN q2 : \/ k \in DOMAIN new /\ q2[k] = new[k]
                           \/ \E l \in DOMAIN q : q2[k] = q[l]
  BY <1>1
<1> HIDE DEF n
<1>3. QED
  BY <1>2 DEF Written

(* How a step keeps the references to what is gone, or will go, covered.   *)
LEMMA CoverSplice ==
  ASSUME TypeInv, NEW t \in Threads, Running(t), Cover(t), NEW new \in Seq(Item),
         Continue(t, new \o Rest(t)), fresh[t] \subseteq fresh'[t],
         \A p \in gone'[t] : p \in gone[t] \/ Removes(Current(t), p),
         \A r \in Rules, p \in Pointers, c \in Pointers \ fresh'[t] :
           \A rec \in Copies(t, c)' : Refers(rec, r, c, p) =>
             /\ \E old \in Copies(t, c) : Refers(old, r, c, p)
             /\ ~Removes(Current(t), c)
             /\ Handles(Current(t), r, c, p) =>
                  Doomed(t, c)' \/ \E j \in DOMAIN new : Handles(new[j], r, c, p)
             /\ \A m \in DOMAIN new : Removes(new[m], p) =>
                  Doomed(t, c)' \/ \E j \in 1 .. m - 1 : Handles(new[j], r, c, p)
  PROVE  Cover(t)'
<1> DEFINE n == Len(new)
           q == todo[t]
           q2 == todo'[t]
<1>1. /\ n \in Nat /\ DOMAIN new = 1..n /\ Len(q) \in Nat \ {0} /\ DOMAIN q = 1..Len(q)
      /\ q[1] = Current(t) /\ DOMAIN q2 = 1..(n + Len(q) - 1)
      /\ \A i \in DOMAIN new : i \in DOMAIN q2 /\ q2[i] = new[i]
      /\ \A l \in DOMAIN q : l > 1 => l + n - 1 \in DOMAIN q2 /\ q2[l + n - 1] = q[l]
      /\ \A k \in DOMAIN q2 : k \in DOMAIN new \/ \E l \in DOMAIN q : l > 1 /\ k = l + n - 1
  BY SplicedAt
<1> SUFFICES ASSUME NEW r \in Rules, NEW p \in Pointers, NEW c \in Pointers \ fresh'[t],
                    NEW rec \in Copies(t, c)', Refers(rec, r, c, p), ~Doomed(t, c)'
             PROVE  /\ p \notin gone'[t]
                    /\ \A k \in DOMAIN q2 : Removes(q2[k], p) =>
                         \E j \in 1 .. k - 1 : Handles(q2[j], r, c, p)
  BY DEF Cover
<1>2. PICK old \in Copies(t, c) : Refers(old, r, c, p)
  OBVIOUS
<1>3. ~Doomed(t, c)
  BY DoomedSplice
<1>4. /\ p \notin gone[t]
      /\ \A k \in DOMAIN q : Removes(q[k], p) => \E j \in 1 .. k - 1 : Handles(q[j], r, c, p)
  BY <1>2, <1>3 DEF Cover
<1>5. ~Removes(Current(t), p)
  BY <1>1, <1>4
<1>6. p \notin gone'[t]
  BY <1>4, <1>5
<1>7. Handles(Current(t), r, c, p) => \E j \in DOMAIN new : Handles(new[j], r, c, p)
  OBVIOUS
<1>8. \A m \in DOMAIN new : Removes(new[m], p) => \E j \in 1 .. m - 1 : Handles(new[j], r, c, p)
  OBVIOUS
<1> HIDE DEF n, q, q2
<1>9. ASSUME NEW k \in DOMAIN q2, Removes(q2[k], p)
      PROVE  \E j \in 1 .. k - 1 : Handles(q2[j], r, c, p)
  <2>1. CASE k \in DOMAIN new
    <3>1. PICK j \in 1 .. k - 1 : Handles(new[j], r, c, p)
      BY <1>1, <1>8, <1>9, <2>1
    <3>2. q2[j] = new[j]
      BY <1>1, <2>1
    <3>3. QED
      BY <3>1, <3>2
  <2>2. CASE \E l \in DOMAIN q : l > 1 /\ k = l + n - 1
    <3>1. PICK l \in DOMAIN q : l > 1 /\ k = l + n - 1
      BY <2>2
    <3>2. PICK j \in 1 .. l - 1 : Handles(q[j], r, c, p)
      BY <1>1, <1>4, <1>9, <3>1
    <3>3. CASE j = 1
      <4>1. PICK m \in DOMAIN new : Handles(new[m], r, c, p)
        BY <1>1, <1>7, <3>2, <3>3
      <4>2. m \in 1 .. k - 1 /\ q2[m] = new[m]
        BY <1>1, <3>1, <4>1
      <4>3. QED
        BY <4>1, <4>2
    <3>4. CASE j > 1
      <4>1. j \in DOMAIN q /\ l \in Nat /\ j \in Nat /\ j < l
        BY <1>1, <3>1, <3>2
      <4>2. q2[j + n - 1] = q[j]
        BY <1>1, <3>4, <4>1
      <4>3. j + n - 1 \in 1 .. k - 1
        BY <1>1, <3>1, <3>4, <4>1
      <4>4. QED
        BY <3>2, <4>2, <4>3
    <3>5. QED
      BY <3>2, <3>3, <3>4
  <2>3. QED
    BY <1>1, <2>1, <2>2
<1>10. QED
  BY <1>6, <1>9

-----------------------------------------------------------------------------
(* A record that a thread may have seen otherwise is known to be new.      *)

(* Nothing is changed in a drawer.                                          *)
LEMMA KnownQuiet ==
  ASSUME TypeInv, FreshInv, UNCHANGED <<store, raced, fresh>>,
         NEW t \in Threads, Running(t), Quiet(t)',
         \A u \in Threads : u # t => todo'[u] = todo[u] /\ outcome'[u] = outcome[u]
  PROVE  FreshInv'
<1>1. \A u \in Threads : Pending(u)' \subseteq Pending(u)
  <2>1. Pending(t)' = {}
    BY DEF Quiet, Pending
  <2>2. \A u \in Threads : u # t => Pending(u)' = Pending(u)
    BY OtherThread
  <2>3. QED
    BY <2>1, <2>2
<1>2. \A u \in Threads : PendingOfOthers(u)' \subseteq PendingOfOthers(u)
  BY <1>1 DEF PendingOfOthers
<1>3. \A u \in Threads : outcome'[u] # "idle" => outcome[u] # "idle"
  BY DEF Running
<1>4. QED
  BY <1>2, <1>3 DEF FreshInv, Known, Exists

(* Thread t changes the records ps in their drawers.                        *)
LEMMA KnownTouch ==
  ASSUME TypeInv, FreshInv, NEW t \in Threads, Running(t),
         NEW ps \in SUBSET Pointers, NEW stored \in BOOLEAN, Touch(t, ps, stored),
         \A u \in Threads : u # t => todo'[u] = todo[u] /\ outcome'[u] = outcome[u],
         \A c \in Pointers \ ps : Exists(store', c) => store'[c] = store[c],
         \A c \in Pointers : Exists(store', c) /\ c \in Pending(t)' => c \in ps /\ stored
  PROVE  FreshInv'
<1> SUFFICES ASSUME NEW u \in Threads, outcome'[u] # "idle", NEW c \in Pointers, Exists(store', c),
                    c \in raced' \cup PendingOfOthers(u)'
             PROVE  c \in fresh'[u]
  BY DEF FreshInv, Known
<1> DEFINE contested == ps \cap PendingOfOthers(t)
<1>1. /\ raced' = (raced \ ps) \cup contested
      /\ fresh'[u] = fresh[u] \cup contested \cup (IF stored /\ u # t THEN ps ELSE {})
  BY DEF Touch
<1> HIDE DEF contested
<1>2. outcome[u] # "idle"
  BY DEF Running
<1>3. c \notin ps => (Exists(store, c) /\ (c \in raced \/ c \in PendingOfOthers(u) => c \in fresh[u]))
  BY <1>2 DEF Exists, FreshInv, Known
<1>4. CASE c \in raced'
  BY <1>1, <1>3, <1>4
<1>5. ASSUME NEW v \in Threads, v # u, c \in Pending(v)'
      PROVE  c \in fresh'[u]
  <2>1. CASE v = t
    BY <1>1, <1>5, <2>1
  <2>2. CASE v # t
    <3>1. c \in Pending(v)
      BY <1>5, <2>2, OtherThread
    <3>2. c \in PendingOfOthers(u) /\ c \in PendingOfOthers(t)
      BY <1>5, <2>2, <3>1 DEF PendingOfOthers
    <3>3. QED
      BY <1>1, <1>3, <3>2 DEF contested
  <2>3. QED
    BY <2>1, <2>2
<1>6. CASE c \in PendingOfOthers(u)'
  <2>1. PICK v \in Threads \ {u} : c \in Pending(v)'
    BY <1>6 DEF PendingOfOthers
  <2>2. QED
    BY <1>5, <2>1
<1>7. QED
  BY <1>4, <1>6

LEMMA KnownErase ==
  ASSUME TypeInv, StackInv, FreshInv, NEW t \in Threads, Running(t),
         NEW ps \in SUBSET Pointers, Erase(t, ps), Current(t).op \in {"remove", "removeSet"},
         \A u \in Threads : u # t => todo'[u] = todo[u] /\ outcome'[u] = outcome[u]
  PROVE  FreshInv'
<1> DEFINE found == {p \in ps : Exists(store, p)}
<1>1. /\ store' = [p \in Pointers |-> IF p \in ps THEN Absent ELSE store[p]]
      /\ Touch(t, found, FALSE)
      /\ Continue(t, (IF found = {} THEN <<>> ELSE <<Unindex(ps)>>) \o Rest(t))
  BY DEF Erase
<1>2. \A c \in Pointers : Exists(store', c) => c \notin ps /\ store'[c] = store[c]
  BY <1>1 DEF Exists
<1>3. Pending(t)' \subseteq ps
  <2>1. CASE found # {}
    <3>1. Continue(t, <<Unindex(ps)>> \o Rest(t))
      BY <1>1, <2>1
    <3>2. Unindex(ps) \in Item /\ Unindex(ps).op = "unindex" /\ Unindex(ps).ptrs = ps
      BY PointerSetItems DEF Unindex
    <3>3. Running(t)' /\ Current(t)' = Unindex(ps)
      BY <3>1, <3>2, NextSection
    <3>4. QED
      BY <3>2, <3>3 DEF Pending, At
  <2>2. CASE found = {}
    <3>1. Continue(t, Rest(t))
      BY <1>1, <2>2, CurrentIsItem
    <3>2. Quiet(t)'
      BY <3>1, QuietRest
    <3>3. QED
      BY <3>2 DEF Quiet, Pending
  <2>3. QED
    BY <2>1, <2>2
<1>4. found \in SUBSET Pointers
  OBVIOUS
<1> HIDE DEF found
<1>5. QED
  BY <1>1, <1>2, <1>3, <1>4, KnownTouch

LEMMA KnownStep ==
  ASSUME TypeInv, StackInv, FreshInv, NEW t \in Threads, Step(t)
  PROVE  FreshInv'
<1> DEFINE i == Current(t)
<1>1. Running(t) /\ i \in Item
  BY StepShape, CurrentIsItem
<1>2. \A u \in Threads : u # t => todo'[u] = todo[u] /\ outcome'[u] = outcome[u]
  BY OthersAfter
<1>3. i.op \notin {"store", "remove", "removeSet"} => Quiet(t)'
  BY QuietAfter
<1>4. CASE UNCHANGED <<store, raced, fresh>> /\ i.op \notin {"store", "remove", "removeSet"}
  BY <1>1, <1>2, <1>3, <1>4, KnownQuiet
<1>5. CASE DoIndex(t) \/ DoAttach(t) \/ DoVisit(t) \/ DoFilter(t) \/ DoEffects(t) \/ DoLeave(t)
             \/ DoLookup(t) \/ DoUnindex(t)
  <2>1. UNCHANGED <<store, raced, fresh>> /\ i.op \notin {"store", "remove", "removeSet"}
    BY <1>5 DEF DoIndex, DoAttach, DoVisit, DoFilter, DoEffects, DoLeave, DoLookup, DoUnindex,
                At, Untouched
  <2>2. QED
    BY <1>4, <2>1
<1>6. CASE DoFetch(t)
  <2>1. UNCHANGED <<store, raced, fresh>> /\ i.op = "fetch"
    BY <1>6 DEF DoFetch, At, Untouched, Refuse
  <2>2. QED
    BY <1>4, <2>1
<1>7. CASE DoRemove(t)
  <2>1. i.op = "remove" /\ {i.ptr} \in SUBSET Pointers /\ Erase(t, {i.ptr})
    BY <1>1, <1>7, ItemParts DEF DoRemove, At
  <2>2. QED
    BY <1>1, <1>2, <2>1, KnownErase
<1>8. CASE DoRemoveSet(t)
  <2>1. i.op = "removeSet" /\ i.ptrs \in SUBSET Pointers /\ Erase(t, i.ptrs)
    BY <1>1, <1>8, ItemParts DEF DoRemoveSet, At
  <2>2. QED
    BY <1>1, <1>2, <2>1, KnownErase
<1>9. CASE DoStore(t)
  <2>1. i.op = "store" /\ Batch(i.recs)
    BY <1>1, <1>9, ItemParts DEF DoStore, At, Batch
  <2>2. CASE Refuse(t)
    <3>1. Quiet(t)' /\ UNCHANGED <<store, raced, fresh>>
      BY <2>2, RefusedTodo DEF Refuse, Untouched, Quiet, At, Running
    <3>2. QED
      BY <1>1, <1>2, <3>1, KnownQuiet
  <2>3. CASE /\ store' = [p \in Pointers |-> IF p \in DOMAIN i.recs THEN i.recs[p] ELSE store[p]]
             /\ Touch(t, DOMAIN i.recs, TRUE)
             /\ Continue(t, <<IndexRecords(i.recs)>> \o Rest(t))
    <3> DEFINE recs == i.recs
    <3>1. /\ IndexRecords(recs) \in Item
          /\ IndexRecords(recs).op = "index" /\ IndexRecords(recs).recs = recs
      BY <2>1, BatchItems DEF IndexRecords
    <3>2. Running(t)' /\ Current(t)' = IndexRecords(recs)
      BY <1>1, <2>3, <3>1, NextSection
    <3>3. Pending(t)' = DOMAIN recs
      BY <3>1, <3>2 DEF Pending, At
    <3>4. /\ \A c \in Pointers \ DOMAIN recs : store'[c] = store[c]
          /\ DOMAIN recs \in SUBSET Pointers
      BY <2>1, <2>3 DEF Batch
    <3>5. Touch(t, DOMAIN recs, TRUE)
      BY <2>3
    <3> HIDE DEF recs
    <3>6. QED
      BY <1>1, <1>2, <3>3, <3>4, <3>5, KnownTouch
  <2>4. QED
    BY <1>9, <2>2, <2>3 DEF DoStore
<1>10. QED
  BY <1>5, <1>6, <1>7, <1>8, <1>9 DEF Step

LEMMA KnownBegin ==
  ASSUME TypeInv, FreshInv, NEW t \in Threads, NEW program, BeginsWith(t, program)
  PROVE  FreshInv'
<1>1. /\ \A u \in Threads : u # t => todo'[u] = todo[u] /\ outcome'[u] = outcome[u]
      /\ todo'[t] = program /\ outcome'[t] = "running" /\ ~Running(t)
  BY BegunTodo
<1>2. /\ UNCHANGED <<store, raced>>
      /\ fresh' = [fresh EXCEPT ![t] = raced \cup PendingOfOthers(t)]
  BY DEF BeginsWith, Begin
<1>3. fresh'[t] = raced \cup PendingOfOthers(t) /\ \A u \in Threads : u # t => fresh'[u] = fresh[u]
  BY <1>2 DEF TypeInv, TypeOK
<1>4. Pending(t)' = {}
  <2>1. Current(t)' = program[1] /\ 1 \in DOMAIN program
    BY <1>1 DEF BeginsWith, Current
  <2>2. Current(t)'.op \in {"store", "attach", "visit", "filter"}
    BY <2>1 DEF BeginsWith
  <2>3. QED
    BY <2>2 DEF Pending, At
<1>5. \A u \in Threads : Pending(u)' \subseteq Pending(u)
  <2>1. \A u \in Threads : u # t => Pending(u)' = Pending(u)
    BY <1>1, OtherThread
  <2>2. QED
    BY <1>4, <2>1
<1>6. \A u \in Threads : PendingOfOthers(u)' \subseteq PendingOfOthers(u)
  BY <1>5 DEF PendingOfOthers
<1>7. ASSUME NEW u \in Threads, outcome'[u] # "idle", NEW c \in Pointers, Exists(store', c),
             c \in raced' \cup PendingOfOthers(u)'
      PROVE  c \in fresh'[u]
  <2>1. c \in raced \cup PendingOfOthers(u)
    BY <1>2, <1>6, <1>7
  <2>2. CASE u = t
    BY <1>3, <2>1, <2>2
  <2>3. CASE u # t
    <3>1. outcome[u] # "idle" /\ Exists(store, c)
      BY <1>1, <1>2, <1>7, <2>3
    <3>2. QED
      BY <1>3, <2>1, <2>3, <3>1 DEF FreshInv, Known
  <2>4. QED
    BY <2>2, <2>3
<1>8. QED
  BY <1>7 DEF FreshInv, Known

-----------------------------------------------------------------------------
(* What one thread does leaves the references that another has to deal     *)
(* with as they are, or makes them known to be new.                        *)

LEMMA OthersUntouched ==
  ASSUME TypeInv, NEW t \in Threads, Step(t), NEW u \in Threads, u # t
  PROVE  /\ gone'[u] = gone[u] /\ fresh[u] \subseteq fresh'[u]
         /\ \A c \in Pointers \ fresh'[u] : Exists(store', c) => store'[c] = store[c]
<1> DEFINE i == Current(t)
<1>1. Running(t) /\ i \in Item
  BY StepShape, CurrentIsItem
<1>2. CASE UNCHANGED <<store, gone, fresh>>
  BY <1>2
<1>3. CASE DoIndex(t) \/ DoAttach(t) \/ DoVisit(t) \/ DoFilter(t) \/ DoEffects(t) \/ DoLeave(t)
             \/ DoLookup(t) \/ DoUnindex(t)
  <2>1. UNCHANGED <<store, gone, fresh>>
    BY <1>3 DEF DoIndex, DoAttach, DoVisit, DoFilter, DoEffects, DoLeave, DoLookup, DoUnindex,
                Untouched
  <2>2. QED
    BY <1>2, <2>1
<1>4. CASE DoFetch(t)
  BY <1>2, <1>4 DEF DoFetch, Untouched, Refuse
<1>5. ASSUME NEW ps, Erase(t, ps)
      PROVE  /\ gone'[u] = gone[u] /\ fresh[u] \subseteq fresh'[u]
             /\ \A c \in Pointers \ fresh'[u] : Exists(store', c) => store'[c] = store[c]
  <2>1. /\ store' = [p \in Pointers |-> IF p \in ps THEN Absent ELSE store[p]]
        /\ \E found : gone' = [gone EXCEPT ![t] = @ \cup found] /\ Touch(t, found, FALSE)
    BY <1>5 DEF Erase
  <2>2. gone'[u] = gone[u]
    BY <2>1 DEF TypeInv, TypeOK
  <2>3. fresh[u] \subseteq fresh'[u]
    BY <2>1 DEF Touch
  <2>4. \A c \in Pointers : Exists(store', c) => store'[c] = store[c]
    BY <2>1 DEF Exists
  <2>5. QED
    BY <2>2, <2>3, <2>4
<1>6. CASE DoRemove(t) \/ DoRemoveSet(t)
  BY <1>5, <1>6 DEF DoRemove, DoRemoveSet
<1>7. CASE DoStore(t)
  <2>1. CASE Refuse(t)
    BY <1>2, <2>1 DEF Refuse, Untouched
  <2>2. CASE /\ store' = [p \in Pointers |-> IF p \in DOMAIN i.recs THEN i.recs[p] ELSE store[p]]
             /\ Touch(t, DOMAIN i.recs, TRUE) /\ UNCHANGED gone
    <3>1. fresh[u] \subseteq fresh'[u] /\ DOMAIN i.recs \subseteq fresh'[u]
      BY <2>2 DEF Touch
    <3>2. QED
      BY <2>2, <3>1
  <2>3. QED
    BY <1>7, <2>1, <2>2 DEF DoStore
<1>8. QED
  BY <1>3, <1>4, <1>6, <1>7 DEF Step

LEMMA CoverOthers ==
  ASSUME TypeInv, CoverInv, NEW t \in Threads, Step(t), NEW u \in Threads, u # t,
         outcome'[u] # "refused"
  PROVE  Cover(u)'
<1>1. todo'[u] = todo[u] /\ outcome'[u] = outcome[u]
  BY OthersAfter
<1>2. /\ gone'[u] = gone[u] /\ fresh[u] \subseteq fresh'[u]
      /\ \A c \in Pointers \ fresh'[u] : Exists(store', c) => store'[c] = store[c]
  BY OthersUntouched
<1>3. Cover(u)
  BY <1>1 DEF CoverInv
<1>4. \A c \in Pointers \ fresh'[u] : Copies(u, c)' \subseteq Copies(u, c)
  <2> SUFFICES ASSUME NEW c \in Pointers \ fresh'[u]
               PROVE  Copies(u, c)' \subseteq Copies(u, c)
    OBVIOUS
  <2>1. Written(u, c)' = Written(u, c)
    BY <1>1 DEF Written
  <2>2. Exists(store', c) => Exists(store, c) /\ store'[c] = store[c]
    BY <1>2 DEF Exists
  <2>3. QED
    BY <2>1, <2>2 DEF Copies
<1>5. \A c : Doomed(u, c) => Doomed(u, c)'
  BY <1>1 DEF Doomed
<1>6. QED
  BY <1>1, <1>2, <1>3, <1>4, <1>5 DEF Cover

-----------------------------------------------------------------------------
(* What each section of a delete leaves.                                   *)

Kept(t) == Fronted(t) /\ Later(t) /\ (outcome[t] # "refused" => Cover(t))

LEMMA RefusedKept ==
  ASSUME TypeInv, NEW t \in Threads, Refuse(t)
  PROVE  Kept(t)'
BY RefusedTodo DEF Kept, Fronted, Later

(* A section that changes no record and makes none ready to be written.    *)
LEMMA QuietSplice ==
  ASSUME TypeInv, NEW t \in Threads, Running(t), Fronted(t), Later(t), Cover(t),
         Current(t).op \notin {"store", "index", "remove", "removeSet"},
         UNCHANGED <<store, gone, fresh>>,
         NEW new \in Seq(Item), Continue(t, new \o Rest(t)),
         \A m \in DOMAIN new : new[m].op \notin {"store", "attach"},
         \A m \in DOMAIN new : \A p \in Awaits(new[m]) :
           \/ p \in Awaits(Current(t))
           \/ \E l \in DOMAIN new : l > m /\ Removes(new[l], p),
         \A r \in Rules, p \in Pointers, c \in Pointers \ fresh[t] :
           Exists(store, c) /\ Refers(store[c], r, c, p) =>
             /\ Handles(Current(t), r, c, p) =>
                  Doomed(t, c)' \/ \E j \in DOMAIN new : Handles(new[j], r, c, p)
             /\ \A m \in DOMAIN new : Removes(new[m], p) =>
                  Doomed(t, c)' \/ \E j \in 1 .. m - 1 : Handles(new[j], r, c, p)
  PROVE  Kept(t)'
<1>1. Fronted(t)'
  BY FrontedSplice
<1>2. Later(t)'
  BY LaterSplice
<1>3. \A k \in DOMAIN todo[t] : todo[t][k].op # "store"
  BY NoStores
<1>4. \A c : Written(t, c)' = {}
  <2>1. \A c : Written(t, c) = {}
    BY <1>3 DEF Written
  <2>2. \A c : Written(t, c)' \subseteq Written(t, c) \cup
           {new[m].recs[c] : m \in {l \in DOMAIN new : new[l].op = "store" /\ c \in DOMAIN new[l].recs}}
    BY WrittenSplice
  <2>3. QED
    BY <2>1, <2>2
<1>5. ASSUME NEW c \in Pointers \ fresh'[t], NEW rec \in Copies(t, c)'
      PROVE  Exists(store, c) /\ rec = store[c] /\ rec \in Copies(t, c)
  BY <1>4, <1>5 DEF Copies, Exists
<1>6. \A c : ~Removes(Current(t), c)
  BY DEF Removes
<1>7. Cover(t)'
  <2>1. ASSUME NEW r \in Rules, NEW p \in Pointers, NEW c \in Pointers \ fresh'[t],
               NEW rec \in Copies(t, c)', Refers(rec, r, c, p)
        PROVE  /\ \E old \in Copies(t, c) : Refers(old, r, c, p)
               /\ ~Removes(Current(t), c)
               /\ Handles(Current(t), r, c, p) =>
                    Doomed(t, c)' \/ \E j \in DOMAIN new : Handles(new[j], r, c, p)
               /\ \A m \in DOMAIN new : Removes(new[m], p) =>
                    Doomed(t, c)' \/ \E j \in 1 .. m - 1 : Handles(new[j], r, c, p)
    <3>1. Exists(store, c) /\ Refers(store[c], r, c, p) /\ store[c] \in Copies(t, c)
      BY <1>5, <2>1
    <3>2. c \in Pointers \ fresh[t]
      OBVIOUS
    <3>3. QED
      BY <1>6, <3>1, <3>2
  <2>2. fresh[t] \subseteq fresh'[t] /\ \A p \in gone'[t] : p \in gone[t]
    OBVIOUS
  <2>3. QED
    BY <2>1, <2>2, CoverSplice
<1>8. QED
  BY <1>1, <1>2, <1>7 DEF Kept

(* A section that asks for nothing.                                        *)
LEMMA QuietRestKept ==
  ASSUME TypeInv, NEW t \in Threads, Running(t), Fronted(t), Later(t), Cover(t),
         Current(t).op \notin {"store", "index", "remove", "removeSet"},
         UNCHANGED <<store, gone, fresh>>, Continue(t, Rest(t)),
         \A r \in Rules, p \in Pointers, c \in Pointers \ fresh[t] :
           Exists(store, c) /\ Refers(store[c], r, c, p) /\ Handles(Current(t), r, c, p) => Doomed(t, c)
  PROVE  Kept(t)'
<1> DEFINE new == <<>>
<1>1. new \in Seq(Item) /\ DOMAIN new = {} /\ new \o Rest(t) = Rest(t)
  BY CurrentIsItem
<1>2. Continue(t, new \o Rest(t))
  BY <1>1
<1> HIDE DEF new
<1>3. \A c : Doomed(t, c) => Doomed(t, c)'
  <2>1. \A c : Doomed(t, c) => Removes(Current(t), c) \/ Doomed(t, c)'
    BY <1>1, <1>2, DoomedSplice
  <2>2. QED
    BY <2>1 DEF Removes
<1>4. QED
  BY <1>1, <1>2, <1>3, QuietSplice

(* The effects of the delete of p and the section that closes them.        *)
Closed(new, p, skip, last) ==
  /\ new \in Seq(Item) /\ Len(new) \in Nat \ {0} /\ DOMAIN new = 1..Len(new)
  /\ new[Len(new)] = last
  /\ \A m \in DOMAIN new : m # Len(new) =>
       /\ new[m].op \in {"visit", "lookup"}
       /\ new[m].op = "lookup" => new[m].skip = skip
  /\ \A r \in Rules : r.of = DrawerOf[p] =>
       \E j \in 1 .. Len(new) - 1 : new[j] = Lookup(r, p, skip)
LEMMA EffectsLast ==
  ASSUME NEW p \in Pointers, NEW rec \in Record, NEW skip \in SUBSET Pointers, NEW last \in Item,
         NEW new, new = Effects(p, rec, skip) \o <<last>>
  PROVE  Closed(new, p, skip, last)
<1> DEFINE effects == Effects(p, rec, skip)
<1>1. /\ effects \in Seq(EffectOf(skip))
      /\ \A r \in Rules : r.of = DrawerOf[p] => Has(effects, Lookup(r, p, skip))
  BY EffectsComplete
<1>2. new = effects \o <<last>>
  OBVIOUS
<1> HIDE DEF effects
<1>3. effects \in Seq(Item) /\ \A j \in DOMAIN effects : effects[j] \in EffectOf(skip)
  BY <1>1 DEF EffectOf, VisitOrLookup
<1>4. /\ Len(effects) \in Nat /\ DOMAIN effects = 1..Len(effects)
      /\ new \in Seq(Item) /\ Len(new) = Len(effects) + 1 /\ DOMAIN new = 1..Len(new)
      /\ new[Len(new)] = last
      /\ \A j \in 1..Len(effects) : new[j] = effects[j]
  <2> DEFINE one == <<last>>
  <2>1. one \in Seq(Item) /\ Len(one) = 1 /\ one[1] = last
    OBVIOUS
  <2>2. new = effects \o one
    BY <1>2
  <2> HIDE DEF one
  <2>3. /\ new \in Seq(Item) /\ Len(effects) \in Nat /\ DOMAIN effects = 1..Len(effects)
        /\ Len(new) = Len(effects) + 1 /\ DOMAIN new = 1..(Len(effects) + 1)
        /\ \A j \in 1..Len(effects) : new[j] = effects[j]
        /\ \A j \in 1..1 : new[Len(effects) + j] = one[j]
    <3>1. /\ effects \o one \in Seq(Item) /\ Len(effects) \in Nat /\ DOMAIN effects = 1..Len(effects)
          /\ Len(effects \o one) = Len(effects) + Len(one)
          /\ DOMAIN (effects \o one) = 1..(Len(effects) + Len(one))
          /\ \A j \in 1..Len(effects) : (effects \o one)[j] = effects[j]
          /\ \A j \in 1..Len(one) : (effects \o one)[Len(effects) + j] = one[j]
      BY <1>3, <2>1, ItemConcat
    <3>2. QED
      BY <2>1, <2>2, <3>1
  <2>4. QED
    BY <2>1, <2>3
<1>5. \A m \in DOMAIN new : m # Len(new) =>
              /\ new[m].op \in {"visit", "lookup"}
              /\ new[m].op = "lookup" => new[m].skip = skip
  BY <1>3, <1>4 DEF EffectOf, VisitOrLookup
<1>6. \A r \in Rules : r.of = DrawerOf[p] => \E j \in 1 .. Len(new) - 1 : new[j] = Lookup(r, p, skip)
  <2> SUFFICES ASSUME NEW r \in Rules, r.of = DrawerOf[p]
               PROVE  \E j \in 1 .. Len(new) - 1 : new[j] = Lookup(r, p, skip)
    OBVIOUS
  <2>1. PICK j \in DOMAIN effects : effects[j] = Lookup(r, p, skip)
    BY <1>1 DEF Has
  <2>2. j \in 1 .. Len(new) - 1 /\ new[j] = Lookup(r, p, skip)
    BY <1>4, <2>1
  <2>3. QED
    BY <2>2
<1>7. QED
  BY <1>4, <1>5, <1>6 DEF Closed

(* A record that is being deleted will be removed.                         *)
LEMMA ActiveDoomed ==
  ASSUME NEW t \in Threads, Later(t), NEW q \in Active(t)
  PROVE  Doomed(t, q)
<1>1. PICK j \in Range(todo[t]) : j.op \in {"leave", "remove"} /\ q = j.ptr
  BY DEF Active
<1>2. PICK k \in DOMAIN todo[t] : todo[t][k] = j
  BY <1>1 DEF Range
<1>3. CASE j.op = "remove"
  BY <1>1, <1>2, <1>3 DEF Doomed, Removes
<1>4. CASE j.op = "leave"
  <2>1. q \in Awaits(todo[t][k])
    BY <1>1, <1>2, <1>4 DEF Awaits
  <2>2. QED
    BY <2>1 DEF Later, Doomed
<1>5. QED
  BY <1>1, <1>3, <1>4

(* A visit either finds the record doomed or gone, or brings every rule     *)
(* of its drawer before its removal.                                        *)
LEMMA VisitKept ==
  ASSUME TypeInv, NEW t \in Threads, Fronted(t), Later(t), Cover(t), DoVisit(t)
  PROVE  Kept(t)'
<1>0. PICK q : q = Current(t).ptr
  OBVIOUS
<1>1. Running(t) /\ Current(t).op = "visit" /\ q \in Pointers /\ UNCHANGED <<store, gone, fresh>>
  BY <1>0, CurrentIsItem, ItemParts DEF DoVisit, At, Untouched
<1>2. CASE q \in Active(t) \/ ~Exists(store, q)
  <2>1. Continue(t, Rest(t))
    BY <1>0, <1>2 DEF DoVisit
  <2>2. q \in Active(t) => Doomed(t, q)
    BY ActiveDoomed
  <2>3. \A r, c, p : Handles(Current(t), r, c, p) => c = q
    BY <1>0, <1>1 DEF Handles
  <2>4. QED
    BY <1>1, <1>2, <2>1, <2>2, <2>3, QuietRestKept
<1>3. CASE q \notin Active(t) /\ Exists(store, q)
  <2>0. PICK new : new = Effects(q, store[q], {}) \o <<RemoveOne(q)>>
    OBVIOUS
  <2> DEFINE last == RemoveOne(q)
  <2>1. Continue(t, Effects(q, store[q], {}) \o <<RemoveOne(q)>> \o Rest(t))
    BY <1>0, <1>3 DEF DoVisit
  <2>2. Continue(t, new \o Rest(t))
    BY <2>0, <2>1
  <2>3. store[q] \in Record /\ last \in Item /\ {} \in SUBSET Pointers
    BY <1>1, <1>3, ExistingRecord, PointerItems
  <2>4. last.op = "remove" /\ last.ptr = q
    BY DEF RemoveOne
  <2>12. new = Effects(q, store[q], {}) \o <<last>>
    BY <2>0
  <2> HIDE DEF last
  <2>5. /\ new \in Seq(Item) /\ Len(new) \in Nat \ {0} /\ DOMAIN new = 1..Len(new)
        /\ new[Len(new)] = last
        /\ \A m \in DOMAIN new : m # Len(new) =>
             /\ new[m].op \in {"visit", "lookup"}
             /\ new[m].op = "lookup" => new[m].skip = {}
        /\ \A r \in Rules : r.of = DrawerOf[q] => \E j \in 1 .. Len(new) - 1 : new[j] = Lookup(r, q, {})
    <3>1. Closed(new, q, {}, last)
      BY <1>1, <2>3, <2>12, EffectsLast
    <3>2. QED
      BY <3>1 DEF Closed
  <2>6. \A m \in DOMAIN new : new[m].op \notin {"store", "attach"} /\ Awaits(new[m]) = {}
    BY <2>4, <2>5 DEF Awaits
  <2>7. \A r, c, p : Handles(Current(t), r, c, p) => c = q
    BY <1>0, <1>1 DEF Handles
  <2>8. Doomed(t, q)'
    <3>1. Len(new) \in DOMAIN new /\ Removes(new[Len(new)], q)
      BY <2>4, <2>5 DEF Removes
    <3>2. \A m \in DOMAIN new : m \in DOMAIN todo'[t] /\ todo'[t][m] = new[m]
      BY <1>1, <2>2, <2>5, SplicedAt
    <3>3. QED
      BY <3>1, <3>2 DEF Doomed
  <2>9. \A r \in Rules : \A p, c : r.of = DrawerOf[p] => \A m \in DOMAIN new : Removes(new[m], p) =>
          \E j \in 1 .. m - 1 : Handles(new[j], r, c, p)
    <3> SUFFICES ASSUME NEW r \in Rules, NEW p, NEW c, r.of = DrawerOf[p],
                        NEW m \in DOMAIN new, Removes(new[m], p)
                 PROVE  \E j \in 1 .. m - 1 : Handles(new[j], r, c, p)
      OBVIOUS
    <3>1. m = Len(new) /\ p = q
      BY <2>4, <2>5 DEF Removes
    <3>2. PICK j \in 1 .. m - 1 : new[j] = Lookup(r, q, {})
      BY <2>5, <3>1
    <3>3. Handles(new[j], r, c, p)
      BY <3>1, <3>2 DEF Handles, Lookup
    <3>4. QED
      BY <3>3
  <2>10. \A r, c, p, rec : Refers(rec, r, c, p) => r.of = DrawerOf[p]
    BY DEF Refers
  <2>11. ASSUME NEW r \in Rules, NEW p \in Pointers, NEW c \in Pointers \ fresh[t],
                Exists(store, c), Refers(store[c], r, c, p)
         PROVE  /\ Handles(Current(t), r, c, p) =>
                     Doomed(t, c)' \/ \E j \in DOMAIN new : Handles(new[j], r, c, p)
                /\ \A m \in DOMAIN new : Removes(new[m], p) =>
                     Doomed(t, c)' \/ \E j \in 1 .. m - 1 : Handles(new[j], r, c, p)
    BY <2>7, <2>8, <2>9, <2>10, <2>11
  <2>13. Current(t).op \notin {"store", "index", "remove", "removeSet"}
    BY <1>1
  <2>14. QED
    BY <1>1, <2>2, <2>5, <2>6, <2>11, <2>13, QuietSplice
<1>4. QED
  BY <1>2, <1>3

(* The effects of every record come before the removal of all of them.      *)
LEMMA FilterKept ==
  ASSUME TypeInv, NEW t \in Threads, Fronted(t), Later(t), Cover(t), DoFilter(t)
  PROVE  Kept(t)'
<1>1. Running(t) /\ Current(t).op = "filter" /\ UNCHANGED <<store, gone, fresh>>
  BY DEF DoFilter, At, Untouched
<1>2. Current(t).op \notin {"store", "index", "remove", "removeSet"} /\ Awaits(Current(t)) = {}
      /\ \A r, c, p : ~Handles(Current(t), r, c, p)
  BY <1>1 DEF Awaits, Handles
<1>3. PICK found : found = {p \in Current(t).ptrs : Exists(store, p)}
  OBVIOUS
<1>4. found \in SUBSET Pointers
  BY <1>1, <1>3, CurrentIsItem, ItemParts
<1>5. PICK order : order = SetToSeq(found)
  OBVIOUS
<1>6. PICK effects : effects = [n \in DOMAIN order |-> ApplyEffects(order[n], store[order[n]], found)]
  OBVIOUS
<1>7. CASE found = {}
  <2>1. Continue(t, Rest(t))
    BY <1>3, <1>7 DEF DoFilter
  <2>2. QED
    BY <1>1, <1>2, <2>1, QuietRestKept
<1>8. CASE found # {}
  <2> DEFINE last == RemoveSet(found)
             one == <<last>>
  <2>1. PICK new : new = effects \o one
    OBVIOUS
  <2>2. Continue(t, effects \o <<RemoveSet(found)>> \o Rest(t))
    BY <1>3, <1>5, <1>6, <1>8 DEF DoFilter
  <2>3. Continue(t, new \o Rest(t))
    BY <2>1, <2>2
  <2>4. last \in Item /\ last.op = "removeSet" /\ last.ptrs = found
    BY <1>4, PointerSetItems DEF RemoveSet
  <2>5. one \in Seq(Item) /\ Len(one) = 1 /\ one[1] = last
    BY <2>4
  <2> HIDE DEF one, last
  <2>6. order \in [1..Cardinality(found) -> found] /\ Cardinality(found) \in Nat
    BY <1>4, <1>5, PointersFinite, SetToSeqType
  <2>7. \A p \in found : store[p] \in Record
    BY <1>3, <1>4, ExistingRecord
  <2>8. \A n \in DOMAIN order : /\ ApplyEffects(order[n], store[order[n]], found) \in Item
                                /\ ApplyEffects(order[n], store[order[n]], found).op = "effects"
                                /\ ApplyEffects(order[n], store[order[n]], found).ptr = order[n]
                                /\ ApplyEffects(order[n], store[order[n]], found).skip = found
    <3>1. \A n \in DOMAIN order : order[n] \in Pointers /\ store[order[n]] \in Record
      BY <1>4, <2>6, <2>7
    <3>2. QED
      BY <1>4, <3>1, EffectsItems DEF ApplyEffects
  <2>9. /\ effects \in Seq(Item) /\ DOMAIN effects = DOMAIN order
        /\ \A n \in DOMAIN effects : effects[n].op = "effects" /\ effects[n].ptr = order[n]
                                     /\ effects[n].skip = found
    BY <1>6, <2>6, <2>8
  <2>10. /\ effects \o one \in Seq(Item) /\ Len(effects) \in Nat /\ DOMAIN effects = 1..Len(effects)
         /\ DOMAIN (effects \o one) = 1..(Len(effects) + Len(one))
         /\ \A j \in 1..Len(effects) : (effects \o one)[j] = effects[j]
         /\ \A j \in 1..Len(one) : (effects \o one)[Len(effects) + j] = one[j]
    BY <2>5, <2>9, ItemConcat
  <2>11. /\ new \in Seq(Item) /\ DOMAIN new = 1..(Len(effects) + 1)
         /\ \A j \in 1..Len(effects) : new[j] = effects[j]
         /\ new[Len(effects) + 1] = last
    BY <2>1, <2>5, <2>10
  <2>12. /\ \A m \in DOMAIN new : m # Len(effects) + 1 =>
              /\ m \in DOMAIN effects
              /\ new[m].op = "effects" /\ new[m].ptr = order[m] /\ new[m].skip = found
         /\ Len(effects) + 1 \in DOMAIN new /\ \A m \in DOMAIN new : m <= Len(effects) + 1
    BY <2>9, <2>10, <2>11
  <2>13. \A m \in DOMAIN new : new[m].op \notin {"store", "attach"}
    BY <2>4, <2>11, <2>12
  <2>14. ASSUME NEW m \in DOMAIN new, NEW p \in Awaits(new[m])
         PROVE  \E l \in DOMAIN new : l > m /\ Removes(new[l], p)
    <3>1. m # Len(effects) + 1
      BY <2>4, <2>11, <2>14 DEF Awaits
    <3>2. p \in found
      BY <2>6, <2>9, <2>12, <2>14, <3>1 DEF Awaits
    <3>3. Removes(new[Len(effects) + 1], p)
      BY <2>4, <2>11, <3>2 DEF Removes
    <3>4. m < Len(effects) + 1
      BY <2>10, <2>11, <2>12, <3>1
    <3>5. QED
      BY <2>12, <3>3, <3>4
  <2>15. ASSUME NEW r \in Rules, NEW p \in Pointers, NEW c, NEW m \in DOMAIN new, Removes(new[m], p)
         PROVE  \E j \in 1 .. m - 1 : Handles(new[j], r, c, p)
    <3>1. m = Len(effects) + 1
      BY <2>12, <2>15 DEF Removes
    <3>2. p \in found
      BY <2>4, <2>11, <2>15, <3>1 DEF Removes
    <3>3. PICK j \in DOMAIN order : order[j] = p
      BY <1>4, <1>5, <3>2, PointersFinite, SetToSeqOnto
    <3>4. j \in 1 .. m - 1 /\ new[j] = effects[j]
      BY <2>9, <2>10, <2>11, <3>1, <3>3
    <3>5. Handles(new[j], r, c, p)
      BY <2>9, <3>3, <3>4 DEF Handles
    <3>6. QED
      BY <3>4, <3>5
  <2>16. QED
    BY <1>1, <1>2, <2>3, <2>11, <2>13, <2>14, <2>15, QuietSplice
<1>9. QED
  BY <1>7, <1>8

(* Effects look every rule up.                                              *)
LEMMA EffectsKept ==
  ASSUME TypeInv, NEW t \in Threads, Fronted(t), Later(t), Cover(t), DoEffects(t)
  PROVE  Kept(t)'
<1>0. PICK q, rec, skip : q = Current(t).ptr /\ rec = Current(t).rec /\ skip = Current(t).skip
  OBVIOUS
<1>1. /\ Running(t) /\ Current(t).op = "effects" /\ UNCHANGED <<store, gone, fresh>>
      /\ q \in Pointers /\ rec \in Record /\ skip \in SUBSET Pointers
  BY <1>0, CurrentIsItem, ItemParts DEF DoEffects, At, Untouched
<1>2. /\ Current(t).op \notin {"store", "index", "remove", "removeSet"}
      /\ Awaits(Current(t)) = skip \cup {q}
      /\ \A r, c, p : Handles(Current(t), r, c, p) => p = q
  BY <1>0, <1>1 DEF Awaits, Handles
<1> DEFINE last == Leave(q)
<1>3. PICK new : new = Effects(q, rec, skip) \o <<last>>
  OBVIOUS
<1>4. Continue(t, Effects(q, rec, skip) \o <<Leave(q)>> \o Rest(t))
  BY <1>0 DEF DoEffects
<1>5. Continue(t, new \o Rest(t))
  BY <1>3, <1>4
<1>6. last \in Item /\ last.op = "leave" /\ last.ptr = q
  BY <1>1, PointerItems DEF Leave
<1> HIDE DEF last
<1>7. Closed(new, q, skip, last)
  BY <1>1, <1>3, <1>6, EffectsLast
<1>8. /\ new \in Seq(Item) /\ DOMAIN new = 1..Len(new) /\ Len(new) \in Nat
      /\ \A m \in DOMAIN new : \/ new[m].op = "visit"
                               \/ new[m].op = "lookup" /\ new[m].skip = skip
                               \/ new[m].op = "leave" /\ new[m].ptr = q
      /\ \A r \in Rules : r.of = DrawerOf[q] => \E j \in 1 .. Len(new) - 1 : new[j] = Lookup(r, q, skip)
  BY <1>6, <1>7 DEF Closed
<1>9. \A m \in DOMAIN new : new[m].op \notin {"store", "attach"} /\ Awaits(new[m]) \subseteq skip \cup {q}
  BY <1>8 DEF Awaits
<1>10. ASSUME NEW r \in Rules, NEW c, r.of = DrawerOf[q]
       PROVE  \E j \in DOMAIN new : Handles(new[j], r, c, q)
  <2>1. PICK j \in 1 .. Len(new) - 1 : new[j] = Lookup(r, q, skip)
    BY <1>8, <1>10
  <2>2. j \in DOMAIN new /\ Handles(new[j], r, c, q)
    BY <1>8, <2>1 DEF Handles, Lookup
  <2>3. QED
    BY <2>2
<1>11. \A m \in DOMAIN new : \A p : ~Removes(new[m], p)
  BY <1>8 DEF Removes
<1>12. \A r, c, p, old : Refers(old, r, c, p) => r.of = DrawerOf[p]
  BY DEF Refers
<1>13. ASSUME NEW r \in Rules, NEW p \in Pointers, NEW c \in Pointers \ fresh[t],
              Exists(store, c), Refers(store[c], r, c, p)
       PROVE  /\ Handles(Current(t), r, c, p) =>
                   Doomed(t, c)' \/ \E j \in DOMAIN new : Handles(new[j], r, c, p)
              /\ \A m \in DOMAIN new : Removes(new[m], p) =>
                   Doomed(t, c)' \/ \E j \in 1 .. m - 1 : Handles(new[j], r, c, p)
  BY <1>2, <1>10, <1>11, <1>12, <1>13
<1>14. QED
  BY <1>1, <1>2, <1>5, <1>8, <1>9, <1>13, QuietSplice

LEMMA LeaveKept ==
  ASSUME TypeInv, NEW t \in Threads, Fronted(t), Later(t), Cover(t), DoLeave(t) \/ DoUnindex(t)
  PROVE  Kept(t)'
<1>1. /\ Running(t) /\ Current(t).op \in {"leave", "unindex"} /\ UNCHANGED <<store, gone, fresh>>
      /\ Continue(t, Rest(t))
  BY DEF DoLeave, DoUnindex, At, Untouched
<1>2. \A r, c, p : ~Handles(Current(t), r, c, p)
  BY <1>1 DEF Handles
<1>3. QED
  BY <1>1, <1>2, QuietRestKept

(* The index leads from a parent to every record that refers to it and is  *)
(* not known to be new.                                                    *)
LEMMA IndexLeads ==
  ASSUME TypeInv, IndexExact, NEW t \in Threads, Known(t), Quiet(t),
         NEW r \in Rules, NEW p \in Pointers, NEW c \in Pointers \ fresh[t],
         Exists(store, c), Refers(store[c], r, c, p)
  PROVE  \E e \in refs : e.parent = p /\ e.child = c /\ e.field = r.field
<1>1. c \notin raced /\ c \notin PendingOfOthers(t)
  BY DEF Known
<1>2. Pending(t) = {}
  BY QuietPending
<1>3. \A u \in Threads : c \notin Pending(u)
  BY <1>1, <1>2 DEF PendingOfOthers
<1>4. {e \in refs : e.child = c} = Entries(c, store[c])
  BY <1>1, <1>3, SettledExact DEF Settled, Exact
<1>5. store[c] \in Record /\ r.field \in Fields
  BY ExistingRecord, RulesAssumption DEF Rule
<1>6. p \in store[c][r.field] /\ Tracked(DrawerOf[c], r.field)
  BY DEF Refers
<1> DEFINE e == [parent |-> p, child |-> c, field |-> r.field]
<1>7. p \in UNION Range(store[c])
  BY <1>5, <1>6 DEF Range, Record
<1>8. e \in Entries(c, store[c])
  BY <1>5, <1>6, <1>7 DEF Entries
<1>9. e.parent = p /\ e.child = c /\ e.field = r.field
  OBVIOUS
<1> HIDE DEF e
<1>10. QED
  BY <1>4, <1>8, <1>9

(* A lookup hands every record that refers to the parent to the fetch.      *)
LEMMA LookupKept ==
  ASSUME TypeInv, IndexExact, NEW t \in Threads, Known(t), Fronted(t), Later(t), Cover(t), DoLookup(t)
  PROVE  Kept(t)'
<1>0. PICK q, s, skip : q = Current(t).ptr /\ s = Current(t).rule /\ skip = Current(t).skip
  OBVIOUS
<1>1. /\ Running(t) /\ Current(t).op = "lookup" /\ UNCHANGED <<store, gone, fresh>>
      /\ q \in Pointers /\ s \in Rules /\ skip \in SUBSET Pointers
  BY <1>0, CurrentIsItem, ItemParts DEF DoLookup, At, Untouched
<1>2. /\ Current(t).op \notin {"store", "index", "remove", "removeSet"}
      /\ Awaits(Current(t)) = skip
      /\ \A r, c, p : Handles(Current(t), r, c, p) => p = q /\ r = s
  BY <1>0, <1>1 DEF Awaits, Handles
<1>3. PICK ids : ids = {e.child : e \in {e \in refs : /\ e.parent = q
                                                     /\ DrawerOf[e.child] = s.target
                                                     /\ e.field = s.field}}
  OBVIOUS
<1>4. ids \in SUBSET Pointers
  BY <1>3 DEF TypeInv, TypeOK, Entry
<1>5. Quiet(t)
  BY <1>1 DEF Quiet, At
<1>6. ASSUME NEW c \in Pointers \ fresh[t], Exists(store, c), Refers(store[c], s, c, q)
      PROVE  c \in ids
  <2>1. PICK e \in refs : e.parent = q /\ e.child = c /\ e.field = s.field
    BY <1>1, <1>5, <1>6, IndexLeads
  <2>2. DrawerOf[e.child] = s.target
    BY <1>6, <2>1 DEF Refers
  <2>3. QED
    BY <1>3, <2>1, <2>2
<1>7. CASE ids = {}
  <2>1. Continue(t, Rest(t))
    BY <1>0, <1>3, <1>7 DEF DoLookup
  <2>2. ASSUME NEW r \in Rules, NEW p \in Pointers, NEW c \in Pointers \ fresh[t],
               Exists(store, c), Refers(store[c], r, c, p), Handles(Current(t), r, c, p)
        PROVE  Doomed(t, c)
    BY <1>2, <1>6, <1>7, <2>2
  <2>3. QED
    BY <1>1, <1>2, <2>1, <2>2, QuietRestKept
<1>8. CASE ids # {}
  <2> DEFINE next == Fetch(s, q, skip, ids)
  <2>1. PICK new : new = <<next>>
    OBVIOUS
  <2>2. Continue(t, new \o Rest(t))
    BY <1>0, <1>3, <1>8, <2>1 DEF DoLookup
  <2>3. /\ next \in Item /\ next.op = "fetch" /\ next.ptr = q /\ next.rule = s
        /\ next.skip = skip /\ next.ids = ids
    BY <1>1, <1>4, RuleItems DEF Fetch
  <2> HIDE DEF next
  <2>4. new \in Seq(Item) /\ DOMAIN new = {1} /\ new[1] = next
    BY <2>1, <2>3
  <2>5. \A m \in DOMAIN new : /\ new[m].op \notin {"store", "attach"} /\ Awaits(new[m]) = skip
                              /\ \A p : ~Removes(new[m], p)
    BY <2>3, <2>4 DEF Awaits, Removes
  <2>6. ASSUME NEW r \in Rules, NEW p \in Pointers, NEW c \in Pointers \ fresh[t],
               Exists(store, c), Refers(store[c], r, c, p), Handles(Current(t), r, c, p)
        PROVE  \E j \in DOMAIN new : Handles(new[j], r, c, p)
    <3>1. p = q /\ r = s /\ c \in ids
      BY <1>2, <1>6, <2>6
    <3>2. Handles(new[1], r, c, p)
      BY <2>3, <2>4, <3>1 DEF Handles
    <3>3. QED
      BY <2>4, <3>2
  <2>7. QED
    BY <1>1, <1>2, <2>2, <2>4, <2>5, <2>6, QuietSplice
<1>9. QED
  BY <1>7, <1>8

(* A set-null write takes every reference away that it is made for.        *)
NullsClear == \A r \in Rules : r.action = "SetNull" => r.field \notin Maps

(* A record made ready to be written with one reference less.              *)
LEMMA ClearedRecord ==
  ASSUME NEW rec \in Record, NEW f \in Fields, f \notin Maps, NEW q
  PROVE  /\ Cleared(rec, f, q) \in Record
         /\ q \notin Cleared(rec, f, q)[f]
         /\ \A g \in Fields : Cleared(rec, f, q)[g] \subseteq rec[g]
BY DEF Cleared, Record

(* A fetch refuses, visits or writes every record it is handed that still   *)
(* refers to the parent.                                                    *)
LEMMA FetchKept ==
  ASSUME NullsClear, TypeInv, NEW t \in Threads, Fronted(t), Later(t), Cover(t), DoFetch(t)
  PROVE  Kept(t)'
<1>0. PICK q, s, skip : q = Current(t).ptr /\ s = Current(t).rule /\ skip = Current(t).skip
  OBVIOUS
<1>1. /\ Running(t) /\ Current(t).op = "fetch"
      /\ q \in Pointers /\ s \in Rules /\ skip \in SUBSET Pointers
      /\ Current(t).ids \subseteq Pointers
  BY <1>0, CurrentIsItem, ItemParts DEF DoFetch, At
<1>2. /\ Current(t).op \notin {"store", "index", "remove", "removeSet"}
      /\ Awaits(Current(t)) = skip
      /\ \A r, c, p : Handles(Current(t), r, c, p) => p = q /\ r = s /\ c \in Current(t).ids
  BY <1>0, <1>1 DEF Awaits, Handles
<1>3. PICK found : found = {c \in Current(t).ids : Exists(store, c) /\ q \in store[c][s.field]}
  OBVIOUS
<1>4. found \in SUBSET Pointers /\ s.field \in Fields
  BY <1>1, <1>3, RulesAssumption DEF Rule
<1>5. ASSUME NEW r, NEW p, NEW c,
             Exists(store, c), Refers(store[c], r, c, p), Handles(Current(t), r, c, p)
      PROVE  p = q /\ r = s /\ c \in found
  BY <1>2, <1>3, <1>5 DEF Refers
<1>6. CASE Refuse(t)
  BY <1>6, RefusedKept
<1>7. CASE found = {} /\ Continue(t, Rest(t)) /\ Untouched
  <2>1. UNCHANGED <<store, gone, fresh>>
    BY <1>7 DEF Untouched
  <2>2. ASSUME NEW r \in Rules, NEW p \in Pointers, NEW c \in Pointers \ fresh[t],
               Exists(store, c), Refers(store[c], r, c, p), Handles(Current(t), r, c, p)
        PROVE  Doomed(t, c)
    BY <1>5, <1>7, <2>2
  <2>3. QED
    BY <1>1, <1>2, <1>7, <2>1, <2>2, QuietRestKept
<1>8. CASE Continue(t, VisitAll(found \ skip) \o Rest(t)) /\ Untouched
  <2>1. PICK new : new = VisitAll(found \ skip)
    OBVIOUS
  <2>2. /\ new \in Seq(Item) /\ \A m \in DOMAIN new : new[m].op = "visit"
        /\ \A c \in found \ skip : Has(new, Visit(c))
    <3>1. VisitAll(found \ skip) \in Seq(VisitOrLookup)
      BY <1>4, VisitsType
    <3>2. VisitAll(found \ skip) \in Seq(Item)
      BY <3>1 DEF VisitOrLookup
    <3>3. found \ skip \in SUBSET Pointers
      BY <1>4
    <3>4. QED
      BY <2>1, <3>2, <3>3, VisitsAll
  <2>3. Continue(t, new \o Rest(t)) /\ UNCHANGED <<store, gone, fresh>>
    BY <1>8, <2>1 DEF Untouched
  <2>4. \A m \in DOMAIN new : /\ new[m].op \notin {"store", "attach"} /\ Awaits(new[m]) = {}
                              /\ \A p : ~Removes(new[m], p)
    BY <2>2 DEF Awaits, Removes
  <2>5. \A c \in skip : Doomed(t, c)'
    <3> SUFFICES ASSUME NEW c \in skip
                 PROVE  Doomed(t, c)'
      OBVIOUS
    <3>1. 1 \in DOMAIN todo[t] /\ todo[t][1] = Current(t)
      BY <1>1, CurrentIsItem
    <3>2. Doomed(t, c)
      BY <1>2, <3>1 DEF Later, Doomed
    <3>3. ~Removes(Current(t), c)
      BY <1>1 DEF Removes
    <3>4. QED
      BY <1>1, <2>2, <2>3, <3>2, <3>3, DoomedSplice
  <2>6. ASSUME NEW r \in Rules, NEW p \in Pointers, NEW c \in Pointers \ fresh[t],
               Exists(store, c), Refers(store[c], r, c, p), Handles(Current(t), r, c, p)
        PROVE  Doomed(t, c)' \/ \E j \in DOMAIN new : Handles(new[j], r, c, p)
    <3>1. c \in found
      BY <1>5, <2>6
    <3>2. CASE c \in skip
      BY <2>5, <3>2
    <3>3. CASE c \notin skip
      <4>1. PICK j \in DOMAIN new : new[j] = Visit(c)
        BY <2>2, <3>1, <3>3 DEF Has
      <4>2. Handles(new[j], r, c, p)
        BY <4>1 DEF Handles, Visit
      <4>3. QED
        BY <4>2
    <3>4. QED
      BY <3>2, <3>3
  <2>7. QED
    BY <1>1, <1>2, <2>2, <2>3, <2>4, <2>6, QuietSplice
<1>9. ASSUME s.action = "SetNull", NEW order, order = SetToSeq(found), NEW new,
             new = [k \in DOMAIN order |->
                      StoreRecords(OneRecord(order[k], Cleared(store[order[k]], s.field, q)))],
             Continue(t, new \o Rest(t)), Untouched
      PROVE  Kept(t)'
  <2>1. s.field \notin Maps
    BY <1>1, <1>9 DEF NullsClear
  <2>2. /\ order \in [1..Cardinality(found) -> found] /\ Cardinality(found) \in Nat
        /\ \A c \in found : \E j \in DOMAIN order : order[j] = c
        /\ \A i, j \in DOMAIN order : order[i] = order[j] => i = j
    BY <1>4, <1>9, PointersFinite, SetToSeqType, SetToSeqOnto
  <2>3. /\ DOMAIN new = DOMAIN order
        /\ \A k \in DOMAIN new : new[k].op = "store"
             /\ new[k].recs = OneRecord(order[k], Cleared(store[order[k]], s.field, q))
    BY <1>9 DEF StoreRecords
  <2>4. \A c \in found : store[c] \in Record
    BY <1>3, <1>4, ExistingRecord
  <2>5. new \in Seq(Item)
    <3>1. \A k \in DOMAIN order :
            StoreRecords(OneRecord(order[k], Cleared(store[order[k]], s.field, q))) \in Item
      <4> SUFFICES ASSUME NEW k \in DOMAIN order
                   PROVE  StoreRecords(OneRecord(order[k], Cleared(store[order[k]], s.field, q))) \in Item
        OBVIOUS
      <4>1. order[k] \in Pointers /\ store[order[k]] \in Record
        BY <1>4, <2>2, <2>4
      <4>2. Cleared(store[order[k]], s.field, q) \in Record
        BY <1>4, <2>1, <4>1, ClearedRecord
      <4>3. QED
        BY <4>1, <4>2, OneRecordBatch, BatchItems
    <3>2. QED
      BY <1>9, <2>2, <3>1
  <2>6. UNCHANGED <<store, gone, fresh>>
    BY <1>9 DEF Untouched
  <2>7. \A k \in DOMAIN new : DOMAIN new[k].recs = {order[k]}
    BY <2>3 DEF OneRecord
  <2>8. \A k \in DOMAIN new :
          /\ order[k] \in found
          /\ new[k].recs[order[k]] = Cleared(store[order[k]], s.field, q)
    <3> SUFFICES ASSUME NEW k \in DOMAIN new
                 PROVE  /\ order[k] \in found
                        /\ new[k].recs[order[k]] = Cleared(store[order[k]], s.field, q)
      OBVIOUS
    <3>1. order[k] \in found
      BY <2>2, <2>3
    <3>2. \A c, rec : OneRecord(c, rec)[c] = rec
      BY DEF OneRecord
    <3>3. QED
      BY <2>3, <3>1, <3>2
  <2>16. Continue(t, new \o Rest(t)) /\ Current(t).op \notin {"store", "index"}
    BY <1>2, <1>9
  <2>17. fresh[t] \subseteq fresh'[t] /\ \A p \in gone'[t] : p \in gone[t]
    BY <2>6
  <2>9. Fronted(t)'
    <3>1. DOMAIN new = 1..Len(new) /\ Len(new) \in Nat
      BY <2>5
    <3>2. \A m \in DOMAIN new : new[m].op # "attach"
      BY <2>3
    <3>3. \A m \in DOMAIN new : new[m].op = "store" => \A j \in 1 .. m - 1 :
            /\ new[j].op = "store"
            /\ DOMAIN new[j].recs \cap DOMAIN new[m].recs = {}
      <4> SUFFICES ASSUME NEW m \in DOMAIN new, NEW j \in 1 .. m - 1
                   PROVE  new[j].op = "store" /\ DOMAIN new[j].recs \cap DOMAIN new[m].recs = {}
        OBVIOUS
      <4>1. j \in DOMAIN new /\ j # m
        BY <3>1
      <4>2. order[j] # order[m]
        BY <2>2, <2>3, <4>1
      <4>3. QED
        BY <2>3, <2>7, <4>1, <4>2
    <3>4. QED
      BY <1>1, <2>5, <2>16, <3>2, <3>3, FrontedSplice
  <2>10. Later(t)'
    <3>1. \A m \in DOMAIN new : Awaits(new[m]) = {}
      BY <2>3 DEF Awaits
    <3>2. QED
      BY <1>1, <1>9, <2>5, <3>1, LaterSplice
  <2>11. ASSUME NEW c, NEW rec \in Copies(t, c)'
         PROVE  /\ Exists(store, c) /\ store[c] \in Copies(t, c)
                /\ \A r \in Rules : \A p : Refers(rec, r, c, p) => Refers(store[c], r, c, p)
    <3>1. Written(t, c) = {}
      <4>1. \A k \in DOMAIN todo[t] : todo[t][k].op # "store"
        BY <1>1, <1>2, NoStores
      <4>2. QED
        BY <4>1 DEF Written
    <3>2. Written(t, c)' \subseteq
            {new[m].recs[c] : m \in {l \in DOMAIN new : new[l].op = "store" /\ c \in DOMAIN new[l].recs}}
      BY <1>1, <1>9, <2>5, <3>1, WrittenSplice
    <3>3. CASE Exists(store, c) /\ rec = store[c]
      BY <3>3 DEF Copies
    <3>4. CASE rec \in Written(t, c)'
      <4>1. PICK m \in DOMAIN new : c \in DOMAIN new[m].recs /\ rec = new[m].recs[c]
        BY <3>2, <3>4
      <4>2. c = order[m] /\ c \in found /\ rec = Cleared(store[c], s.field, q)
        BY <2>7, <2>8, <4>1
      <4>3. Exists(store, c) /\ store[c] \in Record
        BY <1>3, <2>4, <4>2
      <4>4. \A g \in Fields : rec[g] \subseteq store[c][g]
        BY <1>4, <2>1, <4>2, <4>3, ClearedRecord
      <4>5. \A r \in Rules : r.field \in Fields
        BY RulesAssumption DEF Rule
      <4>6. QED
        BY <4>3, <4>4, <4>5 DEF Refers, Copies
    <3>5. QED
      BY <2>6, <2>11, <3>3, <3>4 DEF Copies, Exists
  <2>12. \A c \in found : \E j \in DOMAIN new : \A r : r = s => Handles(new[j], r, c, q)
    <3> SUFFICES ASSUME NEW c \in found
                 PROVE  \E j \in DOMAIN new : Handles(new[j], s, c, q)
      OBVIOUS
    <3>1. PICK j \in DOMAIN new : order[j] = c
      BY <2>2, <2>3
    <3>2. c \in DOMAIN new[j].recs /\ new[j].recs[c] = Cleared(store[c], s.field, q)
      BY <2>7, <2>8, <3>1
    <3>3. q \notin new[j].recs[c][s.field]
      BY <1>4, <2>1, <2>4, <3>2, ClearedRecord
    <3>4. Handles(new[j], s, c, q)
      BY <2>3, <3>2, <3>3 DEF Handles
    <3>5. QED
      BY <3>4
  <2>13. \A c, p : ~Removes(Current(t), c) /\ \A m \in DOMAIN new : ~Removes(new[m], p)
    BY <1>1, <2>3 DEF Removes
  <2>14. Cover(t)'
    <3>1. ASSUME NEW r \in Rules, NEW p \in Pointers, NEW c \in Pointers \ fresh'[t],
                 NEW rec \in Copies(t, c)', Refers(rec, r, c, p)
          PROVE  /\ \E old \in Copies(t, c) : Refers(old, r, c, p)
                 /\ ~Removes(Current(t), c)
                 /\ Handles(Current(t), r, c, p) =>
                      Doomed(t, c)' \/ \E j \in DOMAIN new : Handles(new[j], r, c, p)
                 /\ \A m \in DOMAIN new : Removes(new[m], p) =>
                      Doomed(t, c)' \/ \E j \in 1 .. m - 1 : Handles(new[j], r, c, p)
      <4>1. Exists(store, c) /\ store[c] \in Copies(t, c) /\ Refers(store[c], r, c, p)
        BY <2>11, <3>1
      <4>2. Handles(Current(t), r, c, p) => \E j \in DOMAIN new : Handles(new[j], r, c, p)
        BY <1>5, <2>12, <4>1
      <4>3. QED
        BY <2>13, <4>1, <4>2
    <3>2. QED
      BY <1>1, <2>5, <2>16, <2>17, <3>1, CoverSplice
  <2>15. QED
    BY <2>9, <2>10, <2>14 DEF Kept
<1>10. PICK order : order = SetToSeq(found)
  OBVIOUS
<1>11. PICK new : new = [k \in DOMAIN order |->
                           StoreRecords(OneRecord(order[k], Cleared(store[order[k]], s.field, q)))]
  OBVIOUS
<1>12. \/ s.action = "Restrict" /\ IF found = {} THEN Continue(t, Rest(t)) /\ Untouched ELSE Refuse(t)
       \/ Continue(t, VisitAll(found \ skip) \o Rest(t)) /\ Untouched
       \/ s.action = "SetNull" /\ Continue(t, new \o Rest(t)) /\ Untouched
  BY <1>0, <1>3, <1>10, <1>11 DEF DoFetch
<1>13. QED
  BY <1>6, <1>7, <1>8, <1>9, <1>10, <1>11, <1>12

(* Between two writes of one fetch the index is brought up to date.         *)
LEMMA IndexKept ==
  ASSUME TypeInv, NEW t \in Threads, Fronted(t), Later(t), Cover(t), DoIndex(t)
  PROVE  Kept(t)'
<1>1. /\ Running(t) /\ Current(t).op = "index" /\ UNCHANGED <<store, gone, fresh>>
      /\ Continue(t, Rest(t))
  BY DEF DoIndex, At
<1>2. PICK new : new = <<>>
  OBVIOUS
<1>3. new \in Seq(Item) /\ DOMAIN new = {} /\ new \o Rest(t) = Rest(t)
  BY <1>1, <1>2, CurrentIsItem
<1>4. Continue(t, new \o Rest(t))
  BY <1>1, <1>3
<1>5. Fronted(t)'
  BY <1>1, <1>3, <1>4, FrontedSplice
<1>6. Later(t)'
  BY <1>1, <1>3, <1>4, LaterSplice
<1>7. \A c, p, r : ~Removes(Current(t), c) /\ ~Handles(Current(t), r, c, p)
  BY <1>1 DEF Removes, Handles
<1>8. \A c : Copies(t, c)' \subseteq Copies(t, c)
  <2>1. \A c : Written(t, c)' \subseteq Written(t, c)
    BY <1>1, <1>3, <1>4, WrittenSplice
  <2>2. QED
    BY <1>1, <2>1 DEF Copies, Exists
<1>9. fresh[t] \subseteq fresh'[t] /\ \A p \in gone'[t] : p \in gone[t]
  BY <1>1
<1>10. Cover(t)'
  BY <1>1, <1>3, <1>4, <1>7, <1>8, <1>9, CoverSplice
<1>11. QED
  BY <1>5, <1>6, <1>10 DEF Kept

(* A set-null write replaces a record by the copy made of it.               *)
LEMMA StoreKept ==
  ASSUME TypeInv, NEW t \in Threads, Fronted(t), Later(t), Cover(t), DoStore(t)
  PROVE  Kept(t)'
<1>0. PICK recs : recs = Current(t).recs
  OBVIOUS
<1>1. Running(t) /\ Current(t).op = "store" /\ Batch(recs)
  BY <1>0, CurrentIsItem, ItemParts DEF DoStore, At, Batch
<1>2. CASE Refuse(t)
  BY <1>2, RefusedKept
<1>3. ASSUME store' = [p \in Pointers |-> IF p \in DOMAIN recs THEN recs[p] ELSE store[p]],
             Touch(t, DOMAIN recs, TRUE), NEW new, new = <<IndexRecords(recs)>>,
             Continue(t, new \o Rest(t)), UNCHANGED gone
      PROVE  Kept(t)'
  <2>1. new \in Seq(Item) /\ DOMAIN new = {1} /\ new[1].op = "index"
    BY <1>1, <1>3, BatchItems DEF IndexRecords
  <2>2. Continue(t, new \o Rest(t)) /\ fresh[t] \subseteq fresh'[t] /\ \A p \in gone'[t] : p \in gone[t]
    BY <1>3 DEF Touch
  <2>3. \A m \in DOMAIN new : new[m].op = "index" /\ Awaits(new[m]) = {} /\ \A p : ~Removes(new[m], p)
    BY <2>1 DEF Awaits, Removes
  <2>4. Fronted(t)'
    BY <1>1, <2>1, <2>2, <2>3, FrontedSplice
  <2>5. Later(t)'
    BY <1>1, <2>1, <2>2, <2>3, LaterSplice
  <2>6. todo[t][1] = Current(t) /\ 1 \in DOMAIN todo[t]
    BY <1>1, CurrentIsItem
  <2>7. \A c \in DOMAIN recs : recs[c] \in Written(t, c)
    BY <1>0, <1>1, <2>6 DEF Written
  <2>8. \A c : Written(t, c)' \subseteq Written(t, c)
    BY <1>1, <2>1, <2>2, <2>3, WrittenSplice
  <2>9. \A c \in DOMAIN recs : Written(t, c)' = {}
    <3> SUFFICES ASSUME NEW c \in DOMAIN recs, NEW k \in DOMAIN todo'[t],
                        todo'[t][k].op = "store", c \in DOMAIN todo'[t][k].recs
                 PROVE  FALSE
      BY DEF Written
    <3>1. k \notin DOMAIN new
      <4>1. \A m \in DOMAIN new : todo'[t][m] = new[m]
        BY <1>1, <2>1, <2>2, SplicedAt
      <4>2. QED
        BY <2>3, <4>1
    <3>2. PICK l \in DOMAIN todo[t] : l > 1 /\ todo'[t][k] = todo[t][l]
      <4>1. PICK l \in DOMAIN todo[t] : l > 1 /\ k = l + Len(new) - 1
        BY <1>1, <2>1, <2>2, <3>1, SplicedAt
      <4>2. todo'[t][l + Len(new) - 1] = todo[t][l]
        BY <1>1, <2>1, <2>2, <4>1, SplicedAt
      <4>3. QED
        BY <4>1, <4>2
    <3>3. 1 \in 1 .. l - 1
      BY <1>1, <3>2, CurrentIsItem
    <3>4. DOMAIN todo[t][1].recs \cap DOMAIN todo[t][l].recs = {}
      BY <1>1, <2>6, <3>2, <3>3 DEF Fronted
    <3>5. QED
      BY <1>0, <2>6, <3>2, <3>4
  <2>10. ASSUME NEW c \in Pointers, NEW rec \in Copies(t, c)'
         PROVE  rec \in Copies(t, c) /\ (c \in DOMAIN recs => rec = recs[c])
    <3>1. CASE c \in DOMAIN recs
      <4>1. store'[c] = recs[c]
        BY <1>3, <3>1
      <4>2. rec = recs[c]
        BY <2>9, <2>10, <3>1, <4>1 DEF Copies
      <4>3. QED
        BY <2>7, <3>1, <4>2 DEF Copies
    <3>2. CASE c \notin DOMAIN recs
      <4>1. store'[c] = store[c]
        BY <1>3, <3>2
      <4>2. QED
        BY <2>8, <2>10, <3>2, <4>1 DEF Copies, Exists
    <3>3. QED
      BY <3>1, <3>2
  <2>11. Cover(t)'
    <3>1. ASSUME NEW r \in Rules, NEW p \in Pointers, NEW c \in Pointers \ fresh'[t],
                 NEW rec \in Copies(t, c)', Refers(rec, r, c, p)
          PROVE  /\ \E old \in Copies(t, c) : Refers(old, r, c, p)
                 /\ ~Removes(Current(t), c)
                 /\ Handles(Current(t), r, c, p) =>
                      Doomed(t, c)' \/ \E j \in DOMAIN new : Handles(new[j], r, c, p)
                 /\ \A m \in DOMAIN new : Removes(new[m], p) =>
                      Doomed(t, c)' \/ \E j \in 1 .. m - 1 : Handles(new[j], r, c, p)
      <4>1. rec \in Copies(t, c) /\ (c \in DOMAIN recs => rec = recs[c])
        BY <2>10
      <4>2. ~Removes(Current(t), c)
        BY <1>1 DEF Removes
      <4>3. ~Handles(Current(t), r, c, p)
        BY <1>0, <1>1, <3>1, <4>1 DEF Handles, Refers
      <4>4. QED
        BY <2>3, <3>1, <4>1, <4>2, <4>3
    <3>2. QED
      BY <1>1, <2>1, <2>2, <3>1, CoverSplice
  <2>12. QED
    BY <2>4, <2>5, <2>11 DEF Kept
<1>4. PICK new : new = <<IndexRecords(recs)>>
  OBVIOUS
<1>5. QED
  BY <1>0, <1>2, <1>3, <1>4 DEF DoStore

(* A removal finds every reference to the removed record dealt with.        *)
LEMMA EraseKept ==
  ASSUME TypeInv, NEW t \in Threads, Running(t), Fronted(t), Later(t), Cover(t),
         NEW ps \in SUBSET Pointers, Erase(t, ps), Current(t).op \in {"remove", "removeSet"},
         \A p : Removes(Current(t), p) <=> p \in ps
  PROVE  Kept(t)'
<1>1. PICK found : found = {p \in ps : Exists(store, p)}
  OBVIOUS
<1>2. PICK new : new = IF found = {} THEN <<>> ELSE <<Unindex(ps)>>
  OBVIOUS
<1>3. /\ store' = [p \in Pointers |-> IF p \in ps THEN Absent ELSE store[p]]
      /\ gone' = [gone EXCEPT ![t] = @ \cup found]
      /\ Touch(t, found, FALSE)
      /\ Continue(t, new \o Rest(t))
  BY <1>1, <1>2 DEF Erase
<1>4. Unindex(ps) \in Item /\ Unindex(ps).op = "unindex"
  BY PointerSetItems DEF Unindex
<1>5. new \in Seq(Item) /\ \A m \in DOMAIN new : new[m].op = "unindex"
  BY <1>2, <1>4
<1>6. \A m \in DOMAIN new : Awaits(new[m]) = {} /\ \A p : ~Removes(new[m], p)
  BY <1>5 DEF Awaits, Removes
<1>7. fresh[t] \subseteq fresh'[t]
  BY <1>3 DEF Touch
<1>8. \A p \in gone'[t] : p \in gone[t] \/ Removes(Current(t), p)
  BY <1>1, <1>3 DEF TypeInv, TypeOK
<1>9. Fronted(t)'
  BY <1>3, <1>5, FrontedSplice
<1>10. Later(t)'
  BY <1>3, <1>5, <1>6, LaterSplice
<1>11. \A c : Written(t, c)' = {}
  <2>1. \A k \in DOMAIN todo[t] : todo[t][k].op # "store"
    BY NoStores
  <2>2. \A c : Written(t, c) = {}
    BY <2>1 DEF Written
  <2>3. \A c : Written(t, c)' \subseteq Written(t, c) \cup
           {new[m].recs[c] : m \in {l \in DOMAIN new : new[l].op = "store" /\ c \in DOMAIN new[l].recs}}
    BY <1>3, <1>5, WrittenSplice
  <2>4. QED
    BY <1>5, <2>2, <2>3
<1>12. ASSUME NEW c \in Pointers, NEW rec \in Copies(t, c)'
       PROVE  rec \in Copies(t, c) /\ c \notin ps
  <2>1. Exists(store', c) /\ rec = store'[c]
    BY <1>11, <1>12 DEF Copies
  <2>2. c \notin ps /\ store'[c] = store[c]
    BY <1>3, <2>1 DEF Exists
  <2>3. QED
    BY <2>1, <2>2 DEF Copies, Exists
<1>13. \A r, c, p : ~Handles(Current(t), r, c, p)
  BY DEF Handles
<1>14. Cover(t)'
  BY <1>3, <1>5, <1>6, <1>7, <1>8, <1>12, <1>13, CoverSplice
<1>15. QED
  BY <1>9, <1>10, <1>14 DEF Kept

LEMMA RemoveKept ==
  ASSUME TypeInv, NEW t \in Threads, Fronted(t), Later(t), Cover(t), DoRemove(t) \/ DoRemoveSet(t)
  PROVE  Kept(t)'
<1>1. CASE DoRemove(t)
  <2>1. /\ Running(t) /\ Current(t).op = "remove" /\ Erase(t, {Current(t).ptr})
        /\ {Current(t).ptr} \in SUBSET Pointers
    BY <1>1, CurrentIsItem, ItemParts DEF DoRemove, At
  <2>2. \A p : Removes(Current(t), p) <=> p \in {Current(t).ptr}
    BY <2>1 DEF Removes
  <2>3. PICK ps : ps = {Current(t).ptr}
    OBVIOUS
  <2>4. QED
    BY <2>1, <2>2, <2>3, EraseKept
<1>2. CASE DoRemoveSet(t)
  <2>1. /\ Running(t) /\ Current(t).op = "removeSet" /\ Erase(t, Current(t).ptrs)
        /\ Current(t).ptrs \in SUBSET Pointers
    BY <1>2, CurrentIsItem, ItemParts DEF DoRemoveSet, At
  <2>2. \A p : Removes(Current(t), p) <=> p \in Current(t).ptrs
    BY <2>1 DEF Removes
  <2>3. PICK ps : ps = Current(t).ptrs
    OBVIOUS
  <2>4. QED
    BY <2>1, <2>2, <2>3, EraseKept
<1>3. QED
  BY <1>1, <1>2

-----------------------------------------------------------------------------
(* An upsert removes nothing.                                              *)

LEMMA PlainCovers ==
  ASSUME NEW t
  PROVE  Plain(t) => Later(t) /\ Cover(t)
<1> SUFFICES ASSUME Plain(t)
             PROVE  Later(t) /\ Cover(t)
  OBVIOUS
<1>1. \A k \in DOMAIN todo[t] : Awaits(todo[t][k]) = {} /\ \A p : ~Removes(todo[t][k], p)
  BY DEF Plain, Awaits, Removes
<1>2. gone[t] = {}
  BY DEF Plain
<1>3. QED
  BY <1>1, <1>2 DEF Later, Cover

LEMMA PlainStep ==
  ASSUME TypeInv, NEW t \in Threads, Plain(t), Step(t)
  PROVE  Plain(t)' \/ Refuse(t)
<1>1. Running(t) /\ Current(t) = todo[t][1] /\ 1 \in DOMAIN todo[t]
  BY StepShape, CurrentIsItem
<1>2. Current(t).op \in {"store", "index", "attach"}
  BY <1>1 DEF Plain
<1>3. DoStore(t) \/ DoIndex(t) \/ DoAttach(t)
  BY <1>2 DEF Step, DoVisit, DoFilter, DoEffects, DoLeave, DoLookup, DoFetch, DoRemove, DoRemoveSet,
              DoUnindex, At
<1>4. ASSUME NEW new \in Seq(Item), Continue(t, new \o Rest(t)), UNCHANGED gone,
             \A m \in DOMAIN new : new[m].op \in {"store", "index", "attach"}
      PROVE  Plain(t)'
  <2>1. \A k \in DOMAIN todo'[t] : \/ k \in DOMAIN new /\ todo'[t][k] = new[k]
                                   \/ \E l \in DOMAIN todo[t] : todo'[t][k] = todo[t][l]
    BY <1>1, <1>4, SplicedTodo
  <2>2. QED
    BY <1>4, <2>1 DEF Plain
<1>5. CASE DoStore(t)
  <2>1. Batch(Current(t).recs)
    BY <1>1, <1>5, CurrentIsItem, ItemParts DEF DoStore, At, Batch
  <2>2. <<IndexRecords(Current(t).recs)>> \in Seq(Item) /\ IndexRecords(Current(t).recs).op = "index"
    BY <2>1, BatchItems DEF IndexRecords
  <2>3. PICK new : new = <<IndexRecords(Current(t).recs)>>
    OBVIOUS
  <2>4. new \in Seq(Item) /\ \A m \in DOMAIN new : new[m].op = "index"
    BY <2>2, <2>3
  <2>5. Refuse(t) \/ (Continue(t, new \o Rest(t)) /\ UNCHANGED gone)
    BY <1>5, <2>3 DEF DoStore
  <2>6. QED
    BY <1>4, <2>4, <2>5
<1>6. CASE DoIndex(t)
  <2>1. PICK new : new = <<>>
    OBVIOUS
  <2>2. new \in Seq(Item) /\ DOMAIN new = {} /\ new \o Rest(t) = Rest(t)
    BY <1>1, <2>1, CurrentIsItem
  <2>3. Continue(t, new \o Rest(t)) /\ UNCHANGED gone
    BY <1>6, <2>2 DEF DoIndex
  <2>4. QED
    BY <1>4, <2>2, <2>3
<1>7. CASE DoAttach(t)
  <2> DEFINE i == Current(t)
             base == IF Exists(store, i.child) THEN store[i.child] ELSE EmptyRecord
             child == [base EXCEPT ![i.field] = {i.parent}]
  <2>1. i.child \in Pointers /\ i.field \in Fields /\ i.parent \in Pointers
    BY <1>1, <1>7, CurrentIsItem, ItemParts DEF DoAttach, At
  <2>2. base \in Record
    <3>1. EmptyRecord \in Record
      BY DEF EmptyRecord, Record
    <3>2. QED
      BY <2>1, <3>1, ExistingRecord
  <2>3. child \in Record
    BY <2>1, <2>2 DEF Record
  <2>4. PICK new : new = <<StoreRecords(OneRecord(i.child, child))>>
    OBVIOUS
  <2>5. Continue(t, new \o Rest(t)) /\ UNCHANGED gone
    BY <1>7, <2>4 DEF DoAttach, Untouched
  <2>6. /\ StoreRecords(OneRecord(i.child, child)) \in Item
        /\ StoreRecords(OneRecord(i.child, child)).op = "store"
    BY <2>1, <2>3, OneRecordBatch, BatchItems DEF StoreRecords
  <2>7. new \in Seq(Item) /\ \A m \in DOMAIN new : new[m].op = "store"
    BY <2>4, <2>6
  <2>8. QED
    BY <1>4, <2>5, <2>7
<1>8. QED
  BY <1>3, <1>5, <1>6, <1>7

-----------------------------------------------------------------------------
(* The theorem.                                                            *)

DangleInv == OrderInv /\ FreshInv /\ CoverInv

(* Every section of a delete keeps the references covered.                  *)
LEMMA FrontedStep ==
  ASSUME NullsClear, TypeInv, IndexExact, FreshInv, NEW t \in Threads,
         Fronted(t), Later(t), Cover(t), Step(t)
  PROVE  Kept(t)'
<1>1. Known(t)
  BY StepShape DEF FreshInv, Running
<1>2. ~DoAttach(t)
  <2>1. Running(t) /\ Current(t) = todo[t][1] /\ 1 \in DOMAIN todo[t]
    BY StepShape, CurrentIsItem
  <2>2. QED
    BY <2>1 DEF Fronted, DoAttach, At
<1>3. QED
  BY <1>1, <1>2, StoreKept, IndexKept, VisitKept, FilterKept, EffectsKept, LeaveKept, LookupKept,
     FetchKept, RemoveKept DEF Step

LEMMA DangleStep ==
  NullsClear /\ TypeInv /\ StackInv /\ IndexExact /\ DangleInv /\ [Next]_vars => DangleInv'
<1> SUFFICES ASSUME NullsClear, TypeInv, StackInv, IndexExact, DangleInv, [Next]_vars
             PROVE  DangleInv'
  OBVIOUS
<1> USE DEF DangleInv
<1>1. ASSUME NEW t \in Threads, BeginUpsert(t) \/ BeginDelete(t) \/ BeginDeleteByFilter(t)
      PROVE  DangleInv'
  <2>1. PICK program : BeginsWith(t, program)
    BY <1>1, BeginShape
  <2>2. FreshInv'
    BY <2>1, KnownBegin
  <2>3. /\ \A u \in Threads : u # t => todo'[u] = todo[u] /\ outcome'[u] = outcome[u]
        /\ todo'[t] = program
    BY <2>1, BegunTodo
  <2>4. /\ gone' = [gone EXCEPT ![t] = {}] /\ UNCHANGED store
        /\ \A u \in Threads : u # t => fresh'[u] = fresh[u]
    BY <2>1 DEF BeginsWith, Begin, TypeInv, TypeOK
  <2>5. gone'[t] = {} /\ \A u \in Threads : u # t => gone'[u] = gone[u]
    BY <2>4 DEF TypeInv, TypeOK
  <2>6. \A k \in DOMAIN program : Awaits(program[k]) = {} /\ \A p : ~Removes(program[k], p)
    BY <2>1 DEF BeginsWith, Awaits, Removes
  <2>7. Later(t)'
    BY <2>3, <2>6 DEF Later
  <2>8. Cover(t)'
    BY <2>3, <2>5, <2>6 DEF Cover
  <2>9. Plain(t)' \/ Fronted(t)'
    <3>1. CASE \A k \in DOMAIN program : program[k].op \in {"store", "attach"}
      BY <2>3, <2>5, <3>1 DEF Plain
    <3>2. CASE \A k \in DOMAIN program : program[k].op \in {"visit", "filter"}
      BY <2>3, <3>2 DEF Fronted
    <3>3. QED
      BY <2>1, <3>1, <3>2 DEF BeginsWith
  <2>10. ASSUME NEW u \in Threads, u # t
         PROVE  (Plain(u)' \/ Fronted(u)') /\ Later(u)' /\ (outcome'[u] # "refused" => Cover(u)')
    <3>1. Plain(u) => Plain(u)'
      BY <2>3, <2>5, <2>10 DEF Plain
    <3>2. Fronted(u) => Fronted(u)'
      BY <2>3, <2>10 DEF Fronted
    <3>3. Later(u)'
      BY <2>3, <2>10 DEF Later, OrderInv
    <3>4. \A c : Doomed(u, c)' <=> Doomed(u, c)
      BY <2>3, <2>10 DEF Doomed
    <3>5. \A c : Copies(u, c)' = Copies(u, c)
      BY <2>3, <2>4, <2>10 DEF Copies, Written, Exists
    <3>6. Cover(u) => Cover(u)'
      BY <2>3, <2>4, <2>5, <2>10, <3>4, <3>5 DEF Cover
    <3>7. outcome'[u] = outcome[u]
      BY <2>3, <2>10
    <3>8. QED
      BY <3>1, <3>2, <3>3, <3>6, <3>7 DEF OrderInv, CoverInv
  <2>11. OrderInv' /\ CoverInv'
    BY <2>7, <2>8, <2>9, <2>10 DEF OrderInv, CoverInv
  <2>12. QED
    BY <2>2, <2>11
<1>2. ASSUME NEW t \in Threads, Step(t)
      PROVE  DangleInv'
  <2>1. FreshInv'
    BY <1>2, KnownStep
  <2>2. ASSUME NEW u \in Threads, u # t
        PROVE  (Plain(u)' \/ Fronted(u)') /\ Later(u)' /\ (outcome'[u] # "refused" => Cover(u)')
    <3>1. todo'[u] = todo[u] /\ outcome'[u] = outcome[u]
      BY <1>2, <2>2, OthersAfter
    <3>2. gone'[u] = gone[u]
      BY <1>2, <2>2, OthersUntouched
    <3>3. Plain(u) => Plain(u)'
      BY <3>1, <3>2 DEF Plain
    <3>4. Fronted(u) => Fronted(u)'
      BY <3>1 DEF Fronted
    <3>5. Later(u)'
      BY <3>1 DEF Later, OrderInv
    <3>6. outcome'[u] # "refused" => Cover(u)'
      BY <1>2, <2>2, CoverOthers
    <3>7. QED
      BY <3>3, <3>4, <3>5, <3>6 DEF OrderInv
  <2>3. (Plain(t)' \/ Fronted(t)') /\ Later(t)' /\ (outcome'[t] # "refused" => Cover(t)')
    <3>1. CASE Refuse(t)
      BY <3>1, RefusedKept DEF Kept
    <3>2. CASE Plain(t)'
      <4>1. Later(t)' /\ Cover(t)'
        BY <3>2, PlainCovers, PTL
      <4>2. QED
        BY <3>2, <4>1
    <3>3. CASE Fronted(t)
      <4>1. Later(t)
        BY DEF OrderInv
      <4>2. Cover(t)
        BY <1>2, StepShape DEF CoverInv, Running
      <4>3. Kept(t)'
        BY <1>2, <3>3, <4>1, <4>2, FrontedStep
      <4>4. QED
        BY <4>3 DEF Kept
    <3>4. CASE Plain(t)
      BY <1>2, <3>1, <3>2, <3>4, PlainStep
    <3>5. QED
      BY <3>3, <3>4 DEF OrderInv
  <2>4. OrderInv' /\ CoverInv'
    BY <2>2, <2>3 DEF OrderInv, CoverInv
  <2>5. QED
    BY <2>1, <2>4
<1>3. CASE Restart
  <2>1. /\ todo' = [t \in Threads |-> <<>>] /\ outcome' = [t \in Threads |-> "idle"]
        /\ gone' = [t \in Threads |-> {}]
    BY <1>3 DEF Restart
  <2>2. \A t \in Threads : todo'[t] = <<>> /\ outcome'[t] = "idle" /\ gone'[t] = {}
    BY <2>1
  <2>3. OrderInv'
    BY <2>2 DEF OrderInv, Fronted, Later
  <2>4. FreshInv'
    BY <2>2 DEF FreshInv
  <2>5. CoverInv'
    BY <2>2 DEF CoverInv, Cover
  <2>6. QED
    BY <2>3, <2>4, <2>5
<1>4. CASE UNCHANGED vars
  <2>1. UNCHANGED <<store, todo, outcome, gone, fresh, raced>>
    BY <1>4 DEF vars, history
  <2>2. OrderInv'
    BY <2>1 DEF OrderInv, Plain, Fronted, Later
  <2>3. FreshInv'
    BY <2>1 DEF FreshInv, Known, PendingOfOthers, Pending, At, Running, Current
  <2>4. CoverInv'
    BY <2>1 DEF CoverInv, Cover, Doomed, Copies, Written, Exists
  <2>5. QED
    BY <2>2, <2>3, <2>4
<1>5. QED
  BY <1>1, <1>2, <1>3, <1>4 DEF Next

LEMMA DangleInit == Init => TypeInv /\ StackInv /\ PendingInv /\ IndexExact /\ DangleInv
<1> SUFFICES ASSUME Init
             PROVE  TypeInv /\ StackInv /\ PendingInv /\ IndexExact /\ DangleInv
  OBVIOUS
<1>1. TypeInv /\ StackInv
  BY TypeInit DEF Init, StackInv
<1>2. /\ refs = Rebuilt(store)
      /\ \A u \in Threads : ~Running(u) /\ todo[u] = <<>> /\ outcome[u] = "idle" /\ gone[u] = {}
  BY DEF Init, Running
<1>3. PendingInv
  BY <1>2 DEF PendingInv, Left, At
<1>4. \A c \in Pointers : Exact(c)
  BY <1>2, RebuiltEntries DEF Exact
<1>5. IndexExact
  BY <1>4, SettledExact
<1>6. OrderInv /\ FreshInv /\ CoverInv
  BY <1>2 DEF OrderInv, Fronted, Later, FreshInv, CoverInv, Cover
<1>7. QED
  BY <1>1, <1>3, <1>5, <1>6 DEF DangleInv

(* When a delete has answered, no record refers by a delete rule to one it *)
(* has removed, except records that another thread stored meanwhile or was *)
(* still bringing to the index: for any records, rules, cycles of          *)
(* cascades, filters, payloads and threads.  Set-null writes do not reach  *)
(* into fields that hold an object (clear_parent_pointer_field), so no     *)
(* such field may be under a set-null rule.                                *)
THEOREM DeletesLeaveNothingDangling ==
  ASSUME \A r \in Rules : r.action = "SetNull" => r.field \notin Maps
  PROVE  Spec => []NoDanglingAfterDelete
<1> DEFINE AllInv == TypeInv /\ StackInv /\ PendingInv /\ IndexExact /\ DangleInv
<1>0. NullsClear
  BY DEF NullsClear
<1>1. Init => AllInv
  BY DangleInit
<1>2. AllInv /\ [Next]_vars => AllInv'
  BY <1>0, TypeStep, StackStep, IndexStep, DangleStep
<1>3. AllInv => NoDanglingAfterDelete
  <2> SUFFICES ASSUME TypeInv, CoverInv, NEW t \in Threads, outcome[t] = "ok", NEW p \in gone[t],
                      NEW r \in Rules, r.of = DrawerOf[p], NEW c \in Pointers \ fresh[t],
                      RefersByRule(store, r, c, p)
               PROVE  FALSE
    BY DEF NoDanglingAfterDelete, DangleInv
  <2>1. todo[t] = <<>> /\ p \in Pointers
    BY DEF TypeInv, TypeOK, Running
  <2>2. ~Doomed(t, c)
    BY <2>1 DEF Doomed
  <2>3. store[c] \in Copies(t, c) /\ Refers(store[c], r, c, p)
    BY DEF RefersByRule, Copies, Refers
  <2>4. QED
    BY <2>1, <2>2, <2>3 DEF CoverInv, Cover
<1> HIDE DEF AllInv
<1>4. QED
  BY <1>1, <1>2, <1>3, PTL DEF Spec

-----------------------------------------------------------------------------
(* What a delete that meets no other operation leaves.                     *)

(* The database it began with and the records it has to remove.            *)
Old(t) == before[t].store
Goal(t) == ToDelete(before[t].store, before[t].targets)

(* Record c has been removed or will be; or it will at least be visited.   *)
Ends(t, c) == c \in gone[t] \/ Doomed(t, c)
Due(t, c) == Ends(t, c) \/ \E k \in DOMAIN todo[t] : todo[t][k].op = "visit" /\ todo[t][k].ptr = c

(* A set-null rule has taken the reference that field f of c made to p;    *)
(* where a cascade goes through the same field, c goes as well.            *)
Taken(t, c, f, p) ==
  /\ p \in Goal(t) /\ Ends(t, p)
  /\ Tracked(DrawerOf[c], f)
  /\ \E r \in RulesOf(DrawerOf[p], "SetNull") : r.target = DrawerOf[c] /\ r.field = f
  /\ \A r \in RulesOf(DrawerOf[p], "Cascade") :
       r.target = DrawerOf[c] /\ r.field = f => Ends(t, c)

(* What record c was at first, without the references that were taken.     *)
Less(t, c, rec) ==
  /\ Exists(Old(t), c)
  /\ \A f \in Fields : /\ rec[f] \subseteq Old(t)[c][f]
                       /\ \A p \in Old(t)[c][f] \ rec[f] : Taken(t, c, f, p)

(* Section i deals with records that have to be removed, and with what     *)
(* refers to them.                                                         *)
Aimed(t, i) ==
  /\ i.op = "visit" => (Exists(Old(t), i.ptr) => i.ptr \in Goal(t))
  /\ i.op = "remove" => i.ptr \in Goal(t)
  /\ i.op = "removeSet" => i.ptrs \subseteq Goal(t)
  /\ i.op = "filter" => \A c \in i.ptrs : Exists(Old(t), c) => c \in Goal(t)
  /\ i.op = "effects" => i.ptr \in Goal(t) /\ Less(t, i.ptr, i.rec)
  /\ i.op \in {"lookup", "fetch"} =>
       i.ptr \in Goal(t) /\ Ends(t, i.ptr) /\ i.rule.of = DrawerOf[i.ptr]
  /\ i.op = "fetch" => \A c \in i.ids :
       DrawerOf[c] = i.rule.target /\ Tracked(i.rule.target, i.rule.field)

(* No other operation runs, and the database is what it was but for what   *)
(* the delete has removed and the references it has taken.                 *)
Alone(t) == fresh[t] = {} /\ \A u \in Threads : Running(u) => u = t
Whole(t) ==
  /\ gone[t] \subseteq Goal(t)
  /\ \A c \in Pointers : Exists(store, c) <=> Exists(Old(t), c) /\ c \notin gone[t]
  /\ \A c \in Pointers : \A rec \in Copies(t, c) : Less(t, c, rec) /\ c \notin gone[t]

(* Section i leads from p to c by the cascade r, and section i takes       *)
(* references to p away.                                                   *)
Leads(i, r, c, p) ==
  \/ i.op = "lookup" /\ i.ptr = p /\ i.rule = r
  \/ i.op = "fetch" /\ i.ptr = p /\ i.rule = r /\ c \in i.ids
  \/ i.op = "visit" /\ i.ptr = c
Nulls(i, p) == i.op \in {"lookup", "fetch"} /\ i.ptr = p /\ i.rule.action = "SetNull"

(* References to p are taken after the cascades from p have been followed. *)
CascadesFirst(t) ==
  \A p \in Pointers, c \in Pointers : \A r \in RulesOf(DrawerOf[p], "Cascade") :
    RefersByRule(Old(t), r, c, p) =>
      \A k \in DOMAIN todo[t] : Nulls(todo[t][k], p) =>
        Ends(t, c) \/ \E j \in 1 .. k - 1 : Leads(todo[t][j], r, c, p)

(* What a removed record cascades to is removed, or will be visited.       *)
Forwards(t) ==
  \A p \in Pointers : Exists(Old(t), p) /\ Ends(t, p) =>
    \/ \E k \in DOMAIN todo[t] : todo[t][k].op = "effects" /\ todo[t][k].ptr = p
    \/ \A c \in Forward(p, Old(t)[p]) : Exists(Old(t), c) => Due(t, c)

(* So is what the delete was asked for.                                    *)
Asked(t) ==
  \A c \in before[t].targets : Exists(Old(t), c) =>
    Due(t, c) \/ \E k \in DOMAIN todo[t] : todo[t][k].op = "filter" /\ c \in todo[t][k].ptrs

Work(t) ==
  /\ Fronted(t) /\ Alone(t) /\ Whole(t)
  /\ \A i \in Item : Has(todo[t], i) => Aimed(t, i)
  /\ CascadesFirst(t) /\ Forwards(t) /\ Asked(t)
Sound(t) == Old(t) \in Store /\ before[t].targets \subseteq Pointers
ClosureInv ==
  \A t \in Threads : Undisturbed(t) => Sound(t) /\ (outcome[t] # "refused" => Work(t))

-----------------------------------------------------------------------------
(* What a delete has to remove.                                            *)

LEMMA GoalHolds ==
  ASSUME NEW s \in Store, NEW ps \in SUBSET Pointers
  PROVE  /\ ToDelete(s, ps) \subseteq Pointers /\ \A c \in ToDelete(s, ps) : Exists(s, c)
         /\ Cascaded(s, ps, ToDelete(s, ps))
         /\ \A d \in SUBSET Pointers :
              (\A c \in d : Exists(s, c)) /\ Cascaded(s, ps, d) => ToDelete(s, ps) \subseteq d
<1> DEFINE stored == {p \in Pointers : Exists(s, p)}
           goal == ToDelete(s, ps)
<1>1. goal = {c \in stored : \A d \in SUBSET stored : Cascaded(s, ps, d) => c \in d}
  BY DEF ToDelete
<1> HIDE DEF goal
<1>2. ASSUME NEW c \in Pointers, Exists(s, c), c \in ps \/ \E p \in goal : Follows(s, c, p)
      PROVE  c \in goal
  <2> SUFFICES ASSUME NEW d \in SUBSET stored, Cascaded(s, ps, d)
               PROVE  c \in d
    BY <1>1, <1>2
  <2>1. goal \subseteq d
    BY <1>1
  <2>2. QED
    BY <1>2, <2>1 DEF Cascaded
<1>3. Cascaded(s, ps, goal)
  BY <1>2 DEF Cascaded
<1>4. QED
  BY <1>1, <1>3 DEF goal

LEMMA GoalOf ==
  ASSUME NEW t, Sound(t)
  PROVE  /\ Goal(t) \subseteq Pointers /\ \A c \in Goal(t) : Exists(Old(t), c)
         /\ \A c \in Pointers :
              Exists(Old(t), c) /\ (c \in before[t].targets \/ \E p \in Goal(t) : Follows(Old(t), c, p))
                => c \in Goal(t)
<1>1. Old(t) \in Store /\ before[t].targets \in SUBSET Pointers /\ Goal(t) = ToDelete(Old(t), before[t].targets)
  BY DEF Sound, Goal, Old
<1>2. QED
  BY <1>1, GoalHolds DEF Cascaded

LEMMA OldRecord ==
  ASSUME NEW t, Sound(t), NEW c \in Pointers, Exists(Old(t), c)
  PROVE  Old(t)[c] \in Record
BY DEF Sound, Store, Exists

LEMMA ForwardType ==
  ASSUME NEW p, NEW rec \in Record
  PROVE  Forward(p, rec) \subseteq Pointers
BY DEF Forward, Record

-----------------------------------------------------------------------------
(* What a section leaves of the work.                                      *)

(* The sections new come in the place of the current one, and what it      *)
(* removes is gone.                                                        *)
Goes(t, new) ==
  /\ Running(t) /\ new \in Seq(Item) /\ Continue(t, new \o Rest(t))
  /\ gone[t] \subseteq gone'[t]
  /\ \A c \in gone'[t] : c \in gone[t] \/ Removes(Current(t), c)
  /\ \A c \in Pointers : Removes(Current(t), c) /\ Exists(Old(t), c) => c \in gone'[t]

LEMMA SameGoal ==
  ASSUME NEW t, UNCHANGED before
  PROVE  /\ Old(t)' = Old(t) /\ Goal(t)' = Goal(t) /\ before'[t].targets = before[t].targets
         /\ Sound(t)' = Sound(t) /\ Undisturbed(t)' = Undisturbed(t)
BY DEF Old, Goal, Sound, Undisturbed

LEMMA EndsSplice ==
  ASSUME TypeInv, NEW t \in Threads, NEW new, Goes(t, new),
         NEW c \in Pointers, Exists(Old(t), c), Ends(t, c)
  PROVE  Ends(t, c)'
BY DoomedSplice DEF Ends, Goes

LEMMA TakenSplice ==
  ASSUME TypeInv, NEW t \in Threads, Sound(t), NEW new, Goes(t, new),
         NEW c \in Pointers, Exists(Old(t), c), NEW f, NEW p, Taken(t, c, f, p)
  PROVE  Taken(t, c, f, p)'
<1>1. UNCHANGED before
  BY DEF Goes, Continue
<1>2. p \in Goal(t) /\ p \in Pointers /\ Exists(Old(t), p)
  BY GoalOf DEF Taken
<1>3. Ends(t, p)' /\ (Ends(t, c) => Ends(t, c)')
  BY <1>2, EndsSplice DEF Taken
<1>4. Goal(t)' = Goal(t)
  BY <1>1, SameGoal
<1>5. QED
  BY <1>2, <1>3, <1>4 DEF Taken

LEMMA LessSplice ==
  ASSUME TypeInv, NEW t \in Threads, Sound(t), NEW new, Goes(t, new),
         NEW c \in Pointers, NEW rec, Less(t, c, rec)
  PROVE  Less(t, c, rec)'
<1>1. UNCHANGED before
  BY DEF Goes, Continue
<1>2. Old(t)' = Old(t)
  BY <1>1, SameGoal
<1>3. Exists(Old(t), c)
  BY DEF Less
<1>4. \A f, p : Taken(t, c, f, p) => Taken(t, c, f, p)'
  BY <1>3, TakenSplice
<1>5. QED
  BY <1>2, <1>4 DEF Less

LEMMA AimedSplice ==
  ASSUME TypeInv, NEW t \in Threads, Sound(t), NEW new, Goes(t, new), NEW i \in Item, Aimed(t, i)
  PROVE  Aimed(t, i)'
<1>1. UNCHANGED before
  BY DEF Goes, Continue
<1>2. Old(t)' = Old(t) /\ Goal(t)' = Goal(t)
  BY <1>1, SameGoal
<1>3. i.op = "effects" => Less(t, i.ptr, i.rec)'
  <2>1. i.op = "effects" => i.ptr \in Pointers /\ Less(t, i.ptr, i.rec)
    BY ItemParts DEF Aimed
  <2>2. QED
    BY <2>1, LessSplice
<1>4. i.op \in {"lookup", "fetch"} => Ends(t, i.ptr)'
  <2>1. i.op \in {"lookup", "fetch"} => i.ptr \in Pointers /\ Exists(Old(t), i.ptr) /\ Ends(t, i.ptr)
    BY GoalOf DEF Aimed
  <2>2. QED
    BY <2>1, EndsSplice
<1>5. QED
  BY <1>2, <1>3, <1>4 DEF Aimed

LEMMA DueSplice ==
  ASSUME TypeInv, NEW t \in Threads, NEW new, Goes(t, new),
         NEW c \in Pointers, Exists(Old(t), c), Due(t, c),
         Current(t).op = "visit" /\ Current(t).ptr = c => Due(t, c)'
  PROVE  Due(t, c)'
<1>1. CASE Ends(t, c)
  BY <1>1, EndsSplice DEF Due
<1>2. CASE \E k \in DOMAIN todo[t] : todo[t][k].op = "visit" /\ todo[t][k].ptr = c
  <2>1. PICK k \in DOMAIN todo[t] : todo[t][k].op = "visit" /\ todo[t][k].ptr = c
    BY <1>2
  <2>2. /\ Running(t) /\ new \in Seq(Item) /\ Continue(t, new \o Rest(t))
        /\ DOMAIN todo[t] = 1..Len(todo[t]) /\ todo[t][1] = Current(t)
    BY SplicedAt DEF Goes
  <2>3. CASE k = 1
    BY <2>1, <2>2, <2>3
  <2>4. CASE k > 1
    <3>1. k + Len(new) - 1 \in DOMAIN todo'[t] /\ todo'[t][k + Len(new) - 1] = todo[t][k]
      BY <2>2, <2>4, SplicedAt
    <3>2. QED
      BY <2>1, <3>1 DEF Due
  <2>5. QED
    BY <2>2, <2>3, <2>4
<1>3. QED
  BY <1>1, <1>2 DEF Due

(* The cascades from a record stay ahead of what takes references to it.   *)
LEMMA CascadesSplice ==
  ASSUME TypeInv, NEW t \in Threads, Sound(t), NEW new, Goes(t, new), CascadesFirst(t),
         \A p \in Pointers, c \in Pointers : \A r \in RulesOf(DrawerOf[p], "Cascade") :
           RefersByRule(Old(t), r, c, p) =>
             /\ Leads(Current(t), r, c, p) =>
                  Ends(t, c)' \/ \E j \in DOMAIN new : Leads(new[j], r, c, p)
             /\ \A m \in DOMAIN new : Nulls(new[m], p) =>
                  Ends(t, c)' \/ \E j \in 1 .. m - 1 : Leads(new[j], r, c, p)
  PROVE  CascadesFirst(t)'
<1> DEFINE n == Len(new)
           q == todo[t]
           q2 == todo'[t]
<1>1. /\ n \in Nat /\ DOMAIN new = 1..n /\ Len(q) \in Nat \ {0} /\ DOMAIN q = 1..Len(q)
      /\ q[1] = Current(t) /\ DOMAIN q2 = 1..(n + Len(q) - 1)
      /\ \A i \in DOMAIN new : i \in DOMAIN q2 /\ q2[i] = new[i]
      /\ \A l \in DOMAIN q : l > 1 => l + n - 1 \in DOMAIN q2 /\ q2[l + n - 1] = q[l]
      /\ \A k \in DOMAIN q2 : k \in DOMAIN new \/ \E l \in DOMAIN q : l > 1 /\ k = l + n - 1
  BY SplicedAt DEF Goes
<1>2. Old(t)' = Old(t)
  BY SameGoal DEF Goes, Continue
<1> SUFFICES ASSUME NEW p \in Pointers, NEW c \in Pointers, NEW r \in RulesOf(DrawerOf[p], "Cascade"),
                    RefersByRule(Old(t), r, c, p), NEW k \in DOMAIN q2, Nulls(q2[k], p), ~Ends(t, c)'
             PROVE  \E j \in 1 .. k - 1 : Leads(q2[j], r, c, p)
  BY <1>2 DEF CascadesFirst
<1>3. ~Ends(t, c)
  BY EndsSplice DEF RefersByRule
<1>4. \A l \in DOMAIN q : Nulls(q[l], p) => \E j \in 1 .. l - 1 : Leads(q[j], r, c, p)
  BY <1>3 DEF CascadesFirst
<1>5. Leads(Current(t), r, c, p) => \E j \in DOMAIN new : Leads(new[j], r, c, p)
  OBVIOUS
<1>6. \A m \in DOMAIN new : Nulls(new[m], p) => \E j \in 1 .. m - 1 : Leads(new[j], r, c, p)
  OBVIOUS
<1> HIDE DEF n, q, q2
<1>7. CASE k \in DOMAIN new
  <2>1. PICK j \in 1 .. k - 1 : Leads(new[j], r, c, p)
    BY <1>1, <1>6, <1>7
  <2>2. q2[j] = new[j]
    BY <1>1, <1>7
  <2>3. QED
    BY <2>1, <2>2
<1>8. CASE \E l \in DOMAIN q : l > 1 /\ k = l + n - 1
  <2>1. PICK l \in DOMAIN q : l > 1 /\ k = l + n - 1
    BY <1>8
  <2>2. PICK j \in 1 .. l - 1 : Leads(q[j], r, c, p)
    BY <1>1, <1>4, <2>1
  <2>3. CASE j = 1
    <3>1. PICK m \in DOMAIN new : Leads(new[m], r, c, p)
      BY <1>1, <1>5, <2>2, <2>3
    <3>2. m \in 1 .. k - 1 /\ q2[m] = new[m]
      BY <1>1, <2>1, <3>1
    <3>3. QED
      BY <3>1, <3>2
  <2>4. CASE j > 1
    <3>1. j \in DOMAIN q /\ l \in Nat /\ j \in Nat /\ j < l
      BY <1>1, <2>1, <2>2
    <3>2. q2[j + n - 1] = q[j] /\ j + n - 1 \in 1 .. k - 1
      BY <1>1, <2>1, <2>4, <3>1
    <3>3. QED
      BY <2>2, <3>2
  <2>5. QED
    BY <2>2, <2>3, <2>4
<1>9. QED
  BY <1>1, <1>7, <1>8

(* What new sections must bring for the work to go on.                     *)
LEMMA WorkSplice ==
  ASSUME TypeInv, NEW t \in Threads, Sound(t), Work(t), NEW new, Goes(t, new),
         Fronted(t)', Alone(t)', Whole(t)',
         \A i \in Item : Has(new, i) => Aimed(t, i)',
         \A p \in Pointers, c \in Pointers : \A r \in RulesOf(DrawerOf[p], "Cascade") :
           RefersByRule(Old(t), r, c, p) =>
             /\ Leads(Current(t), r, c, p) =>
                  Ends(t, c)' \/ \E j \in DOMAIN new : Leads(new[j], r, c, p)
             /\ \A m \in DOMAIN new : Nulls(new[m], p) =>
                  Ends(t, c)' \/ \E j \in 1 .. m - 1 : Leads(new[j], r, c, p),
         \A c \in Pointers : Exists(Old(t), c) /\ Current(t).op = "visit" /\ Current(t).ptr = c => Due(t, c)',
         \A c \in Pointers : Exists(Old(t), c) /\ Current(t).op = "filter" /\ c \in Current(t).ptrs => Due(t, c)',
         \A p \in Pointers : 
           /\ Exists(Old(t), p)
           /\ \/ Current(t).op = "effects" /\ Current(t).ptr = p
              \/ \E m \in DOMAIN new : Removes(new[m], p)
           => \/ \E m \in DOMAIN new : new[m].op = "effects" /\ new[m].ptr = p
              \/ \A c \in Forward(p, Old(t)[p]) : Exists(Old(t), c) => Due(t, c)'
  PROVE  Work(t)'
<1>1. /\ Len(new) \in Nat /\ DOMAIN new = 1..Len(new)
      /\ Len(todo[t]) \in Nat \ {0} /\ DOMAIN todo[t] = 1..Len(todo[t])
      /\ todo[t][1] = Current(t)
      /\ \A i \in DOMAIN new : i \in DOMAIN todo'[t] /\ todo'[t][i] = new[i]
      /\ \A l \in DOMAIN todo[t] : l > 1 =>
           l + Len(new) - 1 \in DOMAIN todo'[t] /\ todo'[t][l + Len(new) - 1] = todo[t][l]
      /\ \A k \in DOMAIN todo'[t] :
           k \in DOMAIN new \/ \E l \in DOMAIN todo[t] : l > 1 /\ k = l + Len(new) - 1
  BY SplicedAt DEF Goes
<1>2. \A l \in DOMAIN todo[t] : l # 1 => \E k \in DOMAIN todo'[t] : todo'[t][k] = todo[t][l]
  BY <1>1
<1>3. \A k \in DOMAIN todo'[t] : \/ \E m \in DOMAIN new : todo'[t][k] = new[m]
                                 \/ \E l \in DOMAIN todo[t] : todo'[t][k] = todo[t][l]
  BY <1>1
<1>4. Old(t)' = Old(t) /\ before'[t].targets = before[t].targets
  BY SameGoal DEF Goes, Continue
<1>5. \A i \in Item : Has(todo'[t], i) => Aimed(t, i)'
  <2> SUFFICES ASSUME NEW i \in Item, Has(todo'[t], i)
               PROVE  Aimed(t, i)'
    OBVIOUS
  <2>1. Has(new, i) \/ Has(todo[t], i)
    BY <1>3 DEF Has
  <2>2. Has(todo[t], i) => Aimed(t, i)
    BY DEF Work
  <2>3. QED
    BY <2>1, <2>2, AimedSplice
<1>6. CascadesFirst(t)'
  BY CascadesSplice DEF Work
<1>7. ASSUME NEW c \in Pointers, Exists(Old(t), c), Due(t, c)
      PROVE  Due(t, c)'
  BY <1>7, DueSplice
<1>8. Forwards(t)'
  <2> SUFFICES ASSUME NEW p \in Pointers, Exists(Old(t), p), Ends(t, p)',
                      ~\E k \in DOMAIN todo'[t] : todo'[t][k].op = "effects" /\ todo'[t][k].ptr = p,
                      NEW c \in Forward(p, Old(t)[p]), Exists(Old(t), c)
               PROVE  Due(t, c)'
    BY <1>4 DEF Forwards
  <2>1. c \in Pointers
    <3>1. Old(t)[p] \in Record
      BY OldRecord
    <3>2. QED
      BY <3>1, ForwardType
  <2>2. ~\E m \in DOMAIN new : new[m].op = "effects" /\ new[m].ptr = p
    BY <1>1
  <2>3. CASE \E m \in DOMAIN new : Removes(new[m], p)
    BY <2>2, <2>3
  <2>4. CASE Current(t).op = "effects" /\ Current(t).ptr = p
    BY <2>2, <2>4
  <2>5. CASE ~(Current(t).op = "effects" /\ Current(t).ptr = p) /\ ~\E m \in DOMAIN new : Removes(new[m], p)
    <3>1. \A k \in DOMAIN todo[t] : ~(todo[t][k].op = "effects" /\ todo[t][k].ptr = p)
      BY <1>1, <1>2, <2>5
    <3>2. Ends(t, p)
      <4>1. CASE p \in gone'[t]
        BY <1>1, <4>1 DEF Goes, Ends, Doomed
      <4>2. CASE Doomed(t, p)'
        BY <1>3, <2>5, <4>2 DEF Doomed, Ends
      <4>3. QED
        BY <4>1, <4>2 DEF Ends
    <3>3. Due(t, c)
      BY <3>1, <3>2 DEF Work, Forwards
    <3>4. QED
      BY <1>7, <2>1, <3>3
  <2>6. QED
    BY <2>3, <2>4, <2>5
<1>9. Asked(t)'
  <2> SUFFICES ASSUME NEW c \in before[t].targets, Exists(Old(t), c),
                      ~\E k \in DOMAIN todo'[t] : todo'[t][k].op = "filter" /\ c \in todo'[t][k].ptrs
               PROVE  Due(t, c)'
    BY <1>4 DEF Asked
  <2>1. c \in Pointers
    BY DEF Sound
  <2>2. CASE Due(t, c)
    BY <1>7, <2>1, <2>2
  <2>3. ASSUME NEW k \in DOMAIN todo[t], todo[t][k].op = "filter", c \in todo[t][k].ptrs
        PROVE  Due(t, c)'
    BY <1>1, <1>2, <2>1, <2>3
  <2>4. QED
    BY <2>2, <2>3 DEF Work, Asked
<1>10. QED
  BY <1>5, <1>6, <1>8, <1>9 DEF Work, Has

(* Nothing is changed in a drawer, and what is made ready to be written    *)
(* lacks only references that may be taken.                                *)
LEMMA WholeSplice ==
  ASSUME TypeInv, NEW t \in Threads, Sound(t), Whole(t), NEW new, Goes(t, new), UNCHANGED <<store, gone>>,
         \A c \in Pointers : \A m \in DOMAIN new : new[m].op = "store" /\ c \in DOMAIN new[m].recs =>
           Less(t, c, new[m].recs[c])' /\ c \notin gone[t]
  PROVE  Whole(t)'
<1>1. Old(t)' = Old(t) /\ Goal(t)' = Goal(t)
  BY SameGoal DEF Goes, Continue
<1>2. gone'[t] \subseteq Goal(t)'
  BY <1>1 DEF Whole
<1>3. \A c \in Pointers : Exists(store', c) <=> Exists(Old(t)', c) /\ c \notin gone'[t]
  BY <1>1 DEF Whole
<1>4. ASSUME NEW c \in Pointers, NEW rec \in Copies(t, c)'
      PROVE  Less(t, c, rec)' /\ c \notin gone'[t]
  <2>1. CASE rec \in Copies(t, c)
    BY <2>1, LessSplice DEF Whole
  <2>2. CASE rec \in {new[m].recs[c] : m \in {l \in DOMAIN new : new[l].op = "store" /\ c \in DOMAIN new[l].recs}}
    BY <2>2
  <2>3. Written(t, c)' \subseteq Written(t, c) \cup
           {new[m].recs[c] : m \in {l \in DOMAIN new : new[l].op = "store" /\ c \in DOMAIN new[l].recs}}
    BY WrittenSplice DEF Goes
  <2>4. QED
    BY <1>4, <2>1, <2>2, <2>3 DEF Copies, Exists
<1>5. QED
  BY <1>2, <1>3, <1>4 DEF Whole

LEMMA AloneSplice ==
  ASSUME TypeInv, NEW t \in Threads, Alone(t), NEW new, Goes(t, new), fresh'[t] \subseteq fresh[t]
  PROVE  Alone(t)'
<1>1. \A u \in Threads : u # t => outcome'[u] = outcome[u]
  BY SplicedTodo DEF Goes
<1>2. QED
  BY <1>1 DEF Alone, Running

(* A section that changes no record.                                       *)
LEMMA QuietWork ==
  ASSUME TypeInv, NEW t \in Threads, Sound(t), Work(t), Running(t), Kept(t)',
         NEW new \in Seq(Item), Continue(t, new \o Rest(t)), UNCHANGED <<store, gone, fresh>>,
         Current(t).op \notin {"remove", "removeSet"},
         \A c \in Pointers : \A m \in DOMAIN new : new[m].op = "store" /\ c \in DOMAIN new[m].recs =>
           Less(t, c, new[m].recs[c])' /\ c \notin gone[t],
         \A i \in Item : Has(new, i) => Aimed(t, i)',
         \A p \in Pointers, c \in Pointers : \A r \in RulesOf(DrawerOf[p], "Cascade") :
           RefersByRule(Old(t), r, c, p) =>
             /\ Leads(Current(t), r, c, p) =>
                  Ends(t, c)' \/ \E j \in DOMAIN new : Leads(new[j], r, c, p)
             /\ \A m \in DOMAIN new : Nulls(new[m], p) =>
                  Ends(t, c)' \/ \E j \in 1 .. m - 1 : Leads(new[j], r, c, p),
         \A c \in Pointers : Exists(Old(t), c) /\ Current(t).op = "visit" /\ Current(t).ptr = c => Due(t, c)',
         \A c \in Pointers : Exists(Old(t), c) /\ Current(t).op = "filter" /\ c \in Current(t).ptrs => Due(t, c)',
         \A p \in Pointers :
           /\ Exists(Old(t), p)
           /\ \/ Current(t).op = "effects" /\ Current(t).ptr = p
              \/ \E m \in DOMAIN new : Removes(new[m], p)
           => \/ \E m \in DOMAIN new : new[m].op = "effects" /\ new[m].ptr = p
              \/ \A c \in Forward(p, Old(t)[p]) : Exists(Old(t), c) => Due(t, c)'
  PROVE  Work(t)'
<1>1. Goes(t, new)
  BY DEF Goes, Removes
<1>2. Whole(t)'
  BY <1>1, WholeSplice DEF Work
<1>3. Alone(t)'
  BY <1>1, AloneSplice DEF Work
<1>4. Fronted(t)'
  BY DEF Kept
<1>5. QED
  BY <1>1, <1>2, <1>3, <1>4, WorkSplice

(* A section that asks for nothing.                                        *)
LEMMA RestWork ==
  ASSUME TypeInv, NEW t \in Threads, Sound(t), Work(t), Running(t), Kept(t)',
         Continue(t, Rest(t)), UNCHANGED <<store, gone, fresh>>,
         Current(t).op \notin {"remove", "removeSet", "effects"},
         \A c \in Pointers : 
           /\ Exists(Old(t), c)
           /\ \/ Current(t).op = "visit" /\ Current(t).ptr = c
              \/ Current(t).op = "filter" /\ c \in Current(t).ptrs
           => Ends(t, c),
         \A p \in Pointers, c \in Pointers : \A r \in RulesOf(DrawerOf[p], "Cascade") :
           RefersByRule(Old(t), r, c, p) /\ Leads(Current(t), r, c, p) => Ends(t, c)
  PROVE  Work(t)'
<1>1. PICK new : new = <<>>
  OBVIOUS
<1>2. new \in Seq(Item) /\ DOMAIN new = {} /\ new \o Rest(t) = Rest(t)
  BY <1>1, CurrentIsItem
<1>3. Continue(t, new \o Rest(t))
  BY <1>2
<1>4. Goes(t, new)
  BY <1>2, <1>3 DEF Goes, Removes
<1>5. \A c \in Pointers : Exists(Old(t), c) /\ Ends(t, c) => Ends(t, c)' /\ Due(t, c)'
  <2>1. \A c \in Pointers : Exists(Old(t), c) /\ Ends(t, c) => Ends(t, c)'
    BY <1>4, EndsSplice
  <2>2. QED
    BY <2>1 DEF Due
<1>6. \A i : ~Has(new, i)
  BY <1>2 DEF Has
<1>7. \A p \in Pointers, c \in Pointers : \A r \in RulesOf(DrawerOf[p], "Cascade") :
        RefersByRule(Old(t), r, c, p) /\ Leads(Current(t), r, c, p) => Ends(t, c)'
  BY <1>5 DEF RefersByRule
<1>8. QED
  BY <1>2, <1>3, <1>5, <1>6, <1>7, QuietWork

-----------------------------------------------------------------------------
(* What each section of the delete does for it.                            *)

(* The effects follow every cascade, backwards and forwards, and take      *)
(* references only after that.                                             *)
Effect(p, rec, skip) ==
  {i \in VisitOrLookup :
     /\ i.op = "visit" => i.ptr \in Forward(p, rec) \ skip
     /\ i.op = "lookup" => i.ptr = p /\ i.skip = skip /\ i.rule.of = DrawerOf[p]}
Ordered(p, rec, skip, last, new) ==
  /\ new \in Seq(Item) /\ Len(new) \in Nat \ {0} /\ DOMAIN new = 1..Len(new)
  /\ new[Len(new)] = last
  /\ \A m \in DOMAIN new : m # Len(new) => new[m] \in Effect(p, rec, skip)
  /\ \A c \in Forward(p, rec) \ skip : \E j \in 1 .. Len(new) - 1 : new[j] = Visit(c)
  /\ \A m \in 1 .. Len(new) - 1 : Nulls(new[m], p) =>
       \A r \in RulesOf(DrawerOf[p], "Cascade") : \E j \in 1 .. m - 1 : new[j] = Lookup(r, p, skip)
LEMMA EffectsOrder ==
  ASSUME NEW p \in Pointers, NEW rec \in Record, NEW skip \in SUBSET Pointers, NEW last \in Item,
         NEW new, new = Effects(p, rec, skip) \o <<last>>
  PROVE  Ordered(p, rec, skip, last, new)
<1> DEFINE look(a) == LookupAll(p, a, skip)
           ahead == VisitAll(Forward(p, rec) \ skip)
           Quiets == {i \in Effect(p, rec, skip) : ~Nulls(i, p)}
           first == (look("Restrict") \o look("Cascade")) \o ahead
           effects == first \o look("SetNull")
           one == <<last>>
<1>1. Forward(p, rec) \ skip \in SUBSET Pointers
  BY ForwardType
<1>2. ahead \in Seq(VisitOrLookup)
  BY <1>1, VisitsType
<1>3. \A j \in DOMAIN ahead : ahead[j].op = "visit" /\ ahead[j].ptr \in Forward(p, rec) \ skip
  <2> DEFINE order == SetToSeq(Forward(p, rec) \ skip)
  <2>1. order \in [1..Cardinality(Forward(p, rec) \ skip) -> Forward(p, rec) \ skip]
    BY <1>1, PointersFinite, SetToSeqType
  <2>2. ahead = [j \in DOMAIN order |-> Visit(order[j])]
    BY DEF VisitAll
  <2> HIDE DEF order, ahead
  <2>3. QED
    BY <2>1, <2>2 DEF Visit
<1>4. \A c \in Forward(p, rec) \ skip : Has(ahead, Visit(c))
  BY <1>1, VisitsAll
<1>5. \A a : look(a) \in Seq(VisitOrLookup)
  BY LookupsType
<1>6. \A a : \A j \in DOMAIN look(a) :
        look(a)[j].op = "lookup" /\ look(a)[j].ptr = p /\ look(a)[j].skip = skip
          /\ look(a)[j].rule \in RulesOf(DrawerOf[p], a)
  <2> SUFFICES ASSUME NEW a
               PROVE  \A j \in DOMAIN look(a) :
                        look(a)[j].op = "lookup" /\ look(a)[j].ptr = p /\ look(a)[j].skip = skip
                          /\ look(a)[j].rule \in RulesOf(DrawerOf[p], a)
    OBVIOUS
  <2> DEFINE rules == RulesOf(DrawerOf[p], a)
             order == SetToSeq(rules)
  <2>1. order \in [1..Cardinality(rules) -> rules]
    BY RulesFinite, SetToSeqType
  <2>2. look(a) = [j \in DOMAIN order |-> Lookup(order[j], p, skip)]
    BY DEF LookupAll
  <2> HIDE DEF order, look, rules
  <2>3. \A j \in DOMAIN look(a) : look(a)[j].op = "lookup" /\ look(a)[j].ptr = p /\ look(a)[j].skip = skip
          /\ look(a)[j].rule \in rules
    BY <2>1, <2>2 DEF Lookup
  <2>4. QED
    BY <2>3 DEF rules
<1>7. \A r \in RulesOf(DrawerOf[p], "Cascade") : Has(look("Cascade"), Lookup(r, p, skip))
  BY LooksUpAll
<1>8. Effects(p, rec, skip) = effects
  BY DEF Effects
<1> HIDE DEF look, ahead
<1>9. ahead \in Seq(Quiets)
  BY <1>2, <1>3 DEF Effect, Nulls
<1>10. /\ look("SetNull") \in Seq(Effect(p, rec, skip))
       /\ look("Restrict") \in Seq(Quiets) /\ look("Cascade") \in Seq(Quiets)
  <2>1. \A a : \A j \in DOMAIN look(a) :
          look(a)[j].rule.of = DrawerOf[p] /\ look(a)[j].rule.action = a
    BY <1>6 DEF RulesOf
  <2>2. \A a : \A j \in DOMAIN look(a) :
          look(a)[j] \in Effect(p, rec, skip) /\ (a # "SetNull" => ~Nulls(look(a)[j], p))
    <3> SUFFICES ASSUME NEW a, NEW j \in DOMAIN look(a)
                 PROVE  look(a)[j] \in Effect(p, rec, skip) /\ (a # "SetNull" => ~Nulls(look(a)[j], p))
      OBVIOUS
    <3>1. look(a)[j] \in VisitOrLookup
      BY <1>5
    <3>2. QED
      BY <1>6, <2>1, <3>1 DEF Effect, Nulls
  <2>3. \A a : look(a) \in Seq(Effect(p, rec, skip)) /\ (a # "SetNull" => look(a) \in Seq(Quiets))
    BY <1>5, <2>2
  <2>4. QED
    BY <2>3
<1>11. /\ look("Restrict") \o look("Cascade") \in Seq(Quiets)
       /\ \A r \in RulesOf(DrawerOf[p], "Cascade") :
            Has(look("Restrict") \o look("Cascade"), Lookup(r, p, skip))
  BY <1>7, <1>10, HasConcat
<1>12. /\ first \in Seq(Quiets)
       /\ \A r \in RulesOf(DrawerOf[p], "Cascade") : Has(first, Lookup(r, p, skip))
       /\ \A c \in Forward(p, rec) \ skip : Has(first, Visit(c))
  BY <1>4, <1>9, <1>11, HasConcat
<1>13. new = effects \o one
  BY <1>8
<1> HIDE DEF first
<1>14. /\ first \in Seq(Effect(p, rec, skip)) /\ \A j \in DOMAIN first : ~Nulls(first[j], p)
  BY <1>12
<1>15. /\ effects \in Seq(Effect(p, rec, skip)) /\ Len(first) \in Nat
       /\ DOMAIN first = 1..Len(first) /\ Len(effects) \in Nat /\ DOMAIN effects = 1..Len(effects)
       /\ Len(effects) >= Len(first)
       /\ \A j \in 1..Len(first) : effects[j] = first[j]
  BY <1>10, <1>14, ConcatParts
<1> HIDE DEF effects
<1>16. /\ one \in Seq(Item) /\ Len(one) = 1 /\ one[1] = last
  OBVIOUS
<1> HIDE DEF one
<1>17. effects \in Seq(Item) /\ \A j \in DOMAIN effects : effects[j] \in Effect(p, rec, skip)
  BY <1>15 DEF Effect, VisitOrLookup
<1>18. /\ new \in Seq(Item) /\ Len(new) = Len(effects) + 1 /\ DOMAIN new = 1..Len(new)
       /\ new[Len(new)] = last
       /\ \A j \in 1..Len(effects) : new[j] = effects[j]
  <2>1. /\ effects \o one \in Seq(Item)
        /\ Len(effects \o one) = Len(effects) + Len(one)
        /\ DOMAIN (effects \o one) = 1..(Len(effects) + Len(one))
        /\ \A j \in 1..Len(effects) : (effects \o one)[j] = effects[j]
        /\ \A j \in 1..Len(one) : (effects \o one)[Len(effects) + j] = one[j]
    BY <1>16, <1>17, ItemConcat
  <2>2. Len(effects) + 1 \in Nat /\ 1 \in 1..Len(one)
    BY <1>15, <1>16
  <2>3. new \in Seq(Item) /\ Len(new) = Len(effects) + 1 /\ DOMAIN new = 1..(Len(effects) + 1)
    BY <1>13, <1>16, <2>1
  <2>4. new[Len(effects) + 1] = last
    BY <1>13, <1>16, <2>1, <2>2
  <2>5. QED
    BY <1>13, <2>1, <2>3, <2>4
<1>19. \A x : Has(first, x) => \E j \in 1..Len(first) : new[j] = x
  <2>1. \A j \in 1..Len(first) : new[j] = first[j]
    BY <1>15, <1>18
  <2>2. QED
    BY <1>15, <2>1 DEF Has
<1>20. \A m \in DOMAIN new : m # Len(new) => new[m] \in Effect(p, rec, skip)
  BY <1>15, <1>17, <1>18
<1>21. \A c \in Forward(p, rec) \ skip : \E j \in 1 .. Len(new) - 1 : new[j] = Visit(c)
  BY <1>12, <1>15, <1>18, <1>19
<1>22. ASSUME NEW m \in 1 .. Len(new) - 1, Nulls(new[m], p), NEW r \in RulesOf(DrawerOf[p], "Cascade")
       PROVE  \E j \in 1 .. m - 1 : new[j] = Lookup(r, p, skip)
  <2>1. m \notin 1..Len(first)
    BY <1>14, <1>15, <1>18, <1>22
  <2>2. PICK j \in 1..Len(first) : new[j] = Lookup(r, p, skip)
    BY <1>12, <1>19
  <2>3. j \in 1 .. m - 1
    BY <1>15, <1>18, <2>1
  <2>4. QED
    BY <2>2, <2>3
<1>23. QED
  BY <1>15, <1>18, <1>20, <1>21, <1>22 DEF Ordered

LEMMA ForwardLess ==
  ASSUME NEW t, Sound(t), NEW p \in Pointers, NEW rec \in Record, Less(t, p, rec)
  PROVE  /\ Forward(p, rec) \subseteq Forward(p, Old(t)[p])
         /\ \A c \in Forward(p, Old(t)[p]) : c \in Forward(p, rec) \/ Ends(t, c)
<1>1. \A f \in Fields : /\ rec[f] \subseteq Old(t)[p][f]
                        /\ \A c \in Old(t)[p][f] \ rec[f] : Ends(t, c)
  BY DEF Less, Taken
<1>2. QED
  BY <1>1 DEF Forward

LEMMA CurrentAimed ==
  ASSUME TypeInv, NEW t \in Threads, Running(t), Work(t)
  PROVE  Aimed(t, Current(t))
<1>1. todo[t][1] = Current(t) /\ 1 \in DOMAIN todo[t] /\ Current(t) \in Item
  BY CurrentIsItem
<1>2. Has(todo[t], Current(t))
  BY <1>1 DEF Has
<1>3. QED
  BY <1>1, <1>2 DEF Work

LEMMA AddedDoomed ==
  ASSUME TypeInv, NEW t \in Threads, NEW new, Goes(t, new), NEW c, \E m \in DOMAIN new : Removes(new[m], c)
  PROVE  Ends(t, c)'
<1>1. \A m \in DOMAIN new : m \in DOMAIN todo'[t] /\ todo'[t][m] = new[m]
  BY SplicedAt DEF Goes
<1>2. QED
  BY <1>1 DEF Ends, Doomed

LEMMA AddedDue ==
  ASSUME TypeInv, NEW t \in Threads, NEW new, Goes(t, new), NEW c,
         \E m \in DOMAIN new : new[m].op = "visit" /\ new[m].ptr = c
  PROVE  Due(t, c)'
<1>1. \A m \in DOMAIN new : m \in DOMAIN todo'[t] /\ todo'[t][m] = new[m]
  BY SplicedAt DEF Goes
<1>2. QED
  BY <1>1 DEF Due

(* The effects of one record.                                              *)
LEMMA EffectsGoOn ==
  ASSUME TypeInv, NEW t \in Threads, Sound(t), Work(t), Running(t), Kept(t)',
         NEW q \in Pointers, NEW rec \in Record, NEW skip \in SUBSET Pointers, NEW last \in Item,
         NEW new, new = Effects(q, rec, skip) \o <<last>>,
         Continue(t, new \o Rest(t)), UNCHANGED <<store, gone, fresh>>,
         Current(t).op \in {"visit", "effects"}, Current(t).ptr = q,
         last.op \in {"leave", "remove"}, last.ptr = q,
         q \in Goal(t), Less(t, q, rec), Ends(t, q) \/ last.op = "remove",
         \A c \in skip : Doomed(t, c)
  PROVE  Work(t)'
<1>0. Ordered(q, rec, skip, last, new)
  BY EffectsOrder
<1>1. /\ new \in Seq(Item) /\ Len(new) \in Nat \ {0} /\ DOMAIN new = 1..Len(new)
      /\ new[Len(new)] = last
      /\ \A m \in DOMAIN new : m # Len(new) => new[m] \in Effect(q, rec, skip)
      /\ \A c \in Forward(q, rec) \ skip : \E j \in 1 .. Len(new) - 1 : new[j] = Visit(c)
      /\ \A m \in 1 .. Len(new) - 1 : Nulls(new[m], q) =>
           \A r \in RulesOf(DrawerOf[q], "Cascade") : \E j \in 1 .. m - 1 : new[j] = Lookup(r, q, skip)
  BY <1>0 DEF Ordered
<1>2. Goes(t, new)
  BY <1>1 DEF Goes, Removes
<1>3. Old(t)' = Old(t) /\ Goal(t)' = Goal(t)
  BY SameGoal DEF Continue
<1>4. Exists(Old(t), q)
  BY DEF Less
<1>5. Ends(t, q)'
  <2>1. CASE Ends(t, q)
    BY <1>2, <1>4, <2>1, EndsSplice
  <2>2. CASE last.op = "remove"
    <3>1. Len(new) \in DOMAIN new /\ Removes(new[Len(new)], q)
      BY <1>1, <2>2 DEF Removes
    <3>2. QED
      BY <1>2, <3>1, AddedDoomed
  <2>3. QED
    BY <2>1, <2>2
<1>6. \A m \in DOMAIN new : m # Len(new) =>
        /\ new[m].op \in {"visit", "lookup"}
        /\ new[m].op = "visit" => new[m].ptr \in Forward(q, rec) \ skip
        /\ new[m].op = "lookup" => new[m].ptr = q /\ new[m].rule.of = DrawerOf[q]
  BY <1>1 DEF Effect, VisitOrLookup
<1>7. \A m \in DOMAIN new : new[m].op \in {"visit", "lookup", "leave", "remove"}
  BY <1>1, <1>6
<1>8. ASSUME NEW i \in Item, Has(new, i)
      PROVE  Aimed(t, i)'
  <2>1. PICK m \in DOMAIN new : new[m] = i
    BY <1>8 DEF Has
  <2>2. CASE m = Len(new)
    <3>1. i.op \in {"leave", "remove"} /\ i.ptr = q
      BY <1>1, <2>1, <2>2
    <3>2. QED
      BY <1>3, <3>1 DEF Aimed
  <2>3. CASE m # Len(new) /\ i.op = "lookup"
    <3>1. i.ptr = q /\ i.rule.of = DrawerOf[q]
      BY <1>6, <2>1, <2>3
    <3>2. Ends(t, i.ptr)'
      BY <1>5, <3>1
    <3>3. QED
      BY <1>3, <2>3, <3>1, <3>2 DEF Aimed
  <2>4. CASE m # Len(new) /\ i.op = "visit"
    <3>1. i.ptr \in Forward(q, Old(t)[q]) /\ i.ptr \in Pointers
      BY <1>6, <2>1, <2>4, ForwardLess, ForwardType
    <3>2. Follows(Old(t), i.ptr, q)
      BY <3>1 DEF Follows
    <3>3. Exists(Old(t), i.ptr) => i.ptr \in Goal(t)
      BY <3>1, <3>2, GoalOf
    <3>4. QED
      BY <1>3, <2>4, <3>3 DEF Aimed
  <2>5. QED
    BY <1>6, <2>1, <2>2, <2>3, <2>4
<1>9. ASSUME NEW p \in Pointers, NEW c \in Pointers, NEW r \in RulesOf(DrawerOf[p], "Cascade"),
             RefersByRule(Old(t), r, c, p)
      PROVE  /\ Leads(Current(t), r, c, p) =>
                  Ends(t, c)' \/ \E j \in DOMAIN new : Leads(new[j], r, c, p)
             /\ \A m \in DOMAIN new : Nulls(new[m], p) =>
                  Ends(t, c)' \/ \E j \in 1 .. m - 1 : Leads(new[j], r, c, p)
  <2>1. Leads(Current(t), r, c, p) => c = q
    BY DEF Leads
  <2>2. ASSUME NEW m \in DOMAIN new, Nulls(new[m], p)
        PROVE  \E j \in 1 .. m - 1 : Leads(new[j], r, c, p)
    <3>1. m # Len(new) /\ p = q
      BY <1>1, <1>6, <2>2 DEF Nulls
    <3>2. PICK j \in 1 .. m - 1 : new[j] = Lookup(r, q, skip)
      BY <1>1, <2>2, <3>1
    <3>3. Leads(new[j], r, c, p)
      BY <3>1, <3>2 DEF Leads, Lookup
    <3>4. QED
      BY <3>3
  <2>3. QED
    BY <1>5, <2>1, <2>2
<1>10. ASSUME NEW c \in Forward(q, Old(t)[q]), Exists(Old(t), c)
       PROVE  Due(t, c)'
  <2>1. c \in Pointers
    BY <1>4, OldRecord, ForwardType
  <2>2. CASE Ends(t, c)
    BY <1>2, <1>10, <2>1, <2>2, EndsSplice DEF Due
  <2>3. CASE c \in skip
    <3>1. Ends(t, c)
      BY <2>3 DEF Ends
    <3>2. QED
      BY <2>2, <3>1
  <2>4. CASE c \in Forward(q, rec) \ skip
    <3>1. PICK j \in 1 .. Len(new) - 1 : new[j] = Visit(c)
      BY <1>1, <2>4
    <3>2. j \in DOMAIN new /\ new[j].op = "visit" /\ new[j].ptr = c
      BY <1>1, <3>1 DEF Visit
    <3>3. QED
      BY <1>2, <3>2, AddedDue
  <2>5. QED
    BY <1>10, <2>2, <2>3, <2>4, ForwardLess
<1>11. \A m \in DOMAIN new : \A p : Removes(new[m], p) => p = q
  BY <1>1, <1>6 DEF Removes
<1>12. Due(t, q)'
  BY <1>5 DEF Due
<1>13. \A m \in DOMAIN new : new[m].op # "store"
  BY <1>7
<1>14. Current(t).op \notin {"remove", "removeSet", "filter"}
  OBVIOUS
<1>15. QED
  BY <1>1, <1>8, <1>9, <1>10, <1>11, <1>12, <1>13, <1>14, QuietWork

LEMMA VisitWork ==
  ASSUME TypeInv, NEW t \in Threads, Sound(t), Later(t), Work(t), DoVisit(t), Kept(t)'
  PROVE  Work(t)'
<1>0. PICK q : q = Current(t).ptr
  OBVIOUS
<1>1. Running(t) /\ Current(t).op = "visit" /\ q \in Pointers /\ UNCHANGED <<store, gone, fresh>>
  BY <1>0, CurrentIsItem, ItemParts DEF DoVisit, At, Untouched
<1>2. CASE q \in Active(t) \/ ~Exists(store, q)
  <2>1. Continue(t, Rest(t))
    BY <1>0, <1>2 DEF DoVisit
  <2>2. Exists(Old(t), q) => Ends(t, q)
    <3>1. q \in Active(t) => Doomed(t, q)
      BY ActiveDoomed
    <3>2. ~Exists(store, q) /\ Exists(Old(t), q) => q \in gone[t]
      BY <1>1 DEF Work, Whole
    <3>3. QED
      BY <1>2, <3>1, <3>2 DEF Ends
  <2>3. \A r, c, p : Leads(Current(t), r, c, p) => c = q
    BY <1>0, <1>1 DEF Leads
  <2>4. \A r, c, p : RefersByRule(Old(t), r, c, p) => Exists(Old(t), c)
    BY DEF RefersByRule
  <2>5. QED
    BY <1>0, <1>1, <2>1, <2>2, <2>3, <2>4, RestWork
<1>3. CASE q \notin Active(t) /\ Exists(store, q)
  <2>1. PICK new : new = Effects(q, store[q], {}) \o <<RemoveOne(q)>>
    OBVIOUS
  <2>2. Continue(t, Effects(q, store[q], {}) \o <<RemoveOne(q)>> \o Rest(t))
    BY <1>0, <1>3 DEF DoVisit
  <2>3. Continue(t, new \o Rest(t))
    BY <2>1, <2>2
  <2>4. store[q] \in Record /\ RemoveOne(q) \in Item /\ {} \in SUBSET Pointers
    BY <1>1, <1>3, ExistingRecord, PointerItems
  <2>5. RemoveOne(q).op = "remove" /\ RemoveOne(q).ptr = q
    BY DEF RemoveOne
  <2>6. Exists(Old(t), q) /\ Less(t, q, store[q])
    <3>1. store[q] \in Copies(t, q)
      BY <1>3 DEF Copies
    <3>2. QED
      BY <1>1, <3>1 DEF Work, Whole, Less
  <2>7. q \in Goal(t)
    BY <1>0, <1>1, <2>6, CurrentAimed DEF Aimed
  <2>8. QED
    BY <1>0, <1>1, <2>1, <2>3, <2>4, <2>5, <2>6, <2>7, EffectsGoOn
<1>4. QED
  BY <1>2, <1>3

LEMMA EffectsWork ==
  ASSUME TypeInv, NEW t \in Threads, Sound(t), Later(t), Work(t), DoEffects(t), Kept(t)'
  PROVE  Work(t)'
<1>0. PICK q, rec, skip : q = Current(t).ptr /\ rec = Current(t).rec /\ skip = Current(t).skip
  OBVIOUS
<1>1. /\ Running(t) /\ Current(t).op = "effects" /\ UNCHANGED <<store, gone, fresh>>
      /\ q \in Pointers /\ rec \in Record /\ skip \in SUBSET Pointers
  BY <1>0, CurrentIsItem, ItemParts DEF DoEffects, At, Untouched
<1>2. PICK new : new = Effects(q, rec, skip) \o <<Leave(q)>>
  OBVIOUS
<1>3. Continue(t, Effects(q, rec, skip) \o <<Leave(q)>> \o Rest(t))
  BY <1>0 DEF DoEffects
<1>4. Continue(t, new \o Rest(t))
  BY <1>2, <1>3
<1>5. Leave(q) \in Item /\ Leave(q).op = "leave" /\ Leave(q).ptr = q
  BY <1>1, PointerItems DEF Leave
<1>6. q \in Goal(t) /\ Less(t, q, rec)
  BY <1>0, <1>1, CurrentAimed DEF Aimed
<1>7. \A c \in skip \cup {q} : Doomed(t, c)
  <2>1. todo[t][1] = Current(t) /\ 1 \in DOMAIN todo[t]
    BY <1>1, CurrentIsItem
  <2>2. Awaits(todo[t][1]) = skip \cup {q}
    BY <1>0, <1>1, <2>1 DEF Awaits
  <2>3. QED
    BY <2>1, <2>2 DEF Later, Doomed
<1>8. Ends(t, q) /\ \A c \in skip : Doomed(t, c)
  BY <1>7 DEF Ends
<1>9. QED
  BY <1>0, <1>1, <1>2, <1>4, <1>5, <1>6, <1>8, EffectsGoOn

LEMMA LeaveWork ==
  ASSUME TypeInv, NEW t \in Threads, Sound(t), Work(t), DoLeave(t) \/ DoUnindex(t), Kept(t)'
  PROVE  Work(t)'
<1>1. /\ Running(t) /\ Current(t).op \in {"leave", "unindex"} /\ UNCHANGED <<store, gone, fresh>>
      /\ Continue(t, Rest(t))
  BY DEF DoLeave, DoUnindex, At, Untouched
<1>2. \A r, c, p : ~Leads(Current(t), r, c, p)
  BY <1>1 DEF Leads
<1>3. QED
  BY <1>1, <1>2, RestWork

LEMMA IndexWork ==
  ASSUME TypeInv, NEW t \in Threads, Sound(t), Work(t), DoIndex(t), Kept(t)'
  PROVE  Work(t)'
<1>1. /\ Running(t) /\ Current(t).op = "index" /\ UNCHANGED <<store, gone, fresh>>
      /\ Continue(t, Rest(t))
  BY DEF DoIndex, At
<1>2. \A r, c, p : ~Leads(Current(t), r, c, p)
  BY <1>1 DEF Leads
<1>3. QED
  BY <1>1, <1>2, RestWork

(* The records that match are removed together, after their effects.       *)
LEMMA FilterWork ==
  ASSUME TypeInv, NEW t \in Threads, Sound(t), Work(t), DoFilter(t), Kept(t)'
  PROVE  Work(t)'
<1>1. Running(t) /\ Current(t).op = "filter" /\ UNCHANGED <<store, gone, fresh>>
  BY DEF DoFilter, At, Untouched
<1>2. PICK found : found = {p \in Current(t).ptrs : Exists(store, p)}
  OBVIOUS
<1>3. found \in SUBSET Pointers /\ Current(t).ptrs \subseteq Pointers
  BY <1>1, <1>2, CurrentIsItem, ItemParts
<1>4. \A r, c, p : ~Leads(Current(t), r, c, p)
  BY <1>1 DEF Leads
<1>5. \A c \in Current(t).ptrs : Exists(Old(t), c) => c \in found \/ Ends(t, c)
  BY <1>2, <1>3 DEF Work, Whole, Ends
<1>6. \A c \in found : Exists(store, c) /\ Less(t, c, store[c]) /\ c \in Goal(t)
  <2> SUFFICES ASSUME NEW c \in found
               PROVE  Exists(store, c) /\ Less(t, c, store[c]) /\ c \in Goal(t)
    OBVIOUS
  <2>1. Exists(store, c) /\ c \in Pointers /\ c \in Current(t).ptrs
    BY <1>2, <1>3
  <2>2. store[c] \in Copies(t, c)
    BY <2>1 DEF Copies
  <2>3. Less(t, c, store[c])
    BY <2>1, <2>2 DEF Work, Whole
  <2>4. Exists(Old(t), c)
    BY <2>3 DEF Less
  <2>5. c \in Goal(t)
    BY <1>1, <2>1, <2>4, CurrentAimed DEF Aimed
  <2>6. QED
    BY <2>1, <2>3, <2>5
<1>7. CASE found = {}
  <2>1. Continue(t, Rest(t))
    BY <1>2, <1>7 DEF DoFilter
  <2>2. QED
    BY <1>1, <1>4, <1>5, <1>7, <2>1, RestWork
<1>8. CASE found # {}
  <2>1. PICK order : order = SetToSeq(found)
    OBVIOUS
  <2>2. PICK effects : effects = [n \in DOMAIN order |-> ApplyEffects(order[n], store[order[n]], found)]
    OBVIOUS
  <2> DEFINE last == RemoveSet(found)
             one == <<last>>
  <2>3. PICK new : new = effects \o one
    OBVIOUS
  <2>4. Continue(t, effects \o <<RemoveSet(found)>> \o Rest(t))
    BY <1>2, <1>8, <2>1, <2>2 DEF DoFilter
  <2>5. Continue(t, new \o Rest(t))
    BY <2>3, <2>4
  <2>6. last \in Item /\ last.op = "removeSet" /\ last.ptrs = found
    BY <1>3, PointerSetItems DEF RemoveSet
  <2>7. one \in Seq(Item) /\ Len(one) = 1 /\ one[1] = last
    BY <2>6
  <2> HIDE DEF one, last
  <2>8. /\ order \in [1..Cardinality(found) -> found] /\ Cardinality(found) \in Nat
        /\ \A c \in found : \E j \in DOMAIN order : order[j] = c
    BY <1>3, <2>1, PointersFinite, SetToSeqType, SetToSeqOnto
  <2>9. \A n \in DOMAIN order :
          /\ ApplyEffects(order[n], store[order[n]], found) \in Item
          /\ ApplyEffects(order[n], store[order[n]], found).op = "effects"
          /\ ApplyEffects(order[n], store[order[n]], found).ptr = order[n]
          /\ ApplyEffects(order[n], store[order[n]], found).rec = store[order[n]]
    <3>1. \A n \in DOMAIN order : order[n] \in Pointers /\ store[order[n]] \in Record
      BY <1>3, <1>6, <2>8, ExistingRecord
    <3>2. QED
      BY <1>3, <3>1, EffectsItems DEF ApplyEffects
  <2>10. /\ effects \in Seq(Item) /\ DOMAIN effects = DOMAIN order
         /\ \A n \in DOMAIN effects : effects[n].op = "effects" /\ effects[n].ptr = order[n]
                                      /\ effects[n].rec = store[order[n]]
    BY <2>2, <2>8, <2>9
  <2>11. /\ effects \o one \in Seq(Item) /\ Len(effects) \in Nat /\ DOMAIN effects = 1..Len(effects)
         /\ DOMAIN (effects \o one) = 1..(Len(effects) + Len(one))
         /\ \A j \in 1..Len(effects) : (effects \o one)[j] = effects[j]
         /\ \A j \in 1..Len(one) : (effects \o one)[Len(effects) + j] = one[j]
    BY <2>7, <2>10, ItemConcat
  <2>12. /\ new \in Seq(Item) /\ DOMAIN new = 1..(Len(effects) + 1)
         /\ \A j \in 1..Len(effects) : new[j] = effects[j]
         /\ new[Len(effects) + 1] = last
    BY <2>3, <2>7, <2>11
  <2>13. /\ \A m \in DOMAIN new : m # Len(effects) + 1 =>
              /\ m \in DOMAIN effects /\ order[m] \in found
              /\ new[m].op = "effects" /\ new[m].ptr = order[m] /\ new[m].rec = store[order[m]]
         /\ Len(effects) + 1 \in DOMAIN new
    <3>1. \A m \in DOMAIN new : m # Len(effects) + 1 => m \in DOMAIN effects /\ new[m] = effects[m]
      BY <2>11, <2>12
    <3>2. \A m \in DOMAIN effects : order[m] \in found
      BY <2>8, <2>10
    <3>3. Len(effects) + 1 \in DOMAIN new
      BY <2>11, <2>12
    <3>4. QED
      BY <2>10, <3>1, <3>2, <3>3
  <2>14. Goes(t, new)
    BY <1>1, <2>5, <2>12 DEF Goes, Removes
  <2>15. Goal(t)' = Goal(t) /\ Old(t)' = Old(t)
    BY SameGoal, <2>5 DEF Continue
  <2>16. ASSUME NEW i \in Item, Has(new, i)
         PROVE  Aimed(t, i)'
    <3>1. PICK m \in DOMAIN new : new[m] = i
      BY <2>16 DEF Has
    <3>2. CASE m = Len(effects) + 1
      BY <1>6, <2>6, <2>12, <2>15, <3>1, <3>2 DEF Aimed
    <3>3. CASE m # Len(effects) + 1
      <4>1. i.op = "effects" /\ i.ptr \in found /\ i.rec = store[i.ptr]
        BY <2>13, <3>1, <3>3
      <4>2. Less(t, i.ptr, i.rec)' /\ i.ptr \in Goal(t)
        BY <1>3, <1>6, <2>14, <4>1, LessSplice
      <4>3. QED
        BY <2>15, <4>1, <4>2 DEF Aimed
    <3>4. QED
      BY <3>2, <3>3
  <2>17. \A c \in found : Due(t, c)'
    <3> SUFFICES ASSUME NEW c \in found
                 PROVE  Due(t, c)'
      OBVIOUS
    <3>1. Removes(new[Len(effects) + 1], c)
      BY <2>6, <2>12 DEF Removes
    <3>2. QED
      BY <2>13, <2>14, <3>1, AddedDoomed DEF Due
  <2>18. \A c \in Pointers : Exists(Old(t), c) /\ c \in Current(t).ptrs => Due(t, c)'
    BY <1>5, <2>14, <2>17, EndsSplice DEF Due
  <2>19. \A m \in DOMAIN new : \A p : ~Nulls(new[m], p) /\ new[m].op # "store"
    BY <2>6, <2>12, <2>13 DEF Nulls
  <2>20. ASSUME NEW p, NEW m \in DOMAIN new, Removes(new[m], p)
         PROVE  \E l \in DOMAIN new : new[l].op = "effects" /\ new[l].ptr = p
    <3>1. m = Len(effects) + 1
      BY <2>13, <2>20 DEF Removes
    <3>2. p \in found
      BY <2>6, <2>12, <2>20, <3>1 DEF Removes
    <3>3. PICK j \in DOMAIN order : order[j] = p
      BY <2>8, <3>2
    <3>4. j \in DOMAIN new /\ new[j] = effects[j]
      BY <2>10, <2>11, <2>12, <3>3
    <3>5. QED
      BY <2>10, <3>3, <3>4
  <2>21. Current(t).op \notin {"remove", "removeSet", "visit", "effects"}
    BY <1>1
  <2>22. \A p \in Pointers :
           /\ Exists(Old(t), p)
           /\ \/ Current(t).op = "effects" /\ Current(t).ptr = p
              \/ \E m \in DOMAIN new : Removes(new[m], p)
           => \E m \in DOMAIN new : new[m].op = "effects" /\ new[m].ptr = p
    BY <2>20, <2>21
  <2>23. QED
    BY <1>1, <1>4, <2>5, <2>12, <2>16, <2>18, <2>19, <2>21, <2>22, QuietWork
<1>9. QED
  BY <1>7, <1>8

(* A cascade that has not been followed shows in the record it comes from. *)
LEMMA StillRefers ==
  ASSUME TypeInv, NEW t \in Threads, Sound(t), Work(t),
         NEW p \in Pointers, NEW c \in Pointers, NEW r \in RulesOf(DrawerOf[p], "Cascade"),
         RefersByRule(Old(t), r, c, p), ~Ends(t, c)
  PROVE  Exists(store, c) /\ Refers(store[c], r, c, p)
<1>1. r \in Rules /\ r.of = DrawerOf[p] /\ r.field \in Fields
  BY RulesAssumption DEF RulesOf, Rule
<1>2. /\ Exists(Old(t), c) /\ DrawerOf[c] = r.target /\ Tracked(r.target, r.field)
      /\ p \in Old(t)[c][r.field]
  BY DEF RefersByRule
<1>3. Exists(store, c)
  BY <1>2 DEF Work, Whole, Ends
<1>4. Less(t, c, store[c])
  <2>1. store[c] \in Copies(t, c)
    BY <1>3 DEF Copies
  <2>2. QED
    BY <2>1 DEF Work, Whole
<1>5. ~Taken(t, c, r.field, p)
  BY <1>2 DEF Taken
<1>6. p \in store[c][r.field]
  BY <1>1, <1>2, <1>4, <1>5 DEF Less
<1>7. QED
  BY <1>1, <1>2, <1>3, <1>6 DEF Refers

(* References to a record are taken only from what is cascaded to it, if   *)
(* a cascade goes there.                                                   *)
LEMMA NullsLast ==
  ASSUME TypeInv, NEW t \in Threads, Running(t), Work(t),
         NEW p \in Pointers, NEW c \in Pointers, NEW r \in RulesOf(DrawerOf[p], "Cascade"),
         RefersByRule(Old(t), r, c, p), Nulls(Current(t), p)
  PROVE  Ends(t, c)
<1>1. todo[t][1] = Current(t) /\ 1 \in DOMAIN todo[t]
  BY CurrentIsItem
<1>2. Ends(t, c) \/ \E j \in 1 .. 1 - 1 : Leads(todo[t][j], r, c, p)
  BY <1>1 DEF Work, CascadesFirst
<1>3. QED
  BY <1>2

LEMMA LookupWork ==
  ASSUME TypeInv, IndexExact, NEW t \in Threads, Known(t), Sound(t), Work(t), DoLookup(t), Kept(t)'
  PROVE  Work(t)'
<1>0. PICK q, s, skip : q = Current(t).ptr /\ s = Current(t).rule /\ skip = Current(t).skip
  OBVIOUS
<1>1. /\ Running(t) /\ Current(t).op = "lookup" /\ UNCHANGED <<store, gone, fresh>>
      /\ q \in Pointers /\ s \in Rules /\ skip \in SUBSET Pointers
  BY <1>0, CurrentIsItem, ItemParts DEF DoLookup, At, Untouched
<1>2. q \in Goal(t) /\ Ends(t, q) /\ s.of = DrawerOf[q]
  BY <1>0, <1>1, CurrentAimed DEF Aimed
<1>3. PICK ids : ids = {e.child : e \in {e \in refs : /\ e.parent = q
                                                     /\ DrawerOf[e.child] = s.target
                                                     /\ e.field = s.field}}
  OBVIOUS
<1>4. ids \in SUBSET Pointers /\ \A c \in ids : DrawerOf[c] = s.target /\ Tracked(s.target, s.field)
  BY <1>3 DEF TypeInv, TypeOK, Entry
<1>5. Quiet(t) /\ fresh[t] = {}
  BY <1>1 DEF Quiet, At, Work, Alone
<1>6. ASSUME NEW p \in Pointers, NEW c \in Pointers, NEW r \in RulesOf(DrawerOf[p], "Cascade"),
             RefersByRule(Old(t), r, c, p), Leads(Current(t), r, c, p), ~Ends(t, c)
      PROVE  p = q /\ r = s /\ c \in ids
  <2>1. p = q /\ r = s
    BY <1>0, <1>1, <1>6 DEF Leads
  <2>2. Exists(store, c) /\ Refers(store[c], s, c, q)
    BY <1>6, <2>1, StillRefers
  <2>3. PICK e \in refs : e.parent = q /\ e.child = c /\ e.field = s.field
    BY <1>1, <1>5, <2>2, IndexLeads
  <2>4. DrawerOf[e.child] = s.target
    BY <2>2, <2>3 DEF Refers
  <2>5. QED
    BY <1>3, <2>1, <2>3, <2>4
<1>7. CASE ids = {}
  <2>1. Continue(t, Rest(t))
    BY <1>0, <1>3, <1>7 DEF DoLookup
  <2>2. \A p \in Pointers, c \in Pointers : \A r \in RulesOf(DrawerOf[p], "Cascade") :
          RefersByRule(Old(t), r, c, p) /\ Leads(Current(t), r, c, p) => Ends(t, c)
    BY <1>6, <1>7
  <2>3. Current(t).op \notin {"remove", "removeSet", "effects", "visit", "filter"}
    BY <1>1
  <2>4. QED
    BY <1>1, <2>1, <2>2, <2>3, RestWork
<1>8. CASE ids # {}
  <2> DEFINE next == Fetch(s, q, skip, ids)
  <2>1. PICK new : new = <<next>>
    OBVIOUS
  <2>2. Continue(t, new \o Rest(t))
    BY <1>0, <1>3, <1>8, <2>1 DEF DoLookup
  <2>3. /\ next \in Item /\ next.op = "fetch" /\ next.ptr = q /\ next.rule = s
        /\ next.skip = skip /\ next.ids = ids
    BY <1>1, <1>4, RuleItems DEF Fetch
  <2> HIDE DEF next
  <2>4. new \in Seq(Item) /\ DOMAIN new = {1} /\ new[1] = next
    BY <2>1, <2>3
  <2>5. Goes(t, new)
    BY <1>1, <2>2, <2>4 DEF Goes, Removes
  <2>6. Goal(t)' = Goal(t) /\ Old(t)' = Old(t)
    BY SameGoal, <2>2 DEF Continue
  <2>7. \A c \in Pointers : Exists(Old(t), c) /\ Ends(t, c) => Ends(t, c)'
    BY <2>5, EndsSplice
  <2>8. Exists(Old(t), q)
    BY <1>2, GoalOf
  <2>9. ASSUME NEW i \in Item, Has(new, i)
        PROVE  Aimed(t, i)'
    <3>1. i = next
      BY <2>4, <2>9 DEF Has
    <3>2. Ends(t, q)'
      BY <1>1, <1>2, <2>7, <2>8
    <3>3. QED
      BY <1>2, <1>4, <2>3, <2>6, <3>1, <3>2 DEF Aimed
  <2>10. ASSUME NEW p \in Pointers, NEW c \in Pointers, NEW r \in RulesOf(DrawerOf[p], "Cascade"),
                RefersByRule(Old(t), r, c, p)
         PROVE  /\ Leads(Current(t), r, c, p) =>
                     Ends(t, c)' \/ \E j \in DOMAIN new : Leads(new[j], r, c, p)
                /\ \A m \in DOMAIN new : Nulls(new[m], p) =>
                     Ends(t, c)' \/ \E j \in 1 .. m - 1 : Leads(new[j], r, c, p)
    <3>1. Ends(t, c) => Ends(t, c)'
      BY <2>7, <2>10 DEF RefersByRule
    <3>2. ASSUME Leads(Current(t), r, c, p), ~Ends(t, c)
          PROVE  \E j \in DOMAIN new : Leads(new[j], r, c, p)
      <4>1. p = q /\ r = s /\ c \in ids
        BY <1>6, <2>10, <3>2
      <4>2. Leads(new[1], r, c, p)
        BY <2>3, <2>4, <4>1 DEF Leads
      <4>3. QED
        BY <2>4, <4>2
    <3>3. ASSUME NEW m \in DOMAIN new, Nulls(new[m], p)
          PROVE  Ends(t, c)
      <4>1. Nulls(Current(t), p)
        BY <1>0, <1>1, <2>3, <2>4, <3>3 DEF Nulls
      <4>2. QED
        BY <1>1, <2>10, <4>1, NullsLast
    <3>4. QED
      BY <3>1, <3>2, <3>3
  <2>11. \A m \in DOMAIN new : new[m].op = "fetch" /\ \A p : ~Removes(new[m], p)
    BY <2>3, <2>4 DEF Removes
  <2>12. Current(t).op \notin {"remove", "removeSet", "effects", "visit", "filter"}
    BY <1>1
  <2>13. \A m \in DOMAIN new : new[m].op # "store"
    BY <2>11
  <2>14. QED
    BY <1>1, <2>2, <2>4, <2>9, <2>10, <2>11, <2>12, <2>13, QuietWork
<1>9. QED
  BY <1>7, <1>8

(* Clearing takes one reference of one field, or none.                     *)
LEMMA ClearedParts ==
  ASSUME NEW rec \in Record, NEW f \in Fields, NEW q
  PROVE  /\ Cleared(rec, f, q) \in Record
         /\ \A g \in Fields : /\ Cleared(rec, f, q)[g] \subseteq rec[g]
                              /\ \A p \in rec[g] \ Cleared(rec, f, q)[g] : g = f /\ p = q
BY DEF Cleared, Record

(* A fetch visits what refers to a record by a cascade, and takes the      *)
(* references of a set-null rule.                                          *)
LEMMA FetchWork ==
  ASSUME TypeInv, NEW t \in Threads, Sound(t), Later(t), Work(t), DoFetch(t), Kept(t)',
         outcome'[t] # "refused"
  PROVE  Work(t)'
<1>0. PICK q, s, skip : q = Current(t).ptr /\ s = Current(t).rule /\ skip = Current(t).skip
  OBVIOUS
<1>1. /\ Running(t) /\ Current(t).op = "fetch"
      /\ q \in Pointers /\ s \in Rules /\ skip \in SUBSET Pointers
      /\ Current(t).ids \subseteq Pointers
  BY <1>0, CurrentIsItem, ItemParts DEF DoFetch, At
<1>2. Current(t).op \notin {"remove", "removeSet", "effects", "visit", "filter"}
  BY <1>1
<1>3. /\ q \in Goal(t) /\ Ends(t, q) /\ s.of = DrawerOf[q]
      /\ \A c \in Current(t).ids : DrawerOf[c] = s.target /\ Tracked(s.target, s.field)
  BY <1>0, <1>1, CurrentAimed DEF Aimed
<1>4. PICK found : found = {c \in Current(t).ids : Exists(store, c) /\ q \in store[c][s.field]}
  OBVIOUS
<1>5. found \in SUBSET Pointers /\ s.field \in Fields
  BY <1>1, <1>4, RulesAssumption DEF Rule
<1>6. \A c \in found : /\ Exists(store, c) /\ store[c] \in Record
                       /\ Less(t, c, store[c]) /\ c \notin gone[t] /\ RefersByRule(Old(t), s, c, q)
  <2> SUFFICES ASSUME NEW c \in found
               PROVE  /\ Exists(store, c) /\ store[c] \in Record
                      /\ Less(t, c, store[c]) /\ c \notin gone[t] /\ RefersByRule(Old(t), s, c, q)
    OBVIOUS
  <2>1. /\ Exists(store, c) /\ c \in Pointers /\ q \in store[c][s.field]
        /\ DrawerOf[c] = s.target /\ Tracked(s.target, s.field)
    BY <1>3, <1>4, <1>5
  <2>2. store[c] \in Copies(t, c)
    BY <2>1 DEF Copies
  <2>3. Less(t, c, store[c]) /\ c \notin gone[t]
    BY <2>1, <2>2 DEF Work, Whole
  <2>4. Exists(Old(t), c) /\ q \in Old(t)[c][s.field]
    BY <1>5, <2>1, <2>3 DEF Less
  <2>5. store[c] \in Record
    BY <2>1, ExistingRecord
  <2>6. QED
    BY <2>1, <2>3, <2>4, <2>5 DEF RefersByRule
<1>7. ASSUME NEW p \in Pointers, NEW c \in Pointers, NEW r \in RulesOf(DrawerOf[p], "Cascade"),
             RefersByRule(Old(t), r, c, p), Leads(Current(t), r, c, p), ~Ends(t, c)
      PROVE  p = q /\ r = s /\ c \in found
  <2>1. p = q /\ r = s /\ c \in Current(t).ids
    BY <1>0, <1>1, <1>7 DEF Leads
  <2>2. Exists(store, c) /\ Refers(store[c], s, c, q)
    BY <1>7, <2>1, StillRefers
  <2>3. QED
    BY <1>4, <2>1, <2>2 DEF Refers
<1>8. CASE found = {} /\ Continue(t, Rest(t)) /\ Untouched
  <2>1. UNCHANGED <<store, gone, fresh>>
    BY <1>8 DEF Untouched
  <2>2. \A p \in Pointers, c \in Pointers : \A r \in RulesOf(DrawerOf[p], "Cascade") :
          RefersByRule(Old(t), r, c, p) /\ Leads(Current(t), r, c, p) => Ends(t, c)
    BY <1>7, <1>8
  <2>3. QED
    BY <1>1, <1>2, <1>8, <2>1, <2>2, RestWork
<1>9. CASE s.action = "Cascade" /\ Continue(t, VisitAll(found \ skip) \o Rest(t)) /\ Untouched
  <2>1. PICK new : new = VisitAll(found \ skip)
    OBVIOUS
  <2>2. /\ new \in Seq(Item) /\ \A m \in DOMAIN new : new[m].op = "visit" /\ new[m].ptr \in found
        /\ \A c \in found \ skip : Has(new, Visit(c))
    <3> DEFINE order == SetToSeq(found \ skip)
    <3>1. found \ skip \in SUBSET Pointers
      BY <1>5
    <3>2. VisitAll(found \ skip) \in Seq(VisitOrLookup)
      BY <3>1, VisitsType
    <3>3. VisitAll(found \ skip) \in Seq(Item)
      BY <3>2 DEF VisitOrLookup
    <3>4. order \in [1..Cardinality(found \ skip) -> found \ skip]
      BY <3>1, PointersFinite, SetToSeqType
    <3>5. new = [j \in DOMAIN order |-> Visit(order[j])]
      BY <2>1 DEF VisitAll
    <3> HIDE DEF order
    <3>6. \A m \in DOMAIN new : new[m].op = "visit" /\ new[m].ptr \in found
      BY <3>4, <3>5 DEF Visit
    <3>7. QED
      BY <2>1, <3>1, <3>3, <3>6, VisitsAll
  <2>3. Continue(t, new \o Rest(t)) /\ UNCHANGED <<store, gone, fresh>>
    BY <1>9, <2>1 DEF Untouched
  <2>4. Goes(t, new)
    BY <1>1, <2>2, <2>3 DEF Goes, Removes
  <2>5. Goal(t)' = Goal(t) /\ Old(t)' = Old(t)
    BY SameGoal, <2>3 DEF Continue
  <2>6. \A m \in DOMAIN new : new[m].op # "store" /\ \A p : ~Nulls(new[m], p) /\ ~Removes(new[m], p)
    BY <2>2 DEF Nulls, Removes
  <2>7. s \in RulesOf(DrawerOf[q], "Cascade")
    BY <1>1, <1>3, <1>9 DEF RulesOf
  <2>8. ASSUME NEW i \in Item, Has(new, i)
        PROVE  Aimed(t, i)'
    <3>1. i.op = "visit" /\ i.ptr \in found
      BY <2>2, <2>8 DEF Has
    <3>2. i.ptr \in Pointers /\ Exists(Old(t), i.ptr) /\ Follows(Old(t), i.ptr, q)
      BY <1>5, <1>6, <2>7, <3>1 DEF Follows, RefersByRule
    <3>3. i.ptr \in Goal(t)
      BY <1>3, <3>2, GoalOf
    <3>4. QED
      BY <2>5, <3>1, <3>3 DEF Aimed
  <2>9. \A c \in skip : Ends(t, c)
    <3>1. 1 \in DOMAIN todo[t] /\ todo[t][1] = Current(t)
      BY <1>1, CurrentIsItem
    <3>2. Awaits(Current(t)) = skip
      BY <1>0, <1>1 DEF Awaits
    <3>3. QED
      BY <3>1, <3>2 DEF Later, Doomed, Ends
  <2>10. ASSUME NEW p \in Pointers, NEW c \in Pointers, NEW r \in RulesOf(DrawerOf[p], "Cascade"),
                RefersByRule(Old(t), r, c, p), Leads(Current(t), r, c, p)
         PROVE  Ends(t, c)' \/ \E j \in DOMAIN new : Leads(new[j], r, c, p)
    <3>1. CASE Ends(t, c)
      BY <2>4, <2>10, <3>1, EndsSplice DEF RefersByRule
    <3>2. CASE ~Ends(t, c)
      <4>1. c \in found \ skip
        BY <1>7, <2>9, <2>10, <3>2
      <4>2. PICK j \in DOMAIN new : new[j] = Visit(c)
        BY <2>2, <4>1 DEF Has
      <4>3. Leads(new[j], r, c, p)
        BY <4>2 DEF Leads, Visit
      <4>4. QED
        BY <4>3
    <3>3. QED
      BY <3>1, <3>2
  <2>11. QED
    BY <1>1, <1>2, <2>2, <2>3, <2>6, <2>8, <2>10, QuietWork
<1>10. ASSUME s.action = "SetNull", NEW order, order = SetToSeq(found), NEW new,
              new = [k \in DOMAIN order |->
                       StoreRecords(OneRecord(order[k], Cleared(store[order[k]], s.field, q)))],
              Continue(t, new \o Rest(t)), Untouched
       PROVE  Work(t)'
  <2>1. /\ order \in [1..Cardinality(found) -> found] /\ Cardinality(found) \in Nat
    BY <1>5, <1>10, PointersFinite, SetToSeqType
  <2>2. \A k \in DOMAIN order : order[k] \in found
    BY <2>1
  <2>3. /\ DOMAIN new = DOMAIN order
        /\ \A k \in DOMAIN new : new[k].op = "store"
             /\ new[k].recs = OneRecord(order[k], Cleared(store[order[k]], s.field, q))
    BY <1>10 DEF StoreRecords
  <2>4. new \in Seq(Item)
    <3>1. \A k \in DOMAIN order :
            StoreRecords(OneRecord(order[k], Cleared(store[order[k]], s.field, q))) \in Item
      <4> SUFFICES ASSUME NEW k \in DOMAIN order
                   PROVE  StoreRecords(OneRecord(order[k], Cleared(store[order[k]], s.field, q))) \in Item
        OBVIOUS
      <4>1. order[k] \in Pointers /\ store[order[k]] \in Record
        BY <1>5, <1>6, <2>2
      <4>2. Cleared(store[order[k]], s.field, q) \in Record
        BY <1>5, <4>1, ClearedParts
      <4>3. QED
        BY <4>1, <4>2, OneRecordBatch, BatchItems
    <3>2. QED
      BY <1>10, <2>1, <3>1
  <2>5. UNCHANGED <<store, gone, fresh>>
    BY <1>10 DEF Untouched
  <2>6. Goes(t, new)
    BY <1>1, <1>10, <2>4, <2>5 DEF Goes, Removes
  <2>7. Old(t)' = Old(t)
    BY <1>10, SameGoal DEF Continue
  <2>8. Nulls(Current(t), q)
    BY <1>0, <1>1, <1>10 DEF Nulls
  <2>9. ASSUME NEW c \in found, NEW rec, rec = Cleared(store[c], s.field, q)
        PROVE  Less(t, c, rec)'
    <3>1. c \in Pointers /\ store[c] \in Record /\ Less(t, c, store[c]) /\ RefersByRule(Old(t), s, c, q)
      BY <1>5, <1>6
    <3>2. s \in RulesOf(DrawerOf[q], "SetNull") /\ DrawerOf[c] = s.target /\ Tracked(s.target, s.field)
      BY <1>1, <1>3, <1>10, <3>1 DEF RulesOf, RefersByRule
    <3>3. \A r \in RulesOf(DrawerOf[q], "Cascade") :
            r.target = DrawerOf[c] /\ r.field = s.field => Ends(t, c)
      <4> SUFFICES ASSUME NEW r \in RulesOf(DrawerOf[q], "Cascade"), r.target = DrawerOf[c], r.field = s.field
                   PROVE  Ends(t, c)
        OBVIOUS
      <4>1. RefersByRule(Old(t), r, c, q)
        BY <3>1, <3>2 DEF RefersByRule
      <4>2. QED
        BY <1>1, <2>8, <3>1, <4>1, NullsLast
    <3>4. Taken(t, c, s.field, q)
      BY <1>3, <3>2, <3>3 DEF Taken
    <3>5. Less(t, c, rec)
      <4>1. \A g \in Fields :
              /\ rec[g] \subseteq store[c][g]
              /\ \A p \in store[c][g] \ rec[g] : g = s.field /\ p = q
        BY <1>5, <2>9, <3>1, ClearedParts
      <4>2. QED
        BY <3>1, <3>4, <4>1 DEF Less
    <3>6. QED
      BY <2>6, <3>1, <3>5, LessSplice
  <2>10. ASSUME NEW c \in Pointers, NEW m \in DOMAIN new, c \in DOMAIN new[m].recs
         PROVE  Less(t, c, new[m].recs[c])' /\ c \notin gone[t]
    <3>1. order[m] \in found /\ new[m].recs = OneRecord(order[m], Cleared(store[order[m]], s.field, q))
      BY <2>2, <2>3
    <3>2. PICK d, rec : d = order[m] /\ rec = Cleared(store[order[m]], s.field, q)
      OBVIOUS
    <3>3. d \in found /\ rec = Cleared(store[d], s.field, q) /\ new[m].recs = OneRecord(d, rec)
      BY <3>1, <3>2
    <3>4. c = d /\ new[m].recs[c] = rec
      <4>1. PICK one : one = new[m].recs
        OBVIOUS
      <4>2. one = [x \in {d} |-> rec]
        BY <3>3, <4>1 DEF OneRecord
      <4>3. DOMAIN one = {d} /\ one[d] = rec
        BY <4>2
      <4>4. c \in DOMAIN one
        BY <2>10, <4>1
      <4>5. QED
        BY <4>1, <4>3, <4>4
    <3>5. Less(t, d, rec)'
      BY <2>9, <3>3
    <3>6. QED
      BY <1>6, <3>3, <3>4, <3>5
  <2>11. ASSUME NEW i \in Item, Has(new, i)
         PROVE  Aimed(t, i)'
    <3>1. i.op = "store"
      BY <2>3, <2>11 DEF Has
    <3>2. QED
      BY <3>1 DEF Aimed
  <2>12. \A m \in DOMAIN new : \A p : ~Nulls(new[m], p) /\ ~Removes(new[m], p)
    BY <2>3 DEF Nulls, Removes
  <2>13. \A p : \A r \in RulesOf(DrawerOf[p], "Cascade") : \A c : ~Leads(Current(t), r, c, p)
    BY <1>0, <1>1, <1>10 DEF RulesOf, Leads
  <2>14. QED
    BY <1>1, <1>2, <1>10, <2>4, <2>5, <2>10, <2>11, <2>12, <2>13, QuietWork
<1>11. ~Refuse(t)
  BY DEF Refuse, TypeInv, TypeOK
<1>12. PICK order : order = SetToSeq(found)
  OBVIOUS
<1>13. PICK new : new = [k \in DOMAIN order |->
                           StoreRecords(OneRecord(order[k], Cleared(store[order[k]], s.field, q)))]
  OBVIOUS
<1>14. \/ s.action = "Restrict" /\ IF found = {} THEN Continue(t, Rest(t)) /\ Untouched ELSE Refuse(t)
       \/ s.action = "Cascade" /\ Continue(t, VisitAll(found \ skip) \o Rest(t)) /\ Untouched
       \/ s.action = "SetNull" /\ Continue(t, new \o Rest(t)) /\ Untouched
  BY <1>0, <1>4, <1>12, <1>13 DEF DoFetch
<1>15. QED
  BY <1>8, <1>9, <1>10, <1>11, <1>12, <1>13, <1>14

(* A write puts a record in the drawer that was ready to be written.       *)
LEMMA StoreWork ==
  ASSUME TypeInv, NEW t \in Threads, Sound(t), Work(t), DoStore(t), Kept(t)', outcome'[t] # "refused"
  PROVE  Work(t)'
<1>0. PICK recs : recs = Current(t).recs
  OBVIOUS
<1>1. Running(t) /\ Current(t).op = "store" /\ Batch(recs)
  BY <1>0, CurrentIsItem, ItemParts DEF DoStore, At, Batch
<1>2. ~Refuse(t)
  BY DEF Refuse, TypeInv, TypeOK
<1>3. PICK new : new = <<IndexRecords(recs)>>
  OBVIOUS
<1>4. /\ store' = [p \in Pointers |-> IF p \in DOMAIN recs THEN recs[p] ELSE store[p]]
      /\ Touch(t, DOMAIN recs, TRUE) /\ Continue(t, new \o Rest(t)) /\ UNCHANGED gone
  BY <1>0, <1>2, <1>3 DEF DoStore
<1>5. new \in Seq(Item) /\ DOMAIN new = {1} /\ new[1].op = "index"
  BY <1>1, <1>3, BatchItems DEF IndexRecords
<1>6. \A m \in DOMAIN new : new[m].op = "index"
  BY <1>5
<1>7. Goes(t, new)
  BY <1>1, <1>4, <1>5 DEF Goes, Removes
<1>8. Old(t)' = Old(t) /\ Goal(t)' = Goal(t)
  BY <1>4, SameGoal DEF Continue
<1>9. fresh'[t] \subseteq fresh[t]
  <2>1. PendingOfOthers(t) = {}
    BY DEF PendingOfOthers, Pending, At, Work, Alone
  <2>2. fresh'[t] = fresh[t] \cup (DOMAIN recs \cap PendingOfOthers(t))
    BY <1>4 DEF Touch
  <2>3. QED
    BY <2>1, <2>2
<1>10. Alone(t)'
  BY <1>7, <1>9, AloneSplice DEF Work
<1>11. \A c \in DOMAIN recs : c \in Pointers /\ recs[c] \in Record /\ recs[c] \in Copies(t, c)
  <2>1. todo[t][1] = Current(t) /\ 1 \in DOMAIN todo[t]
    BY <1>1, CurrentIsItem
  <2>2. \A c \in DOMAIN recs : recs[c] \in Written(t, c)
    BY <1>0, <1>1, <2>1 DEF Written
  <2>3. QED
    BY <1>1, <2>2 DEF Copies, Batch
<1>12. \A c \in DOMAIN recs : Less(t, c, recs[c]) /\ c \notin gone[t]
  BY <1>11 DEF Work, Whole
<1>13. ASSUME NEW c \in Pointers
       PROVE  Exists(store', c) <=> Exists(Old(t), c) /\ c \notin gone[t]
  <2>1. CASE c \in DOMAIN recs
    <3>1. store'[c] = recs[c] /\ recs[c] # Absent
      BY <1>4, <1>11, <2>1, RecordsAssumption
    <3>2. QED
      BY <1>12, <2>1, <3>1 DEF Exists, Less
  <2>2. CASE c \notin DOMAIN recs
    BY <1>4, <2>2 DEF Exists, Work, Whole
  <2>3. QED
    BY <2>1, <2>2
<1>14. ASSUME NEW c \in Pointers, NEW rec \in Copies(t, c)'
       PROVE  Less(t, c, rec)' /\ c \notin gone[t]
  <2>1. Written(t, c)' \subseteq Written(t, c)
    <3>1. Written(t, c)' \subseteq Written(t, c) \cup
            {new[m].recs[c] : m \in {l \in DOMAIN new : new[l].op = "store" /\ c \in DOMAIN new[l].recs}}
      BY <1>1, <1>4, <1>5, WrittenSplice
    <3>2. QED
      BY <1>6, <3>1
  <2>2. rec \in Copies(t, c)
    <3>1. CASE rec \in Written(t, c)'
      BY <2>1, <3>1 DEF Copies
    <3>2. CASE Exists(store', c) /\ rec = store'[c]
      <4>1. CASE c \in DOMAIN recs
        <5>1. store'[c] = recs[c]
          BY <1>4, <4>1
        <5>2. QED
          BY <1>11, <3>2, <4>1, <5>1
      <4>2. CASE c \notin DOMAIN recs
        <5>1. store'[c] = store[c]
          BY <1>4, <4>2
        <5>2. QED
          BY <3>2, <5>1 DEF Copies, Exists
      <4>3. QED
        BY <4>1, <4>2
    <3>3. QED
      BY <1>14, <3>1, <3>2 DEF Copies
  <2>3. QED
    BY <1>7, <2>2, LessSplice DEF Work, Whole
<1>15. Whole(t)'
  <2>1. gone'[t] \subseteq Goal(t)'
    BY <1>4, <1>8 DEF Work, Whole
  <2>2. QED
    BY <1>4, <1>8, <1>13, <1>14, <2>1 DEF Whole
<1>16. \A i \in Item : Has(new, i) => Aimed(t, i)'
  BY <1>6 DEF Has, Aimed
<1>17. \A m \in DOMAIN new : \A p : ~Nulls(new[m], p) /\ ~Removes(new[m], p)
  BY <1>6 DEF Nulls, Removes
<1>18. Current(t).op \notin {"visit", "filter", "effects"} /\ \A r, c, p : ~Leads(Current(t), r, c, p)
  BY <1>1 DEF Leads
<1>19. Fronted(t)'
  BY DEF Kept
<1>20. QED
  BY <1>7, <1>10, <1>15, <1>16, <1>17, <1>18, <1>19, WorkSplice

(* A removal takes only what has to be removed.                            *)
LEMMA EraseWork ==
  ASSUME TypeInv, NEW t \in Threads, Running(t), Sound(t), Work(t), Kept(t)',
         NEW ps \in SUBSET Pointers, Erase(t, ps), Current(t).op \in {"remove", "removeSet"},
         \A p : Removes(Current(t), p) <=> p \in ps
  PROVE  Work(t)'
<1>1. PICK found : found = {p \in ps : Exists(store, p)}
  OBVIOUS
<1>2. PICK new : new = IF found = {} THEN <<>> ELSE <<Unindex(ps)>>
  OBVIOUS
<1>3. /\ store' = [p \in Pointers |-> IF p \in ps THEN Absent ELSE store[p]]
      /\ gone'[t] = gone[t] \cup found
      /\ Touch(t, found, FALSE)
      /\ Continue(t, new \o Rest(t))
  BY <1>1, <1>2 DEF Erase, TypeInv, TypeOK
<1>4. Unindex(ps) \in Item /\ Unindex(ps).op = "unindex"
  BY PointerSetItems DEF Unindex
<1>5. new \in Seq(Item) /\ \A m \in DOMAIN new : new[m].op = "unindex"
  BY <1>2, <1>4
<1>6. \A c \in ps : Exists(Old(t), c) => c \in gone'[t]
  BY <1>1, <1>3 DEF Work, Whole
<1>7. Goes(t, new)
  BY <1>1, <1>3, <1>5, <1>6 DEF Goes
<1>8. Old(t)' = Old(t) /\ Goal(t)' = Goal(t)
  BY <1>3, SameGoal DEF Continue
<1>9. fresh'[t] \subseteq fresh[t]
  <2>1. PendingOfOthers(t) = {}
    BY DEF PendingOfOthers, Pending, At, Work, Alone
  <2>2. fresh'[t] = fresh[t] \cup (found \cap PendingOfOthers(t))
    BY <1>3 DEF Touch
  <2>3. QED
    BY <2>1, <2>2
<1>10. Alone(t)'
  BY <1>7, <1>9, AloneSplice DEF Work
<1>11. ps \subseteq Goal(t)
  BY CurrentAimed DEF Aimed, Removes
<1>12. \A c \in Pointers : Exists(store', c) <=> Exists(Old(t), c) /\ c \notin gone'[t]
  BY <1>1, <1>3, <1>6 DEF Exists, Work, Whole
<1>13. \A c : Written(t, c)' = {}
  <2>1. \A k \in DOMAIN todo[t] : todo[t][k].op # "store"
    BY NoStores DEF Work
  <2>2. \A c : Written(t, c) = {}
    BY <2>1 DEF Written
  <2>3. \A c : Written(t, c)' \subseteq Written(t, c) \cup
           {new[m].recs[c] : m \in {l \in DOMAIN new : new[l].op = "store" /\ c \in DOMAIN new[l].recs}}
    BY <1>3, <1>5, WrittenSplice
  <2>4. QED
    BY <1>5, <2>2, <2>3
<1>14. ASSUME NEW c \in Pointers, NEW rec \in Copies(t, c)'
       PROVE  Less(t, c, rec)' /\ c \notin gone'[t]
  <2>1. Exists(store', c) /\ rec = store'[c]
    BY <1>13, <1>14 DEF Copies
  <2>2. c \notin ps /\ store'[c] = store[c]
    BY <1>3, <2>1 DEF Exists
  <2>3. rec \in Copies(t, c)
    BY <2>1, <2>2 DEF Copies, Exists
  <2>4. QED
    BY <1>7, <1>12, <2>1, <2>3, LessSplice DEF Work, Whole
<1>15. Whole(t)'
  <2>1. gone'[t] \subseteq Goal(t)'
    BY <1>1, <1>3, <1>8, <1>11 DEF Work, Whole
  <2>2. QED
    BY <1>8, <1>12, <1>14, <2>1 DEF Whole
<1>16. \A i \in Item : Has(new, i) => Aimed(t, i)'
  BY <1>5 DEF Has, Aimed
<1>17. \A m \in DOMAIN new : \A p : ~Nulls(new[m], p) /\ ~Removes(new[m], p)
  BY <1>5 DEF Nulls, Removes
<1>18. Current(t).op \notin {"visit", "filter", "effects"} /\ \A r, c, p : ~Leads(Current(t), r, c, p)
  BY DEF Leads
<1>19. Fronted(t)'
  BY DEF Kept
<1>20. QED
  BY <1>7, <1>10, <1>15, <1>16, <1>17, <1>18, <1>19, WorkSplice

LEMMA RemoveWork ==
  ASSUME TypeInv, NEW t \in Threads, Sound(t), Work(t), DoRemove(t) \/ DoRemoveSet(t), Kept(t)'
  PROVE  Work(t)'
<1>1. CASE DoRemove(t)
  <2>1. PICK ps : ps = {Current(t).ptr}
    OBVIOUS
  <2>2. /\ Running(t) /\ Current(t).op = "remove" /\ Erase(t, ps) /\ ps \in SUBSET Pointers
    BY <1>1, <2>1, CurrentIsItem, ItemParts DEF DoRemove, At
  <2>3. \A p : Removes(Current(t), p) <=> p \in ps
    BY <2>1, <2>2 DEF Removes
  <2>4. QED
    BY <2>2, <2>3, EraseWork
<1>2. CASE DoRemoveSet(t)
  <2>1. PICK ps : ps = Current(t).ptrs
    OBVIOUS
  <2>2. /\ Running(t) /\ Current(t).op = "removeSet" /\ Erase(t, ps) /\ ps \in SUBSET Pointers
    BY <1>2, <2>1, CurrentIsItem, ItemParts DEF DoRemoveSet, At
  <2>3. \A p : Removes(Current(t), p) <=> p \in ps
    BY <2>1, <2>2 DEF Removes
  <2>4. QED
    BY <2>2, <2>3, EraseWork
<1>3. QED
  BY <1>1, <1>2

(* Every section of the delete does its part.                              *)
LEMMA FrontedWork ==
  ASSUME TypeInv, IndexExact, NEW t \in Threads, Known(t), Later(t), Sound(t), Work(t),
         Step(t), Kept(t)', outcome'[t] # "refused"
  PROVE  Work(t)'
<1>1. ~DoAttach(t)
  <2>1. Running(t) /\ Current(t) = todo[t][1] /\ 1 \in DOMAIN todo[t]
    BY StepShape, CurrentIsItem
  <2>2. QED
    BY <2>1 DEF Work, Fronted, DoAttach, At
<1>2. QED
  BY <1>1, StoreWork, IndexWork, VisitWork, FilterWork, EffectsWork, LeaveWork, LookupWork,
     FetchWork, RemoveWork DEF Step

-----------------------------------------------------------------------------
(* How the delete begins, and what it leaves.                              *)

LEMMA BeginWork ==
  ASSUME TypeInv, NEW t \in Threads, NEW ps \in SUBSET Pointers, NEW i \in Item,
         \/ i.op = "visit" /\ ps = {i.ptr}
         \/ i.op = "filter" /\ ps = i.ptrs,
         Begin(t, <<i>>, ps), Undisturbed(t)'
  PROVE  Sound(t)' /\ Work(t)'
<1>1. /\ raced = {} /\ \A u \in Threads : ~Running(u)
      /\ before'[t] = [store |-> store, targets |-> ps]
  BY DEF Begin, Undisturbed
<1>2. /\ todo'[t] = <<i>> /\ gone'[t] = {} /\ fresh'[t] = raced \cup PendingOfOthers(t)
      /\ store' = store
      /\ \A u \in Threads : u # t => outcome'[u] = outcome[u]
  BY DEF Begin, TypeInv, TypeOK
<1>3. Old(t)' = store /\ Goal(t)' = ToDelete(store, ps) /\ before'[t].targets = ps
  BY <1>1 DEF Old, Goal
<1>4. /\ ToDelete(store, ps) \subseteq Pointers /\ Cascaded(store, ps, ToDelete(store, ps))
  BY GoalHolds DEF TypeInv, TypeOK
<1>5. Sound(t)'
  BY <1>3 DEF Sound, TypeInv, TypeOK
<1>6. \A k \in DOMAIN todo'[t] : k = 1 /\ todo'[t][k] = i
  BY <1>2
<1>7. 1 \in DOMAIN todo'[t] /\ todo'[t][1] = i
  BY <1>2
<1>8. Fronted(t)'
  BY <1>6 DEF Fronted
<1>9. Alone(t)'
  <2>1. PendingOfOthers(t) = {}
    BY <1>1 DEF PendingOfOthers, Pending, At
  <2>2. fresh'[t] = {}
    BY <1>1, <1>2, <2>1
  <2>3. QED
    BY <1>1, <1>2, <2>2 DEF Alone, Running
<1>10. Whole(t)'
  <2>1. \A c : Written(t, c)' = {}
    BY <1>6 DEF Written
  <2>2. ASSUME NEW c \in Pointers, NEW rec \in Copies(t, c)'
        PROVE  Less(t, c, rec)' /\ c \notin gone'[t]
    <3>1. Exists(store, c) /\ rec = store[c]
      BY <1>2, <2>1, <2>2 DEF Copies, Exists
    <3>2. QED
      BY <1>2, <1>3, <3>1 DEF Less
  <2>3. QED
    BY <1>2, <1>3, <2>2 DEF Whole
<1>11. \A j \in Item : Has(todo[t], j)' => Aimed(t, j)'
  <2>1. \A c \in ps : Exists(store, c) => c \in ToDelete(store, ps)
    BY <1>4 DEF Cascaded
  <2>2. Aimed(t, i)'
    BY <1>3, <2>1 DEF Aimed
  <2>3. QED
    BY <1>6, <2>2 DEF Has
<1>12. CascadesFirst(t)'
  BY <1>6 DEF CascadesFirst, Nulls
<1>13. \A c : ~Ends(t, c)'
  BY <1>2, <1>6 DEF Ends, Doomed, Removes
<1>14. Forwards(t)'
  BY <1>13 DEF Forwards
<1>15. Asked(t)'
  BY <1>3, <1>7 DEF Asked, Due
<1>16. QED
  BY <1>5, <1>8, <1>9, <1>10, <1>11, <1>12, <1>14, <1>15 DEF Work

LEMMA BeginClosure ==
  ASSUME TypeInv, NEW t \in Threads, BeginUpsert(t) \/ BeginDelete(t) \/ BeginDeleteByFilter(t)
  PROVE  ClosureInv'
<1>1. ASSUME NEW program, NEW ps, Begin(t, program, ps)
      PROVE  \A u \in Threads : Undisturbed(u)' => u = t /\ ps # {}
  <2> DEFINE alone == raced = {} /\ \A v \in Threads : ~Running(v)
  <2>1. before' = [u \in Threads |-> IF u = t /\ alone THEN [store |-> store, targets |-> ps]
                                     ELSE Absent]
    BY <1>1 DEF Begin
  <2> HIDE DEF alone
  <2>2. \A u \in Threads : u # t => before'[u] = Absent
    BY <2>1
  <2>3. before'[t] = Absent \/ before'[t].targets = ps
    BY <2>1
  <2>4. QED
    BY <2>2, <2>3 DEF Undisturbed
<1>2. CASE BeginUpsert(t)
  BY <1>1, <1>2 DEF BeginUpsert, ClosureInv
<1>3. CASE BeginDelete(t)
  <2>1. PICK p \in Pointers : Begin(t, <<Visit(p)>>, {p})
    BY <1>3 DEF BeginDelete
  <2>2. Visit(p) \in Item /\ Visit(p).op = "visit" /\ {p} = {Visit(p).ptr}
    BY PointerItems DEF Visit
  <2>3. Undisturbed(t)' => Sound(t)' /\ Work(t)'
    BY <2>1, <2>2, BeginWork
  <2>4. QED
    BY <1>1, <2>1, <2>3 DEF ClosureInv
<1>4. CASE BeginDeleteByFilter(t)
  <2>1. PICK d \in Drawers : \E ps \in SUBSET {p \in Pointers : DrawerOf[p] = d} :
          ps # {} /\ Begin(t, <<Filter(ps)>>, ps)
    BY <1>4 DEF BeginDeleteByFilter
  <2>2. PICK ps \in SUBSET Pointers : Begin(t, <<Filter(ps)>>, ps)
    BY <2>1
  <2>3. Filter(ps) \in Item /\ Filter(ps).op = "filter" /\ ps = Filter(ps).ptrs
    BY PointerSetItems DEF Filter
  <2>4. Undisturbed(t)' => Sound(t)' /\ Work(t)'
    BY <2>2, <2>3, BeginWork
  <2>5. QED
    BY <1>1, <2>2, <2>4 DEF ClosureInv
<1>5. QED
  BY <1>2, <1>3, <1>4

LEMMA ClosureStep ==
  NullsClear /\ TypeInv /\ IndexExact /\ DangleInv /\ ClosureInv /\ [Next]_vars => ClosureInv'
<1> SUFFICES ASSUME NullsClear, TypeInv, IndexExact, DangleInv, ClosureInv, [Next]_vars
             PROVE  ClosureInv'
  OBVIOUS
<1>1. ASSUME NEW t \in Threads, Step(t)
      PROVE  ClosureInv'
  <2>1. Running(t) /\ (Spliced(t) \/ Refuse(t))
    BY <1>1, StepShape
  <2>2. UNCHANGED before
    BY <2>1 DEF Spliced, Continue, Refuse
  <2>3. \A u \in Threads : Undisturbed(u)' = Undisturbed(u) /\ Sound(u)' = Sound(u)
    BY <2>2, SameGoal
  <2>4. ASSUME NEW u \in Threads, Undisturbed(u), outcome'[u] # "refused"
        PROVE  Work(u)'
    <3>1. outcome[u] # "refused"
      <4>1. CASE u = t
        BY <2>1, <4>1 DEF Running
      <4>2. CASE u # t
        BY <1>1, <2>4, <4>2, OthersAfter
      <4>3. QED
        BY <4>1, <4>2
    <3>2. Sound(u) /\ Work(u)
      BY <2>4, <3>1 DEF ClosureInv
    <3>3. u = t
      BY <2>1, <3>2 DEF Work, Alone
    <3>4. Known(t) /\ Later(t) /\ Cover(t)
      BY <2>1 DEF DangleInv, OrderInv, FreshInv, CoverInv, Running
    <3>5. Kept(t)'
      BY <1>1, <3>2, <3>3, <3>4, FrontedStep DEF DangleInv, Work
    <3>6. QED
      BY <1>1, <2>4, <3>2, <3>3, <3>4, <3>5, FrontedWork
  <2>5. QED
    BY <2>3, <2>4 DEF ClosureInv
<1>2. CASE Restart
  <2>1. \A t \in Threads : before'[t] = Absent
    BY <1>2 DEF Restart
  <2>2. QED
    BY <2>1 DEF ClosureInv, Undisturbed
<1>3. CASE UNCHANGED vars
  <2>1. UNCHANGED <<store, todo, outcome, gone, fresh, before>>
    BY <1>3 DEF vars, history
  <2>2. ASSUME NEW t \in Threads
        PROVE  /\ (Undisturbed(t)' => Undisturbed(t)) /\ (Sound(t) => Sound(t)')
               /\ (Work(t) => Work(t)')
    <3>1. /\ Old(t)' = Old(t) /\ Goal(t)' = Goal(t) /\ Undisturbed(t)' = Undisturbed(t)
          /\ Sound(t)' = Sound(t)
      BY <2>1, SameGoal
    <3>2. \A c : (Ends(t, c)' <=> Ends(t, c)) /\ (Due(t, c)' <=> Due(t, c))
      BY <2>1 DEF Ends, Due, Doomed
    <3>3. \A c, f, p : Taken(t, c, f, p) => Taken(t, c, f, p)'
      BY <3>1, <3>2 DEF Taken
    <3>4. \A c, rec : Less(t, c, rec) => Less(t, c, rec)'
      BY <3>1, <3>3 DEF Less
    <3>5. \A i : Aimed(t, i) => Aimed(t, i)'
      BY <3>1, <3>2, <3>4 DEF Aimed
    <3>6. \A c : Copies(t, c)' = Copies(t, c)
      BY <2>1 DEF Copies, Written
    <3>7. Whole(t) => Whole(t)'
      BY <2>1, <3>1, <3>4, <3>6 DEF Whole
    <3>8. (Fronted(t) => Fronted(t)') /\ (Alone(t) => Alone(t)')
      BY <2>1 DEF Fronted, Alone, Running
    <3>9. CascadesFirst(t) => CascadesFirst(t)'
      BY <2>1, <3>1, <3>2 DEF CascadesFirst
    <3>10. Forwards(t) => Forwards(t)'
      BY <2>1, <3>1, <3>2 DEF Forwards
    <3>11. Asked(t) => Asked(t)'
      BY <2>1, <3>1, <3>2 DEF Asked
    <3>12. \A i : Has(todo[t], i)' => Has(todo[t], i)
      BY <2>1
    <3>13. QED
      BY <3>1, <3>5, <3>7, <3>8, <3>9, <3>10, <3>11, <3>12 DEF Work
  <2>3. QED
    BY <2>1, <2>2 DEF ClosureInv
<1>4. QED
  BY <1>1, <1>2, <1>3, BeginClosure DEF Next

(* What a delete that has met no other operation leaves.                   *)
LEMMA ClosureLeft ==
  ASSUME TypeInv, NEW t \in Threads, outcome[t] = "ok", Cover(t), Sound(t), Work(t)
  PROVE  store = Deleted(Old(t), before[t].targets)
<1>1. todo[t] = <<>>
  BY DEF TypeInv, TypeOK, Running
<1>2. \A c : (Ends(t, c) => c \in gone[t]) /\ (Due(t, c) => c \in gone[t]) /\ ~Doomed(t, c)
  BY <1>1 DEF Ends, Due, Doomed
<1>3. fresh[t] = {} /\ gone[t] \subseteq Goal(t) /\ Goal(t) \subseteq Pointers
      /\ \A c \in Goal(t) : Exists(Old(t), c)
  BY GoalOf DEF Work, Alone, Whole
<1>4. ASSUME NEW c \in Pointers, Exists(store, c), NEW r \in Rules, NEW p \in gone[t],
             Refers(store[c], r, c, p)
      PROVE  FALSE
  <2>1. store[c] \in Copies(t, c)
    BY <1>4 DEF Copies
  <2>2. p \in Pointers /\ c \in Pointers \ fresh[t]
    BY <1>3
  <2>3. QED
    BY <1>2, <1>4, <2>1, <2>2 DEF Cover
<1>5. ASSUME NEW c \in Pointers, Exists(Old(t), c),
             c \in before[t].targets \/ \E p \in gone[t] : Follows(Old(t), c, p)
      PROVE  c \in gone[t]
  <2>1. CASE c \in before[t].targets
    BY <1>1, <1>2, <1>5, <2>1 DEF Work, Asked
  <2>2. ASSUME NEW p \in gone[t], c \in Forward(p, Old(t)[p])
        PROVE  c \in gone[t]
    <3>1. p \in Pointers /\ Exists(Old(t), p) /\ Ends(t, p)
      BY <1>3 DEF Ends
    <3>2. Due(t, c)
      BY <1>1, <1>5, <2>2, <3>1 DEF Work, Forwards
    <3>3. QED
      BY <1>2, <3>2
  <2>3. ASSUME NEW p \in gone[t], NEW r \in RulesOf(DrawerOf[p], "Cascade"),
               RefersByRule(Old(t), r, c, p), c \notin gone[t]
        PROVE  FALSE
    <3>1. p \in Pointers /\ ~Ends(t, c) /\ r \in Rules
      BY <1>2, <1>3, <2>3 DEF RulesOf
    <3>2. Exists(store, c) /\ Refers(store[c], r, c, p)
      BY <2>3, <3>1, StillRefers
    <3>3. QED
      BY <1>4, <3>1, <3>2
  <2>4. QED
    BY <1>5, <2>1, <2>2, <2>3 DEF Follows
<1>6. Goal(t) = gone[t]
  <2>1. /\ Cascaded(Old(t), before[t].targets, gone[t]) /\ gone[t] \in SUBSET Pointers
        /\ \A c \in gone[t] : Exists(Old(t), c)
    BY <1>3, <1>5 DEF Cascaded
  <2>2. Old(t) \in Store /\ before[t].targets \in SUBSET Pointers /\ Goal(t) = ToDelete(Old(t), before[t].targets)
    BY DEF Sound, Old, Goal
  <2>3. Goal(t) \subseteq gone[t]
    BY <2>1, <2>2, GoalHolds
  <2>4. QED
    BY <1>3, <2>3
<1> DEFINE cleared(c, f) == {p \in Goal(t) : \E r \in RulesOf(DrawerOf[p], "SetNull") :
                               r.field = f /\ RefersByRule(Old(t), r, c, p)}
<1>7. Deleted(Old(t), before[t].targets) =
        [c \in Pointers |-> IF c \in Goal(t) \/ ~Exists(Old(t), c) THEN Absent
                            ELSE [f \in Fields |-> Old(t)[c][f] \ cleared(c, f)]]
  BY DEF Deleted, Goal, Old
<1>8. ASSUME NEW c \in Pointers, c \in Goal(t) \/ ~Exists(Old(t), c)
      PROVE  store[c] = Absent
  BY <1>6, <1>8 DEF Work, Whole, Exists
<1>9. ASSUME NEW c \in Pointers, c \notin Goal(t), Exists(Old(t), c)
      PROVE  store[c] = [f \in Fields |-> Old(t)[c][f] \ cleared(c, f)]
  <2>1. Exists(store, c) /\ store[c] \in Copies(t, c)
    BY <1>6, <1>9 DEF Work, Whole, Copies
  <2>2. Less(t, c, store[c]) /\ store[c] \in Record
    BY <2>1, ExistingRecord DEF Work, Whole
  <2>3. ASSUME NEW f \in Fields, NEW p \in store[c][f]
        PROVE  p \in Old(t)[c][f] /\ p \notin cleared(c, f)
    <3>1. p \in Old(t)[c][f]
      BY <2>2 DEF Less
    <3>2. SUFFICES ASSUME NEW r \in RulesOf(DrawerOf[p], "SetNull"), p \in Goal(t), r.field = f,
                          RefersByRule(Old(t), r, c, p)
                   PROVE  FALSE
      BY <3>1
    <3>3. r \in Rules /\ Refers(store[c], r, c, p)
      BY <2>3, <3>2 DEF RulesOf, RefersByRule, Refers
    <3>4. QED
      BY <1>4, <1>6, <2>1, <3>2, <3>3
  <2>4. ASSUME NEW f \in Fields, NEW p \in Old(t)[c][f], p \notin store[c][f]
        PROVE  p \in cleared(c, f)
    <3>1. Taken(t, c, f, p)
      BY <2>2, <2>4 DEF Less
    <3>2. PICK r \in RulesOf(DrawerOf[p], "SetNull") : r.target = DrawerOf[c] /\ r.field = f
      BY <3>1 DEF Taken
    <3>3. RefersByRule(Old(t), r, c, p)
      BY <1>9, <2>4, <3>1, <3>2 DEF RefersByRule, Taken
    <3>4. QED
      BY <3>1, <3>2, <3>3 DEF Taken
  <2> HIDE DEF cleared
  <2>5. \A f \in Fields : store[c][f] = Old(t)[c][f] \ cleared(c, f)
    BY <2>3, <2>4
  <2>6. QED
    BY <2>2, <2>5 DEF Record
<1> HIDE DEF cleared
<1>10. store \in [Pointers -> Record \cup {Absent}]
  BY DEF TypeInv, TypeOK, Store
<1>11. QED
  BY <1>7, <1>8, <1>9, <1>10

(* A delete of a pointer or by a filter that meets no other operation      *)
(* leaves exactly what its rules say: the least set of records that the    *)
(* cascades, backwards and forwards, make of those it was asked for is     *)
(* gone, of every other record only the references that a set-null rule    *)
(* takes, and nothing else has changed: for any records, rules and cycles, *)
(* and in whatever order the records and rules are gone through            *)
(* (delete_by_id_inner, apply_delete_rule_side_effects).  As above, no     *)
(* field that holds an object may be under a set-null rule.                *)
THEOREM DeletesRemoveTheClosure ==
  ASSUME \A r \in Rules : r.action = "SetNull" => r.field \notin Maps
  PROVE  Spec => []DeletesClosure
<1> DEFINE AllInv == TypeInv /\ StackInv /\ PendingInv /\ IndexExact /\ DangleInv /\ ClosureInv
<1>0. NullsClear
  BY DEF NullsClear
<1>1. Init => AllInv
  <2> SUFFICES ASSUME Init
               PROVE  AllInv
    OBVIOUS
  <2>1. TypeInv /\ StackInv /\ PendingInv /\ IndexExact /\ DangleInv
    BY DangleInit
  <2>2. \A t \in Threads : before[t] = Absent
    BY DEF Init
  <2>3. QED
    BY <2>1, <2>2 DEF ClosureInv, Undisturbed
<1>2. AllInv /\ [Next]_vars => AllInv'
  BY <1>0, TypeStep, StackStep, IndexStep, DangleStep, ClosureStep
<1>3. AllInv => DeletesClosure
  <2> SUFFICES ASSUME TypeInv, CoverInv, ClosureInv,
                      NEW t \in Threads, Undisturbed(t), outcome[t] = "ok"
               PROVE  store = Deleted(before[t].store, before[t].targets)
    BY DEF DeletesClosure, DangleInv
  <2>1. Cover(t) /\ Sound(t) /\ Work(t)
    BY DEF CoverInv, ClosureInv
  <2>2. QED
    BY <2>1, ClosureLeft DEF Old
<1> HIDE DEF AllInv
<1>4. QED
  BY <1>1, <1>2, <1>3, PTL DEF Spec
=============================================================================
