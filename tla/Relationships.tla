--------------------------- MODULE Relationships ---------------------------
(***************************************************************************)
(* References between records, the reverse relationship index and the     *)
(* delete rules (embedded/src/wrdb_lib/database_execution.rs,             *)
(* reverse_relationships.rs, drawer/delete_rules.rs, database.rs).        *)
(*                                                                         *)
(* A field of a record holds pointers to other records, its parents.  The  *)
(* index leads from a parent to the records that refer to it, and a delete *)
(* follows it: a Restrict rule refuses the delete of a record that is      *)
(* referred to, a Cascade rule deletes what refers to it, a SetNull rule   *)
(* takes the reference away.  A drawer may also cascade forwards, to what  *)
(* a deleted record refers to.                                             *)
(*                                                                         *)
(* No lock covers an operation.  Each section of a drawer's lock and each  *)
(* section of the database's lock, which guards the index, is one step;    *)
(* `todo` holds the sections a thread has still to go through, so a record *)
(* is stored in one step and indexed in a later one, and what a step has   *)
(* read may be stale when a later one uses it.                             *)
(***************************************************************************)
EXTENDS Naturals, Sequences, SequencesExt

CONSTANTS
  Drawers,        \* the drawers, all of them on disk
  Pointers,       \* the records that may exist
  DrawerOf,       \* the drawer of each pointer
  Fields,         \* the fields that hold pointers
  Rules,          \* delete rules, each with its relationship
  CascadeFields,  \* pairs of a drawer and a field that cascades forwards
  Untracked,      \* pairs of a drawer and a field without inverse tracking
  Required,       \* pairs of a drawer and a field its schema requires
  Maps,           \* fields that hold their pointers in an object, by key
  Payloads,       \* what an upsert writes, nested children first
  Populations,    \* the databases to start from
  Threads,        \* the threads of the process
  Absent,         \* no record
  MaxOps,         \* how many operations may begin
  MaxRestarts     \* how often the process may be started again

Actions == {"Restrict", "Cascade", "SetNull"}
Rule == [of : Drawers, action : Actions, target : Drawers, field : Fields]
Record == [Fields -> SUBSET Pointers]
Store == [Pointers -> Record \cup {Absent}]
Entry == [parent : Pointers, child : Pointers, field : Fields]

ASSUME RulesAssumption ==
  /\ Rules \subseteq Rule
  /\ \A r, s \in Rules : (r.of = s.of /\ r.action = s.action) => r = s
  /\ CascadeFields \cup Untracked \cup Required \subseteq Drawers \X Fields
  /\ Maps \subseteq Fields
ASSUME RecordsAssumption ==
  /\ IsFiniteSet(Pointers)
  /\ DrawerOf \in [Pointers -> Drawers]
  /\ Absent \notin Record
  /\ Populations \subseteq Store
ASSUME BoundsAssumption == MaxOps \in Nat /\ MaxRestarts \in Nat

VARIABLES
  store,     \* the records in the drawers
  refs,      \* ReverseRelationshipIndex
  todo,      \* the sections each thread has still to go through
  outcome,   \* what each thread's last operation answered
  gone,      \* history: what the operation has removed
  fresh,     \* history: records it may not have seen as they are
  raced,     \* history: records two threads were working on at once
  before,    \* history: the database an undisturbed operation began with
  ops,       \* operations begun so far
  restarts   \* restarts so far

history == <<gone, fresh, raced, before>>
bounds == <<ops, restarts>>
vars == <<store, refs, todo, outcome, history, bounds>>

-----------------------------------------------------------------------------
(* Records and the index                                                   *)

Exists(s, p) == s[p] # Absent
EmptyRecord == [f \in Fields |-> {}]
Tracked(d, f) == <<d, f>> \notin Untracked
RulesOf(d, action) == {r \in Rules : r.of = d /\ r.action = action}

BugEntries(p, rec) ==
  {e \in [parent : UNION Range(rec), child : {p}, field : Fields] :
     e.parent \in rec[e.field]}

\* record_relationship_entries
Entries(p, rec) ==
  {e \in [parent : UNION Range(rec), child : {p}, field : Fields] :
     Tracked(DrawerOf[p], e.field) /\ e.parent \in rec[e.field]}

Unindexed(index, ps) == {e \in index : e.child \notin ps}
Indexed(index, recs) ==
  index \cup UNION {Entries(p, recs[p]) : p \in DOMAIN recs}

BugReindexed(index, recs) == Indexed(index, recs)
Reindexed(index, recs) == Indexed(Unindexed(index, DOMAIN recs), recs)

\* rebuild_reverse_relationship_index_from_disk
Rebuilt(s) == UNION {Entries(p, s[p]) : p \in {q \in Pointers : Exists(s, q)}}

\* clear_parent_pointer_field: it empties strings and arrays, not objects.
BugCleared(rec, f, p) == rec
Cleared(rec, f, p) == IF f \in Maps THEN rec ELSE [rec EXCEPT ![f] = @ \ {p}]

\* validate_schema, for the fields that hold pointers
Valid(recs) ==
  \A p \in DOMAIN recs, f \in Fields :
    <<DrawerOf[p], f>> \in Required => recs[p][f] # {}

-----------------------------------------------------------------------------
(* What remains to be done: one record per section                         *)

OneRecord(p, rec) == [q \in {p} |-> rec]
StoreRecords(recs) == [op |-> "store", recs |-> recs]
IndexRecords(recs) == [op |-> "index", recs |-> recs]
Attach(child, f, parent) ==
  [op |-> "attach", child |-> child, field |-> f, parent |-> parent]
Visit(p) == [op |-> "visit", ptr |-> p]
Filter(ps) == [op |-> "filter", ptrs |-> ps]
ApplyEffects(p, rec, skip) ==
  [op |-> "effects", ptr |-> p, rec |-> rec, skip |-> skip]
Lookup(r, p, skip) == [op |-> "lookup", rule |-> r, ptr |-> p, skip |-> skip]
Fetch(r, p, skip, ids) ==
  [op |-> "fetch", rule |-> r, ptr |-> p, skip |-> skip, ids |-> ids]
Leave(p) == [op |-> "leave", ptr |-> p]
RemoveOne(p) == [op |-> "remove", ptr |-> p]
RemoveSet(ps) == [op |-> "removeSet", ptrs |-> ps]
Unindex(ps) == [op |-> "unindex", ptrs |-> ps]

\* A payload stores batches of records and attaches children to parents.
Batch(recs) == DOMAIN recs \subseteq Pointers /\ recs \in [DOMAIN recs -> Record]

ASSUME PayloadsAssumption ==
  \A payload \in Payloads :
    /\ payload \in Seq(Range(payload)) \ {<<>>}
    /\ \A i \in Range(payload) :
         \/ i.op = "store" /\ i = StoreRecords(i.recs) /\ Batch(i.recs)
         \/ i.op = "attach" /\ i \in [op : {"attach"}, child : Pointers, field : Fields,
                                    parent : Pointers]

\* Records of one drawer are taken in a fixed order.
VisitAll(ps) == LET order == SetToSeq(ps) IN [i \in DOMAIN order |-> Visit(order[i])]

LookupAll(p, action, skip) ==
  LET order == SetToSeq(RulesOf(DrawerOf[p], action))
  IN  [i \in DOMAIN order |-> Lookup(order[i], p, skip)]

\* collect_cascade_pointers
Forward(p, rec) ==
  UNION {rec[f] : f \in {g \in Fields : <<DrawerOf[p], g>> \in CascadeFields}}

\* apply_delete_rule_side_effects
BugEffects(p, rec, skip) ==
  LookupAll(p, "Restrict", skip) \o LookupAll(p, "Cascade", skip)
    \o LookupAll(p, "SetNull", skip)

Effects(p, rec, skip) ==
  LookupAll(p, "Restrict", skip) \o LookupAll(p, "Cascade", skip)
    \o VisitAll(Forward(p, rec) \ skip) \o LookupAll(p, "SetNull", skip)

BugActive(t) == {}

\* active_delete_path: the records whose effects are being applied
Active(t) == {i.ptr : i \in {j \in Range(todo[t]) : j.op \in {"leave", "remove"}}}

Running(t) == outcome[t] = "running"
Current(t) == Head(todo[t])
Rest(t) == Tail(todo[t])
At(t, op) == Running(t) /\ Current(t).op = op

-----------------------------------------------------------------------------
(* The history                                                             *)

\* Records whose change in a drawer has not reached the index yet.
Pending(t) ==
  IF At(t, "index") THEN DOMAIN Current(t).recs
  ELSE IF At(t, "unindex") THEN Current(t).ptrs ELSE {}
PendingOfOthers(t) == UNION {Pending(u) : u \in Threads \ {t}}

\* Thread t has changed the records ps, to new contents if stored.
Touch(t, ps, stored) ==
  LET contested == ps \cap PendingOfOthers(t)
  IN  /\ raced' = (raced \ ps) \cup contested
      /\ fresh' = [u \in Threads |->
           fresh[u] \cup contested
             \cup (IF stored /\ u # t THEN ps ELSE {})]

Untouched == UNCHANGED <<store, refs, gone, fresh, raced>>

-----------------------------------------------------------------------------
(* Going on                                                                *)

Continue(t, rest) ==
  /\ todo' = [todo EXCEPT ![t] = rest]
  /\ outcome' = [outcome EXCEPT ![t] = IF rest = <<>> THEN "ok" ELSE @]
  /\ UNCHANGED <<before, bounds>>

\* An error leaves every caller by a `?`; what was done stays done.
Refuse(t) ==
  /\ todo' = [todo EXCEPT ![t] = <<>>]
  /\ outcome' = [outcome EXCEPT ![t] = "refused"]
  /\ UNCHANGED <<before, bounds>>
  /\ Untouched

\* An operation that meets no other works on the database it began with.
Begin(t, program, targets) ==
  /\ ~Running(t)
  /\ ops < MaxOps
  /\ ops' = ops + 1
  /\ todo' = [todo EXCEPT ![t] = program]
  /\ outcome' = [outcome EXCEPT ![t] = "running"]
  /\ gone' = [gone EXCEPT ![t] = {}]
  /\ fresh' = [fresh EXCEPT ![t] = raced \cup PendingOfOthers(t)]
  /\ before' = [u \in Threads |->
       IF u = t /\ raced = {} /\ \A v \in Threads : ~Running(v)
         THEN [store |-> store, targets |-> targets]
         ELSE Absent]
  /\ UNCHANGED <<store, refs, raced, restarts>>

BeginUpsert(t) == \E payload \in Payloads : Begin(t, payload, {})
BeginDelete(t) == \E p \in Pointers : Begin(t, <<Visit(p)>>, {p})
\* A filter selects among the records of one drawer.
BeginDeleteByFilter(t) ==
  \E d \in Drawers : \E ps \in SUBSET {p \in Pointers : DrawerOf[p] = d} :
    ps # {} /\ Begin(t, <<Filter(ps)>>, ps)

-----------------------------------------------------------------------------
(* Upserts                                                                 *)

\* upsert_record or upsert_records_atomic, under the drawer's write lock
DoStore(t) ==
  /\ At(t, "store")
  /\ LET recs == Current(t).recs
     IN  IF Valid(recs)
           THEN /\ store' = [p \in Pointers |->
                     IF p \in DOMAIN recs THEN recs[p] ELSE store[p]]
                /\ Touch(t, DOMAIN recs, TRUE)
                /\ Continue(t, <<IndexRecords(recs)>> \o Rest(t))
                /\ UNCHANGED <<refs, gone>>
           ELSE Refuse(t)

\* replace_reverse_relationships_for_record(s), under the database's lock
DoIndex(t) ==
  /\ At(t, "index")
  /\ refs' = Reindexed(refs, Current(t).recs)
  /\ Continue(t, Rest(t))
  /\ UNCHANGED <<store, gone, fresh, raced>>

\* upsert_child_in_database_unlogged: a payload of nothing but a key and
\* the hidden field is completed from the record as it is now.
DoAttach(t) ==
  /\ At(t, "attach")
  /\ LET i == Current(t)
         base == IF Exists(store, i.child) THEN store[i.child] ELSE EmptyRecord
         child == [base EXCEPT ![i.field] = {i.parent}]
     IN  Continue(t, <<StoreRecords(OneRecord(i.child, child))>> \o Rest(t))
  /\ Untouched

-----------------------------------------------------------------------------
(* Deletes                                                                 *)

\* A delete that waits for one of the same record, which may be its own
BugDoVisit(t) ==
  /\ At(t, "visit")
  /\ LET p == Current(t).ptr
     IN  /\ p \notin Active(t)
         /\ Continue(t, IF ~Exists(store, p) THEN Rest(t)
                        ELSE Effects(p, store[p], {}) \o <<RemoveOne(p)>> \o Rest(t))
  /\ Untouched

\* delete_by_id_inner, up to the effects
DoVisit(t) ==
  /\ At(t, "visit")
  /\ LET p == Current(t).ptr
     IN  Continue(t, IF p \in Active(t) \/ ~Exists(store, p) THEN Rest(t)
                     ELSE Effects(p, store[p], {}) \o <<RemoveOne(p)>> \o Rest(t))
  /\ Untouched

\* delete_by_filter_in_database_unlogged, up to the first record's effects
DoFilter(t) ==
  /\ At(t, "filter")
  /\ LET found == {p \in Current(t).ptrs : Exists(store, p)}
         order == SetToSeq(found)
         effects == [i \in DOMAIN order |->
                       ApplyEffects(order[i], store[order[i]], found)]
     IN  Continue(t, IF found = {} THEN Rest(t)
                     ELSE effects \o <<RemoveSet(found)>> \o Rest(t))
  /\ Untouched

DoEffects(t) ==
  /\ At(t, "effects")
  /\ LET i == Current(t)
     IN  Continue(t, Effects(i.ptr, i.rec, i.skip) \o <<Leave(i.ptr)>> \o Rest(t))
  /\ Untouched

DoLeave(t) ==
  /\ At(t, "leave")
  /\ Continue(t, Rest(t))
  /\ Untouched

\* reverse_relationships_for_parent, under the database's read lock
DoLookup(t) ==
  /\ At(t, "lookup")
  /\ LET i == Current(t)
         ids == {e.child : e \in {e \in refs :
                   /\ e.parent = i.ptr
                   /\ DrawerOf[e.child] = i.rule.target
                   /\ e.field = i.rule.field}}
     IN  Continue(t, IF ids = {} THEN Rest(t)
                     ELSE <<Fetch(i.rule, i.ptr, i.skip, ids)>> \o Rest(t))
  /\ Untouched

\* The rest of records_matching_parent_pointer, under the target drawer's
\* lock, and what the rule does with the records it returns
DoFetch(t) ==
  /\ At(t, "fetch")
  /\ LET i == Current(t)
         f == i.rule.field
         found == {c \in i.ids : Exists(store, c) /\ i.ptr \in store[c][f]}
         order == SetToSeq(found)
         write(c) == StoreRecords(OneRecord(c, Cleared(store[c], f, i.ptr)))
     IN  \/ /\ i.rule.action = "Restrict"
            /\ IF found = {} THEN Continue(t, Rest(t)) /\ Untouched ELSE Refuse(t)
         \/ /\ i.rule.action = "Cascade"
            /\ Continue(t, VisitAll(found \ i.skip) \o Rest(t))
            /\ Untouched
         \/ /\ i.rule.action = "SetNull"
            /\ Continue(t, [k \in DOMAIN order |-> write(order[k])] \o Rest(t))
            /\ Untouched

\* delete_by_primary_key(s) of the records ps, under the drawer's write lock
Erase(t, ps) ==
  LET found == {p \in ps : Exists(store, p)}
  IN  /\ store' = [p \in Pointers |-> IF p \in ps THEN Absent ELSE store[p]]
      /\ gone' = [gone EXCEPT ![t] = @ \cup found]
      /\ Touch(t, found, FALSE)
      /\ Continue(t, (IF found = {} THEN <<>> ELSE <<Unindex(ps)>>) \o Rest(t))
      /\ UNCHANGED refs

DoRemove(t) == At(t, "remove") /\ Erase(t, {Current(t).ptr})
DoRemoveSet(t) == At(t, "removeSet") /\ Erase(t, Current(t).ptrs)

\* remove_reverse_relationships_for_record_keys, under the database's lock
DoUnindex(t) ==
  /\ At(t, "unindex")
  /\ refs' = Unindexed(refs, Current(t).ptrs)
  /\ Continue(t, Rest(t))
  /\ UNCHANGED <<store, gone, fresh, raced>>

-----------------------------------------------------------------------------
(* Restart                                                                 *)

\* The process ends at rest or inside operations, and Database::open builds
\* the index from the drawers.
Restart ==
  /\ restarts < MaxRestarts
  /\ restarts' = restarts + 1
  /\ refs' = Rebuilt(store)
  /\ todo' = [t \in Threads |-> <<>>]
  /\ outcome' = [t \in Threads |-> "idle"]
  /\ gone' = [t \in Threads |-> {}]
  /\ fresh' = [t \in Threads |-> {}]
  /\ raced' = {}
  /\ before' = [t \in Threads |-> Absent]
  /\ UNCHANGED <<store, ops>>

Init ==
  /\ store \in Populations
  /\ refs = Rebuilt(store)
  /\ todo = [t \in Threads |-> <<>>]
  /\ outcome = [t \in Threads |-> "idle"]
  /\ gone = [t \in Threads |-> {}]
  /\ fresh = [t \in Threads |-> {}]
  /\ raced = {}
  /\ before = [t \in Threads |-> Absent]
  /\ ops = 0
  /\ restarts = 0

Step(t) ==
  \/ DoStore(t)
  \/ DoIndex(t)
  \/ DoAttach(t)
  \/ DoVisit(t)
  \/ DoFilter(t)
  \/ DoEffects(t)
  \/ DoLeave(t)
  \/ DoLookup(t)
  \/ DoFetch(t)
  \/ DoRemove(t)
  \/ DoRemoveSet(t)
  \/ DoUnindex(t)

Next ==
  \/ \E t \in Threads :
       BeginUpsert(t) \/ BeginDelete(t) \/ BeginDeleteByFilter(t) \/ Step(t)
  \/ Restart

\* The operating system runs every thread that can go on; the locks of a
\* section are given back at its end.
Fairness == \A t \in Threads : WF_vars(Step(t))
Spec == Init /\ [][Next]_vars /\ Fairness

-----------------------------------------------------------------------------
(* Properties                                                              *)

\* Types; the index holds no reference of an untracked field.
TypeOK ==
  /\ store \in Store
  /\ refs \subseteq Entry
  /\ \A e \in refs : Tracked(DrawerOf[e.child], e.field)
  /\ DOMAIN todo = Threads
  /\ outcome \in [Threads -> {"idle", "running", "ok", "refused"}]
  /\ \A t \in Threads : Running(t) <=> todo[t] # <<>>
  /\ gone \in [Threads -> SUBSET Pointers]
  /\ fresh \in [Threads -> SUBSET Pointers]
  /\ raced \subseteq Pointers
  /\ ops \in 0 .. MaxOps /\ restarts \in 0 .. MaxRestarts

\* The index holds exactly the tracked references of a record, unless the
\* record is being changed or was last changed by two threads at once:
\* every way a record is written, cleared, removed or loaded ends in the
\* same entries.
IndexExact ==
  \A c \in Pointers \ (raced \cup UNION {Pending(t) : t \in Threads}) :
    {e \in refs : e.child = c}
      = IF Exists(store, c) THEN Entries(c, store[c]) ELSE {}

\* A delete follows cyclic references without coming back to a record whose
\* delete it is in the middle of: the depth of delete_by_id_inner is bounded
\* by the number of records.
NoReentry ==
  \A t \in Threads : \A i, j \in DOMAIN todo[t] :
    ( /\ todo[t][i].op \in {"remove", "leave"}
      /\ todo[t][j].op \in {"remove", "leave"}
      /\ todo[t][i].ptr = todo[t][j].ptr ) => i = j

\* The rules of a parent's drawer reach the child's field.
RefersByRule(s, r, c, p) ==
  /\ Exists(s, c)
  /\ DrawerOf[c] = r.target
  /\ Tracked(r.target, r.field)
  /\ p \in s[c][r.field]

\* When a delete has answered, nothing refers by a delete rule to a record
\* it has removed, except records that another thread stored meanwhile or
\* was still working on: restrict, cascade and set-null leave no dangling
\* reference behind on any path through the records.
NoDanglingAfterDelete ==
  \A t \in Threads : outcome[t] = "ok" =>
    \A p \in gone[t] : ~Exists(store, p) =>
      \A r \in {s \in Rules : s.of = DrawerOf[p]}, c \in Pointers \ fresh[t] :
        ~RefersByRule(store, r, c, p)

\* A delete of p leads on to c, by a rule of its drawer or by a field of
\* its own that cascades forwards.
Follows(s, c, p) ==
  \/ \E r \in RulesOf(DrawerOf[p], "Cascade") : RefersByRule(s, r, c, p)
  \/ c \in Forward(p, s[p])

\* d holds those of the records ps that exist, and all it leads on to.
Cascaded(s, ps, d) ==
  \A c \in Pointers :
    Exists(s, c) /\ (c \in ps \/ \E p \in d : Follows(s, c, p)) => c \in d

\* What a delete of the records ps should leave of the database s: the least
\* such set is gone, and nothing refers to it by a SetNull rule.
ToDelete(s, ps) ==
  LET stored == {p \in Pointers : Exists(s, p)}
  IN  {c \in stored : \A d \in SUBSET stored : Cascaded(s, ps, d) => c \in d}

Deleted(s, ps) ==
  LET d == ToDelete(s, ps)
      cleared(c, f) == {p \in d : \E r \in RulesOf(DrawerOf[p], "SetNull") :
                          r.field = f /\ RefersByRule(s, r, c, p)}
  IN  [c \in Pointers |->
         IF c \in d \/ ~Exists(s, c) THEN Absent
         ELSE [f \in Fields |-> s[c][f] \ cleared(c, f)]]

Undisturbed(t) == before[t] # Absent /\ before[t].targets # {}

\* A delete that meets no other operation leaves what its rules say, for a
\* pointer and for a filter alike, whatever cycles and diamonds it meets and
\* in whatever order it goes through them.
DeletesClosure ==
  \A t \in Threads : (Undisturbed(t) /\ outcome[t] = "ok") =>
    store = Deleted(before[t].store, before[t].targets)

\* Every operation ends: neither cyclic references nor other threads can
\* hold it up for ever.
EveryOperationEnds == \A t \in Threads : Running(t) ~> ~Running(t)
=============================================================================
