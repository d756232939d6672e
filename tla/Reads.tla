------------------------------- MODULE Reads -------------------------------
(***************************************************************************)
(* An application reads a drawer page by page while others write to it     *)
(* (embedded/src/engine.rs, wrdb_lib/command/dispatch.rs,                  *)
(* wrdb_lib/database_execution.rs, wrdb_lib/drawer/hydration.rs).          *)
(*                                                                         *)
(* Each read takes its records under the lock of the drawer and lets it go.*)
(* A query orders the stored records and takes its page there and then; a  *)
(* read of the whole drawer first replaces its pointers by the records     *)
(* they refer to and drops the hidden fields, and orders what is left;     *)
(* pointers are read one by one.  The server and SQL hydrate once more     *)
(* after the page was taken, which changes no order and is left out.       *)
(*                                                                         *)
(* The drawer is the sequence of its records in the order of its file.     *)
(* Where a rewritten record goes is the allocator's choice (DrawerStorage).*)
(* All pointers refer to one record of another drawer.                     *)
(***************************************************************************)
EXTENDS Selection, Paging, TLC

CONSTANTS
  Ids,           \* the ids of the drawer's records, in the order of strings
  Drawer,        \* the drawer
  CatalogPaths,  \* names that are databases too
  Files,         \* the files a run starts with
  Requests,      \* what the application may ask
  Upserts,       \* the upserts others may send
  Deletes,       \* the filters of the deletes others may send
  MaxWrites      \* how many changes others make

ASSUME IdsAssumption == Ids \subseteq Nat /\ IsFiniteSet(Ids)

VARIABLES
  file,      \* the drawer's records
  target,    \* the record that pointers refer to exists
  hidden,    \* "f" is a hidden field of the drawer
  client,    \* the read or traversal under way
  work,      \* what a query upsert or a delete has left to do
  writes,    \* changes so far
  \* History of the traversal.
  returned,  \* how often each record was returned
  round,     \* how many times the records were taken
  changed,   \* the round in which each record was last changed for the read
  sortTypes, \* the types the answers were ordered by
  steady     \* no cursor's record was changed between its two pages

drawer == <<file, target, hidden>>
history == <<returned, round, changed, sortTypes, steady>>
vars == <<drawer, client, work, writes, history>>

Stored == {file[i].id : i \in DOMAIN file}
RecordOf(id) == file[CHOOSE i \in DOMAIN file : file[i].id = id]
Matching(records) == SelectSeq(records, LAMBDA r : r.tag)

-----------------------------------------------------------------------------
(* Hydration and hidden fields                                             *)

(* A pointer to nothing stays as it is.                                    *)
ResolvePointer(pointer) == IF target THEN Object ELSE pointer

HydrateValue(value) ==
  IF value.type = "pointer" THEN ResolvePointer(value) ELSE value

HydrateRecords(records, hydrate) ==
  IF hydrate THEN [i \in DOMAIN records |->
                     [records[i] EXCEPT !.value = HydrateValue(@)]]
  ELSE records

RemoveHiddenFields(records) ==
  IF hidden THEN [i \in DOMAIN records |->
                    [records[i] EXCEPT !.value = Missing]]
  ELSE records

-----------------------------------------------------------------------------
(* The application's reads                                                 *)

Form(sel) ==
  CASE sel.pointers # <<>> -> "pointers"
    [] sel.query -> "query"
    [] OTHER -> "all"

Idle == [phase |-> "idle"]

Fail ==
  /\ client' = [phase |-> "failed"]
  /\ UNCHANGED <<drawer, work, writes, history>>

(* The rest of every read: pages are of the shape "records" only, and the  *)
(* application asks for the next one with the cursor it was given.         *)
Answer(c, records, answer) ==
  LET shape == ReadShape(c.req.shape, c.sel)
      refused == ~answer.ok \/ (answer.paged /\ shape # "records")
      shown == IF shape = "record" /\ answer.records # <<>>
               THEN <<answer.records[1]>> ELSE answer.records
      cursor == c.req.mods.cursor
  IN IF refused THEN Fail
     ELSE /\ client' = IF answer.next = Unset
                       THEN [c EXCEPT !.phase = "ended", !.records = <<>>]
                       ELSE [c EXCEPT !.phase = "asked", !.records = <<>>,
                                      !.req.mods.cursor = answer.next,
                                      !.req.mods.page = Unset]
          /\ returned' = [id \in Ids |-> returned[id] +
               Cardinality({i \in DOMAIN shown : shown[i].id = id})]
          /\ sortTypes' = sortTypes \cup
               {SortTypeForRecords(records, c.req.mods.order)}
          /\ steady' = (steady /\ (cursor = Unset
                                    \/ changed[cursor.id] + 1 < c.round))
          /\ UNCHANGED <<drawer, work, writes, round, changed>>

(* read: the filters are merged; without a query or a pointer the engine   *)
(* looks in the catalog first, and what it finds there is answered.        *)
Ask(req) ==
  LET sel == FromFilter(req.filters)
      catalog == req.via = "engine" /\ Structural(sel, CatalogPaths)
      wrong == sel.bad \/ Unresolved(sel)
                 \/ (sel.drawer = NoDrawer /\ ~catalog)
  IN /\ client.phase = "idle"
     /\ IF wrong THEN Fail
        ELSE /\ client' = [phase |-> IF catalog THEN "catalog" ELSE "asked",
                           req |-> req, from |-> req.mods, sel |-> sel,
                           records |-> <<>>, todo |->
                             ResolvedPointers(sel), round |-> 0]
             /\ UNCHANGED <<drawer, work, writes, history>>

StoredIn(sel) == IF sel.drawer = Drawer THEN file ELSE <<>>

(* find_by_filter_in_database                                              *)
FindByFilter ==
  /\ client.phase = "asked" /\ Form(client.sel) = "query"
  /\ round' = round + 1
  /\ client' = [client EXCEPT !.phase = "found", !.round = round + 1,
                              !.records = Matching(StoredIn(client.sel))]
  /\ UNCHANGED <<drawer, work, writes, returned, changed, sortTypes, steady>>

(* find_all_in_database, in three steps: under the lock of the drawer, of  *)
(* the drawer the pointers lead to, and of the drawer again.               *)
FindAll ==
  /\ client.phase = "asked" /\ Form(client.sel) = "all"
  /\ round' = round + 1
  /\ client' = [client EXCEPT !.phase = "taken", !.round = round + 1,
                              !.records = StoredIn(client.sel)]
  /\ UNCHANGED <<drawer, work, writes, returned, changed, sortTypes, steady>>
HydrateAll ==
  /\ client.phase = "taken"
  /\ client' = [client EXCEPT !.phase = "hydrated", !.records =
                                HydrateRecords(@, client.req.hydrate)]
  /\ UNCHANGED <<drawer, work, writes, history>>
HideAll ==
  /\ client.phase = "hydrated"
  /\ client' = [client EXCEPT !.phase = "found",
                              !.records = RemoveHiddenFields(@)]
  /\ UNCHANGED <<drawer, work, writes, history>>

(* find_by_id_in_database for the next pointer: the id is taken away.      *)
FindById ==
  /\ client.phase = "asked" /\ Form(client.sel) = "pointers"
  /\ client.todo # <<>>
  /\ LET id == Head(client.todo)
         found == SelectSeq(StoredIn(client.sel), LAMBDA r : r.id = id)
         shown == RemoveHiddenFields(HydrateRecords(found, client.req.hydrate))
     IN client' = [client EXCEPT
          !.phase = IF Len(client.todo) = 1 THEN "found" ELSE "asked",
          !.todo = Tail(@),
          !.records = @ \o [i \in DOMAIN shown |->
                              [shown[i] EXCEPT !.id = Unset]]]
  /\ UNCHANGED <<drawer, work, writes, history>>

(* The page is taken and, of a query's records, hydrated afterwards.       *)
FinishRead ==
  /\ client.phase = "found"
  /\ Answer(client, client.records,
            ApplyQueryModifiers(client.records, client.req.mods))

-----------------------------------------------------------------------------
(* Changes by others                                                       *)

(* What a traversal orders the record by and selects it for, or <<>>.      *)
SeenOf(id, f, t, h) ==
  LET found == SelectSeq(f, LAMBDA r : r.id = id)
      seen == IF t /\ client.req.hydrate /\ found[1].value.type = "pointer"
              THEN Object ELSE found[1].value
  IN CASE client.phase = "idle" \/ found = <<>> -> <<>>
       [] Form(client.sel) # "all" -> <<found[1].value, found[1].tag>>
       [] OTHER -> <<IF h THEN Missing ELSE seen>>
SeenBy == [id \in Ids |-> SeenOf(id, file, target, hidden)]

\* Changes before the read and after its end are left out.
NoteChanges ==
  /\ client.phase \notin {"idle", "ended", "failed", "catalog"}
  /\ UNCHANGED <<client, returned, round, sortTypes, steady>>
  /\ changed' = [id \in Ids |->
       IF round > 0 /\ SeenBy'[id] # SeenBy[id] THEN round ELSE changed[id]]

CountWrite == writes < MaxWrites /\ writes' = writes + 1

Without(ids) == SelectSeq(file, LAMBDA r : r.id \notin ids)

(* A whole record is written, in its place or in any other of the file.    *)
Write(record) ==
  \E i \in 1..(Len(Without({record.id})) + 1) :
    file' = InsertAt(Without({record.id}), i, record)

Payload(id, change) ==
  [id |-> id, value |-> change.value, tag |-> change.tag]

UpsertOne(context, up) ==
  LET to == UpsertTarget(context, up.own)
      ids == IF to.key = <<>> THEN Ids \ Stored ELSE {to.key[1]}
  IN /\ ~to.bad /\ to.drawer = Drawer
     /\ \E id \in ids : Write(Payload(id, up.change))
     /\ UNCHANGED <<target, hidden, work>>

(* merge_payload_into_record: the fields given replace the copy's.         *)
MergePayload(record, up) ==
  [record EXCEPT !.value = IF "value" \in up.fields THEN up.change.value
                           ELSE @,
                 !.tag = IF "tag" \in up.fields THEN up.change.tag ELSE @]

(* A query upsert takes copies of the records that match, and writes the   *)
(* merged copies back one by one; without a match it may create a record.  *)
UpsertByQuery(context, up) ==
  LET matched == Matching(file) IN
  /\ context.drawer = Drawer /\ work = <<>>
  /\ \/ /\ matched = <<>> /\ up.create
        /\ UpsertOne([context EXCEPT !.query = FALSE, !.pointers = <<>>], up)
     \/ /\ matched # <<>> /\ (Len(matched) = 1 \/ up.multi)
        /\ work' = [i \in DOMAIN matched |->
                      [op |-> "write",
                       record |-> MergePayload(matched[i], up)]]
        /\ UNCHANGED drawer

Upsert(up) ==
  LET context == UpsertContext(up.filters) IN
  /\ ~context.bad
  /\ IF context.query THEN UpsertByQuery(context, up)
     ELSE UpsertOne(context, up)
  /\ CountWrite /\ NoteChanges

(* The pointers of a delete are deleted one after the other; a delete by   *)
(* query takes the ids that match, lets the lock go, and deletes them all. *)
Delete(filters) ==
  LET sel == FromFilter(filters)
      keys == ResolvedPointers(sel)
      matched == Matching(file)
  IN /\ ~sel.bad /\ ~Unresolved(sel) /\ sel.drawer = Drawer /\ work = <<>>
     /\ sel.pointers # <<>> \/ sel.query
     /\ work' = IF keys # <<>>
                THEN [i \in DOMAIN keys |->
                        [op |-> "delete", ids |-> {keys[i]}]]
                ELSE <<[op |-> "delete",
                        ids |-> {matched[i].id : i \in DOMAIN matched}]>>
     /\ UNCHANGED drawer
     /\ CountWrite /\ NoteChanges

WorkOn ==
  /\ work # <<>>
  /\ \/ Head(work).op = "write" /\ Write(Head(work).record)
     \/ Head(work).op = "delete" /\ file' = Without(Head(work).ids)
  /\ work' = Tail(work)
  /\ UNCHANGED <<target, hidden, writes>>
  /\ NoteChanges

(* The record pointers refer to comes and goes; a child record written     *)
(* from its parent makes "f" a hidden field, for ever.                     *)
ChangeTarget ==
  /\ target' = ~target
  /\ UNCHANGED <<file, hidden, work>> /\ CountWrite /\ NoteChanges
MarkHiddenField ==
  /\ ~hidden /\ hidden' = TRUE
  /\ UNCHANGED <<file, target, work>> /\ CountWrite /\ NoteChanges

-----------------------------------------------------------------------------
Init ==
  /\ file \in Files /\ target \in BOOLEAN /\ hidden \in BOOLEAN
  /\ client = Idle /\ work = <<>> /\ writes = 0
  /\ returned = [id \in Ids |-> 0] /\ round = 0
  /\ changed = [id \in Ids |-> 0]
  /\ sortTypes = {} /\ steady = TRUE

Next ==
  \/ \E req \in Requests : Ask(req)
  \/ FindByFilter \/ FindAll \/ HydrateAll \/ HideAll \/ FindById
  \/ FinishRead
  \/ \E up \in Upserts : Upsert(up)
  \/ \E filters \in Deletes : Delete(filters)
  \/ WorkOn \/ ChangeTarget \/ MarkHiddenField

Spec == Init /\ [][Next]_vars

-----------------------------------------------------------------------------
(* A traversal by cursors that came to its end returned every record that  *)
(* was there and unchanged for it all along exactly once, and none that it *)
(* does not select, however the records around them were written, moved,   *)
(* deleted and created (API.md, "_id is the stable tie-breaker").  It is   *)
(* promised while the answers are ordered by values of one type and no     *)
(* record is changed between the page it ends and the next.                *)
Traversal ==
  /\ client.phase = "ended" /\ Form(client.sel) # "pointers"
  /\ ReadShape(client.req.shape, client.sel) = "records"
  /\ client.from.cursor = Unset /\ client.from.page \in {Unset, 1}
  /\ client.from.limit = Unset /\ client.from.offset = Unset
Wanted(id) ==
  /\ id \in Stored /\ client.sel.drawer = Drawer
  /\ Form(client.sel) = "all" \/ RecordOf(id).tag
EachRecordOnce ==
  Traversal /\ Cardinality(sortTypes) = 1 /\ steady =>
    \A id \in Ids : changed[id] = 0 =>
      returned[id] = IF Wanted(id) THEN 1 ELSE 0
=============================================================================
