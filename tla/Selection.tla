----------------------------- MODULE Selection -----------------------------
(***************************************************************************)
(* What the filters of an operation select, and what an upsert writes to   *)
(* (embedded/src/engine.rs, OperationSelection, UpsertContext).            *)
(*                                                                         *)
(* An operation's filter is a tree of filters; merging visits its leaves   *)
(* from left to right, so here it is the sequence of its leaves: a drawer, *)
(* a pointer, with the drawer it names or NoDrawer when it is local, a     *)
(* query, or nothing (an empty or null query).  The drawers of a selection *)
(* must agree, its pointers add up, and it may hold one query.             *)
(***************************************************************************)
EXTENDS Naturals, Sequences, SequencesExt

CONSTANT NoDrawer   \* no drawer, and the drawer of a local pointer

DrawerFilter(d) == [kind |-> "drawer", drawer |-> d]
PointerFilter(d, k) == [kind |-> "pointer", drawer |-> d, key |-> k]
QueryFilter == [kind |-> "query"]
NullFilter == [kind |-> "null"]

NothingSelected ==
  [drawer |-> NoDrawer, query |-> FALSE, pointers |-> <<>>, bad |-> FALSE]

MergeDrawer(sel, d) ==
  IF sel.drawer \in {NoDrawer, d} THEN [sel EXCEPT !.drawer = d]
  ELSE [sel EXCEPT !.bad = TRUE]

MergePointer(sel, f) ==
  LET named == IF f.drawer = NoDrawer THEN sel ELSE MergeDrawer(sel, f.drawer)
  IN [named EXCEPT !.pointers = Append(@, [drawer |-> f.drawer,
                                           key |-> f.key])]

MergeQuery(sel) ==
  IF sel.query THEN [sel EXCEPT !.bad = TRUE] ELSE [sel EXCEPT !.query = TRUE]

MergeFilter(sel, f) ==
  CASE sel.bad -> sel
    [] f.kind = "drawer" -> MergeDrawer(sel, f.drawer)
    [] f.kind = "pointer" -> MergePointer(sel, f)
    [] f.kind = "query" -> MergeQuery(sel)
    [] OTHER -> sel

FromFilter(filters) == FoldLeft(MergeFilter, NothingSelected, filters)

(* resolved_pointers: a local pointer is a key of the selected drawer.     *)
Unresolved(sel) ==
  sel.drawer = NoDrawer /\ \E i \in DOMAIN sel.pointers :
                             sel.pointers[i].drawer = NoDrawer
ResolvedPointers(sel) ==
  [i \in DOMAIN sel.pointers |-> sel.pointers[i].key]

(* A paginated answer is possible for the shape "records" only.            *)
ReadShape(shape, sel) ==
  IF shape \in {"record", "pointers", "exists"} THEN shape
  ELSE IF Len(sel.pointers) = 1 /\ ~sel.query THEN "record" ELSE "records"

(* The engine's read answers from the catalog when the selection is a path *)
(* of it: nothing at all, or a drawer whose name is also a database's.     *)
Structural(sel, paths) ==
  sel.pointers = <<>> /\ ~sel.query /\ sel.drawer \in {NoDrawer} \cup paths

-----------------------------------------------------------------------------
(* UpsertContext: at most one pointer.                                     *)
UpsertContext(filters) ==
  LET sel == FromFilter(filters)
  IN [sel EXCEPT !.bad = @ \/ Len(sel.pointers) > 1 \/ Unresolved(sel)]

(* upsert_record_target: the drawer and the key one record is written to.  *)
(* The record's own id is absent (NullFilter), a drawer, or a pointer; a   *)
(* key of its own hides the key of a pointer filter.                       *)
UpsertTarget(context, own) ==
  LET pointer == IF context.pointers = <<>> THEN <<>>
                 ELSE <<context.pointers[1].key>>
      named == IF own.kind = "null" \/ own.drawer = NoDrawer THEN context
               ELSE MergeDrawer(context, own.drawer)
      key == CASE own.kind = "pointer" -> <<own.key>>
               [] own.kind = "null" -> pointer
               [] OTHER -> <<>>
  IN [bad |-> named.bad \/ named.drawer = NoDrawer,
      drawer |-> named.drawer, key |-> key]
=============================================================================
