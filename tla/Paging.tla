------------------------------- MODULE Paging -------------------------------
(***************************************************************************)
(* The order of the records of an answer and the page that is returned     *)
(* (embedded/src/wrdb_lib/query.rs, apply_query_modifiers).                *)
(*                                                                         *)
(* A record is its id, its value of the field that may be ordered by, and  *)
(* whether it matches the query.  A value is its type and its rank among   *)
(* the values of that type; a pointer is a string, and a hydrated one an   *)
(* object, which cannot be ordered.                                        *)
(***************************************************************************)
EXTENDS Integers, Sequences, FiniteSets, SequencesExt

CONSTANTS
  Unset,          \* an option that is not given, an id that is not there
  DefaultSize,    \* DEFAULT_PAGE_SIZE
  MaxUsize        \* the greatest number of records a page can start at

ASSUME PagingAssumption == DefaultSize \in Nat \ {0} /\ MaxUsize \in Nat

Missing == [type |-> "none", rank |-> 0]
Object == [type |-> "object", rank |-> 0]

SortableType(value) ==
  CASE value.type = "pointer" -> "string"
    [] value.type = "object" -> "none"
    [] OTHER -> value.type

(* Only the field "f" is stored: any other field is missing everywhere.    *)
ResolveFieldPath(record, field) ==
  IF field = "f" THEN record.value ELSE Missing

(* The type of the first value, in the order of the file, that has one.    *)
SortTypeForRecords(records, field) ==
  LET typed == SelectSeq(records, LAMBDA r :
                 SortableType(ResolveFieldPath(r, field)) # "none")
  IN IF typed = <<>> THEN "none"
     ELSE SortableType(ResolveFieldPath(typed[1], field))

Compare(a, b) == IF a < b THEN -1 ELSE IF a > b THEN 1 ELSE 0
Directed(ordering, direction) ==
  IF direction = "desc" THEN -ordering ELSE ordering

\* Mutant: records of equal value keep the order of the file.
BugCompareRecordsById(left, right, direction) == 0

CompareRecordsById(left, right, direction) ==
  Directed(CASE left.id # Unset /\ right.id # Unset ->
                  Compare(left.id, right.id)
             [] left.id # Unset /\ right.id = Unset -> -1
             [] left.id = Unset /\ right.id # Unset -> 1
             [] OTHER -> 0, direction)

(* Records without a value of the sort type come last in both directions.  *)
CompareRecordsByField(left, right, field, direction, type) ==
  LET l == ResolveFieldPath(left, field)
      r == ResolveFieldPath(right, field)
      lhas == type # "none" /\ SortableType(l) = type
      rhas == type # "none" /\ SortableType(r) = type
      byField == CASE lhas /\ rhas ->
                        Directed(Compare(l.rank, r.rank), direction)
                   [] lhas /\ ~rhas -> -1
                   [] ~lhas /\ rhas -> 1
                   [] OTHER -> 0
  IN IF byField = 0 THEN CompareRecordsById(left, right, direction)
     ELSE byField

(* sort_by is stable: equal records keep their order.                      *)
Sorted(records, field, direction) ==
  LET type == SortTypeForRecords(records, field)
      Before(i, j) ==
        LET c == CompareRecordsByField(records[i], records[j],
                                       field, direction, type)
        IN c < 0 \/ (c = 0 /\ i < j)
      order == SetToSortSeq(DOMAIN records, Before)
  IN [i \in DOMAIN records |-> records[order[i]]]

-----------------------------------------------------------------------------
Direction(mods) == IF mods.direction = Unset THEN "asc" ELSE mods.direction
PageSize(mods) == IF mods.size = Unset THEN DefaultSize ELSE mods.size
Paginates(mods) ==
  mods.cursor # Unset \/ mods.page # Unset \/ mods.size # Unset

EncodeCursor(record, mods) ==
  [order |-> mods.order, direction |-> Direction(mods), id |-> record.id]

CursorIndex(records, cursor) ==
  {i \in DOMAIN records : records[i].id # Unset /\ records[i].id = cursor.id}

(* What apply_cursor_or_page_pagination refuses before it takes a page.    *)
RefusesPage(records, mods) ==
  \/ mods.limit # Unset \/ mods.offset # Unset
  \/ mods.order = Unset \/ PageSize(mods) = 0
  \/ /\ mods.cursor # Unset
     /\ \/ mods.page # Unset
        \/ mods.cursor.order # mods.order
        \/ mods.cursor.direction # Direction(mods)
        \/ CursorIndex(records, mods.cursor) = {}
  \/ /\ mods.cursor = Unset /\ mods.page # Unset
     /\ mods.page = 0 \/ (mods.page - 1) * PageSize(mods) > MaxUsize

(* How many records come before the page: the cursor's own is not shown.   *)
PageStart(records, mods) ==
  IF mods.cursor # Unset
  THEN CHOOSE i \in CursorIndex(records, mods.cursor) : TRUE
  ELSE IF mods.page = Unset THEN 0 ELSE (mods.page - 1) * PageSize(mods)

Refused == [ok |-> FALSE, records |-> <<>>, paged |-> FALSE, next |-> Unset]

TakePage(records, mods) ==
  LET rest == SubSeq(records, PageStart(records, mods) + 1, Len(records))
      more == Len(rest) > PageSize(mods)
      page == IF more THEN SubSeq(rest, 1, PageSize(mods)) ELSE rest
  IN IF more /\ page[Len(page)].id = Unset THEN Refused
     ELSE [ok |-> TRUE, records |-> page, paged |-> TRUE,
           next |-> IF more THEN EncodeCursor(page[Len(page)], mods)
                    ELSE Unset]

Window(records, mods) ==
  LET from == IF mods.offset = Unset THEN 1 ELSE mods.offset + 1
      rest == SubSeq(records, from, Len(records))
  IN [ok |-> TRUE, paged |-> FALSE, next |-> Unset,
      records |-> IF mods.limit = Unset \/ mods.limit >= Len(rest) THEN rest
                  ELSE SubSeq(rest, 1, mods.limit)]

ApplyQueryModifiers(records, mods) ==
  LET ordered == IF mods.order = Unset THEN records
                 ELSE Sorted(records, mods.order, Direction(mods))
  IN CASE ~Paginates(mods) -> Window(ordered, mods)
       [] RefusesPage(ordered, mods) -> Refused
       [] OTHER -> TakePage(ordered, mods)
=============================================================================
