-------------------------- MODULE MCQueryIndexes --------------------------
(* Two records; two numbers, two strings and an array in the field.  The   *)
(* second string is a pointer to the record the first one names.           *)
EXTENDS QueryIndexes
CONSTANTS k1, k2, k3, one, two, name, pointer, list
MCKindOf == [v \in Values |->
  IF v \in {one, two} THEN "number"
  ELSE IF v \in {name, pointer} THEN "string" ELSE "other"]
MCRankOf == [v \in Values |-> IF v \in {two, pointer} THEN 2 ELSE 1]
MCIdOf == [v \in Values |-> IF v = pointer THEN name ELSE v]

Ask(op, arg) == [op |-> op, arg |-> arg]
On(conditions) == [field |-> conditions, id |-> None]
\* $in is asked of numbers only: of strings it takes references for equal
\* that the index keeps apart.
MCFilters ==
  {On({Ask("plain", one)}), On({Ask("plain", pointer)}),
   On({Ask("like", {name})}), On({Ask("gte", one)}),
   On({Ask("gt", one), Ask("lte", two)}), On({Ask("ne", name)}),
   On({Ask("eq", two)}), On({Ask("in", {one, two})}),
   On({Ask("in", {list, two})}),
   [field |-> {Ask("lt", two)}, id |-> {k1, k2}],
   [field |-> {}, id |-> {k1}]}
=============================================================================
