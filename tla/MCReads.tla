------------------------------ MODULE MCReads ------------------------------
EXTENDS Reads
CONSTANTS w, v, base
V(t, n) == [type |-> t, rank |-> n]
Mods(dir, size) ==
  [order |-> "f", direction |-> dir, limit |-> Unset, offset |-> Unset,
   cursor |-> Unset, page |-> Unset, size |-> size]
\* Three records in the order of their ids; the last one may not match.
MCFiles ==
  {<<[id |-> 1, value |-> a, tag |-> TRUE],
     [id |-> 2, value |-> V("number", 2), tag |-> TRUE],
     [id |-> 3, value |-> V("number", 1), tag |-> t]>> :
   a \in {Missing, V("number", 1), V("pointer", 1)}, t \in BOOLEAN}
Req(via, filters, mods, hydrate, shape) ==
  [via |-> via, filters |-> filters, mods |-> mods, hydrate |-> hydrate,
   shape |-> shape]
InDrawer == <<DrawerFilter(w)>>
ByQuery == <<DrawerFilter(w), QueryFilter>>
MCRequests ==
  {Req("server", InDrawer, Mods("desc", 1), TRUE, "default"),
   Req("server", ByQuery, Mods(Unset, 1), FALSE, "default"),
   Req("engine", ByQuery, Mods("desc", 2), TRUE, "records"),
   \* One answer, or none, and refusals.
   Req("engine", <<>>, Mods("desc", 1), TRUE, "default"),
   Req("engine", <<DrawerFilter(w), DrawerFilter(v)>>,
       Mods("desc", 1), TRUE, "default"),
   Req("engine", <<PointerFilter(w, 1), PointerFilter(NoDrawer, 2)>>,
       [Mods("asc", Unset) EXCEPT !.limit = 1, !.offset = 1],
       TRUE, "default"),
   Req("server", InDrawer, [Mods("asc", 1) EXCEPT !.page = 2], TRUE,
       "pointers")}
Up(filters, own, value, tag, fields) ==
  [filters |-> filters, own |-> own, fields |-> fields, multi |-> TRUE,
   create |-> TRUE, change |-> [value |-> value, tag |-> tag]]
MCUpserts ==
  {Up(InDrawer, PointerFilter(NoDrawer, 2), V("number", 2), TRUE, {}),
   Up(<<PointerFilter(w, 3)>>, NullFilter, V("pointer", 1), TRUE, {}),
   Up(ByQuery, NullFilter, V("number", 1), TRUE, {"value"})}
MCDeletes == {<<PointerFilter(w, 1), PointerFilter(w, 3)>>, ByQuery}
===========================================================================
