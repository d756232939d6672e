-------------------------- MODULE MCRelationships --------------------------
(* Relationships on two records that may refer to each other, one record   *)
(* that belongs to them and one that refers to all three.                  *)
EXTENDS Relationships, TLC

CONSTANTS a1, a2, b1, c1, A, B, C, owner, ally, t1, t2

MCDrawers == {A, B, C}
MCPointers == {a1, a2, b1, c1}
MCDrawerOf == (a1 :> A) @@ (a2 :> A) @@ (b1 :> B) @@ (c1 :> C)
MCFields == {owner, ally}

R(of, action, target, field) ==
  [of |-> of, action |-> action, target |-> target, field |-> field]
MCRules ==
  {R(A, "Cascade", B, owner), R(A, "Restrict", C, owner), R(A, "SetNull", C, ally),
   R(B, "Restrict", C, owner)}
MCCascadeFields == {<<A, ally>>}
MCUntracked == {<<A, owner>>}
MCRequired == {<<B, owner>>}
MCNone == {}

Rec(inF, inG) == (owner :> inF) @@ (ally :> inG)
Db(r1, r2, r3, r4) == (a1 :> r1) @@ (a2 :> r2) @@ (b1 :> r3) @@ (c1 :> r4)

MCPopulations ==
  {Db(Rec({}, {a2}), Rec({}, {a1}), b, c) :
     b \in {Absent, Rec({a1, a2}, {})},
     c \in {Absent, Rec({b1}, {a1, a2}), Rec({a2}, {a1})}}

MCPayloads ==
  {<<StoreRecords(b1 :> Rec({a1}, {}))>>,
   <<StoreRecords(c1 :> Rec({b1}, {a1}))>>,
   <<StoreRecords((a1 :> Rec({a2}, {})) @@ (a2 :> Rec({}, {a1})))>>,
   <<StoreRecords(b1 :> Rec({}, {})), StoreRecords(a2 :> Rec({}, {a1}))>>,
   <<Attach(b1, owner, a2), StoreRecords(a2 :> Rec({}, {}))>>}
=============================================================================
