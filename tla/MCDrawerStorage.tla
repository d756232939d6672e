-------------------------- MODULE MCDrawerStorage --------------------------
(* Instances of DrawerStorage: records of one or two words' length, so     *)
(* that a slot fits some records and not others.                           *)
EXTENDS DrawerStorage, TLC
CONSTANTS k1, k2, none

TwoKeys == {k1, k2}
ThreeVals == 1..3
(* 1 and 3 fit the same slots, 2 a larger one.                             *)
Lengths == [v \in ThreeVals |-> IF v = 2 THEN 2 ELSE 1]
Symmetric == Permutations(TwoKeys)
=============================================================================
