----------------------------- MODULE DrawerMap -----------------------------
(***************************************************************************)
(* What a drawer promises, without slots, indexes, recycling, compaction   *)
(* and the order of file writes that DrawerStorage has: a map from primary *)
(* keys to records that one caller at a time changes.                      *)
(*                                                                         *)
(*   - only the records a call names change, and only to what it asks;     *)
(*   - a call is answered when all of them have changed;                   *)
(*   - a stop ends the call half done at worst: each record is as it was   *)
(*     or as the call wanted it, and a reopened drawer has the same map.   *)
(***************************************************************************)
CONSTANTS Keys, Vals, Absent

VARIABLES
  records,    \* the record of each key, or Absent
  status,     \* is the drawer idle, in a call, or not open?
  call        \* the keys the call changes, and to what

vars == <<records, status, call>>

NoCall == [keys |-> {}, val |-> Absent]

Init ==
  /\ records = [k \in Keys |-> Absent]
  /\ status = "down"
  /\ call = NoCall

Ask(S, v) ==
  /\ status = "idle"
  /\ status' = "busy"
  /\ call' = [keys |-> S, val |-> v]
  /\ UNCHANGED records

Effect(k) ==
  /\ status = "busy"
  /\ k \in call.keys
  /\ records' = [records EXCEPT ![k] = call.val]
  /\ UNCHANGED <<status, call>>

Answer ==
  /\ status = "busy"
  /\ \A k \in call.keys : records[k] = call.val
  /\ status' = "idle"
  /\ call' = NoCall
  /\ UNCHANGED records

Stop ==
  /\ status' = "down"
  /\ call' = NoCall
  /\ UNCHANGED records

Open ==
  /\ status = "down"
  /\ status' = "idle"
  /\ UNCHANGED <<records, call>>

Next ==
  \/ \E S \in SUBSET Keys, v \in Vals \cup {Absent} : Ask(S, v)
  \/ \E k \in Keys : Effect(k)
  \/ Answer
  \/ Stop
  \/ Open

Spec == Init /\ [][Next]_vars
===========================================================================
