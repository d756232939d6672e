--------------------------- MODULE MCWalJournal ---------------------------
(* WalJournal on three calls: a batch of two and a call that is alone.     *)
EXTENDS WalJournal

CONSTANTS c1, c2, c3

MCCalls == {c1, c2, c3}

(* Strict; a batch that fills; a batch that only a timeout writes; and a   *)
(* window of zero, which never waits (with the batch size 0 the code       *)
(* raises to 1 as well).                                                   *)
MCPolicies ==
  { [mode |-> "strict", batch |-> 0, window |-> 0],
    [mode |-> "grouped", batch |-> 2, window |-> 1],
    [mode |-> "grouped", batch |-> 4, window |-> 1],
    [mode |-> "grouped", batch |-> 0, window |-> 0] }
===========================================================================
