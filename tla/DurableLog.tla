---------------------------- MODULE DurableLog ----------------------------
(***************************************************************************)
(* What an append to the write-ahead log promises to its caller, without   *)
(* the frames, the batches, the condition variable and the failures that   *)
(* WalJournal has.  A call is one `append`.                                *)
(*                                                                         *)
(*   - a call is answered at most once;                                    *)
(*   - "ok" is answered only to a call whose record is in the log;         *)
(*   - a record enters the log while its call is unanswered: never after   *)
(*     the caller was told of a failure, or after its process died;        *)
(*   - a record that is in the log stays in it (a checkpoint that removes  *)
(*     it takes it over).                                                  *)
(*                                                                         *)
(* A failed call may leave its record in the log.                          *)
(***************************************************************************)
CONSTANT Calls

VARIABLES
  log,        \* the calls whose record was stored
  outcome     \* what each call was answered

vars == <<log, outcome>>

Unanswered == {c \in Calls : outcome[c] = "none"}

Init ==
  /\ log = {}
  /\ outcome = [c \in Calls |-> "none"]

(* Records of unanswered calls reach the log together; at most one call,   *)
(* the one that wrote them, is answered in the same step.                  *)
Store(S) == log' = log \cup S

Answer(c) ==
  \E r \in {"ok", "err"} :
    /\ r = "ok" => c \in log'
    /\ outcome' = [outcome EXCEPT ![c] = r]

(* The process stops: the callers that were waiting get no answer.         *)
Stop(L) == outcome' = [c \in Calls |-> IF c \in L THEN "lost" ELSE outcome[c]]

Next ==
  \E S \in SUBSET Unanswered :
    /\ Store(S)
    /\ \/ \E c \in Unanswered : Answer(c)
       \/ \E L \in SUBSET Unanswered : Stop(L)

Spec == Init /\ [][Next]_vars
===========================================================================
