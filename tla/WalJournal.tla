---------------------------- MODULE WalJournal ----------------------------
(***************************************************************************)
(* The append-only journal of one database                                 *)
(* (embedded/src/wrdb_lib/wal/journal.rs, wal/format.rs).                  *)
(*                                                                         *)
(* Every thread that appends shares one WalJournalInner: a mutex around    *)
(* the policy, the sequence counter, the pending batch and the map of      *)
(* completed entries, and a condition variable.  Everything between two    *)
(* acquisitions of the mutex is one action.  Under the grouped policy an   *)
(* appender waits with a timeout; whoever times out, or fills the batch,   *)
(* writes the batch of everybody and leaves the outcomes in `completed`.   *)
(*                                                                         *)
(* A frame of the file is a cell: whole, or torn when the write that       *)
(* produced it stopped before its last byte.                               *)
(***************************************************************************)
EXTENDS Integers, Sequences, FiniteSets

CONSTANTS
  Calls,        \* the calls of `append`, each made once
  Policies,     \* the durability policies that may be configured
  MaxFaults     \* how many failed writes and process stops may happen

ASSUME PoliciesAssumption ==
  /\ Policies \subseteq [mode : {"strict", "grouped"}, batch : Nat, window : Nat]
  /\ Policies # {}
ASSUME MaxFaultsAssumption == MaxFaults \in Nat

VARIABLES
  policy,       \* WalJournalState.policy
  file,         \* the frames of the file `.wal`
  nextSeq,      \* next_sequence; 0 stands for None
  pending,      \* the frames of the batch that is not written yet
  completed,    \* the map from a sequence to the outcome of its write
  status,       \* where each call is
  seqOf,        \* the local `entry.sequence` of each call
  checkpointed, \* history: the calls whose frame a checkpoint has removed
  overtaken,    \* history: a strict append was written before a pending one
  faults        \* failed writes and process stops so far

state == <<policy, nextSeq, pending, completed>>
history == <<checkpointed, overtaken>>
vars == <<policy, file, nextSeq, pending, completed, status, seqOf,
          checkpointed, overtaken, faults>>

Cell == [seq : Nat \ {0}, call : Calls, whole : BOOLEAN]
Outcome == [seq : Nat \ {0}, ok : BOOLEAN]
Status == {"idle", "waiting", "ok", "err", "lost"}

---------------------------------------------------------------------------
(* Reading the file.                                                       *)

(* The frames the reader returns: it stops at the first torn frame.        *)
Readable(f) == {i \in DOMAIN f : \A j \in 1..i : f[j].whole}

(* The bytes of a torn frame at the end are an end of file, and are        *)
(* ignored.  When frames follow it, the reader takes their first bytes for *)
(* the rest of the torn frame: it then finds no magic number and fails, or *)
(* swallows them all up to the end of the file.                            *)
MayBeUnreadable(f) == \E i \in DOMAIN f : i < Len(f) /\ ~f[i].whole

(* The sequence an append uses: the counter or, in a new process, one more *)
(* than the last entry the reader returns.                                 *)
BugSequenceFromZero == IF nextSeq # 0 THEN {nextSeq} ELSE {Cardinality(Readable(file))}
BugSequenceFromCount == IF nextSeq # 0 THEN {nextSeq} ELSE {Cardinality(Readable(file)) + 1}
SequencesToUse ==
  IF nextSeq # 0
  THEN {nextSeq}
  ELSE IF Readable(file) = {}
       THEN {1}
       ELSE {file[i].seq + 1 : i \in {k \in Readable(file) : k + 1 \notin Readable(file)}}

(* initialize_locked fails: the file cannot be parsed.                     *)
CannotInitialize == nextSeq = 0 /\ MayBeUnreadable(file)

---------------------------------------------------------------------------
(* Writing the file.                                                       *)

Torn(cell) == [cell EXCEPT !.whole = FALSE]

(* What is left of a batch b whose write stopped: some of its frames and   *)
(* perhaps the first bytes of the next one.                                *)
PartialWrites(b) ==
  {SubSeq(b, 1, k) : k \in 0..(Len(b) - 1)}
    \cup {Append(SubSeq(b, 1, k), Torn(b[k + 1])) : k \in 0..(Len(b) - 1)}

Written(b, ok) ==
  \/ /\ ok
     /\ file' = file \o b
     /\ UNCHANGED faults
  \/ /\ ~ok
     /\ faults < MaxFaults
     /\ faults' = faults + 1
     /\ \E part \in PartialWrites(b) : file' = file \o part

(* What the members of the batch b are told of its write.                  *)
BugOutcomesOf(b, ok) == {[seq |-> b[i].seq, ok |-> TRUE] : i \in DOMAIN b}
OutcomesOf(b, ok) == {[seq |-> b[i].seq, ok |-> ok] : i \in DOMAIN b}

(* flush_pending_locked on the batch b, by the appender of sequence own,   *)
(* which takes its own outcome out of the map when the write succeeded and *)
(* leaves through the `?` before doing so when it failed.                  *)
BugFlushForgetsFailure(b, own, ok) ==
  /\ IF b = <<>> THEN ok /\ UNCHANGED <<file, faults>> ELSE Written(b, ok)
  /\ pending' = <<>>
  /\ completed' = IF ok THEN completed \cup {d \in OutcomesOf(b, ok) : d.seq # own} ELSE completed
BugFlushKeepsOwn(b, own, ok) ==
  /\ IF b = <<>> THEN ok /\ UNCHANGED <<file, faults>> ELSE Written(b, ok)
  /\ pending' = <<>>
  /\ completed' = completed \cup OutcomesOf(b, ok)
BugFlushKeepsBatch(b, own, ok) ==
  /\ IF b = <<>> THEN ok /\ UNCHANGED <<file, faults>> ELSE Written(b, ok)
  /\ pending' = IF ok THEN <<>> ELSE b
  /\ completed' = completed \cup {d \in OutcomesOf(b, ok) : ok => d.seq # own}
Flush(b, own, ok) ==
  /\ IF b = <<>> THEN ok /\ UNCHANGED <<file, faults>> ELSE Written(b, ok)
  /\ pending' = <<>>
  /\ completed' = {d \in completed : \A i \in DOMAIN b : b[i].seq # d.seq}
                    \cup {d \in OutcomesOf(b, ok) : ok => d.seq # own}

---------------------------------------------------------------------------
(* The calls.                                                              *)

Answer(c, ok) == status' = [status EXCEPT ![c] = IF ok THEN "ok" ELSE "err"]

(* The appender takes a sequence; the frame it is going to write.          *)
TakeSequence(c, n) ==
  /\ status[c] = "idle"
  /\ n \in SequencesToUse
  /\ nextSeq' = n + 1
  /\ seqOf' = [seqOf EXCEPT ![c] = n]
Frame(c, n) == [seq |-> n, call |-> c, whole |-> TRUE]

(* The scan of the existing file fails.                                    *)
AppendRejected(c) ==
  /\ status[c] = "idle"
  /\ CannotInitialize
  /\ Answer(c, FALSE)
  /\ UNCHANGED <<state, file, seqOf, history, faults>>

(* The scope or the payload is too large to encode; the sequence is spent. *)
AppendUnencodable(c) ==
  /\ \E n \in SequencesToUse : TakeSequence(c, n)
  /\ Answer(c, FALSE)
  /\ UNCHANGED <<policy, file, pending, completed, history, faults>>

(* Strict policy: the frame is written before the mutex is released.       *)
AppendStrict(c, ok) ==
  /\ policy.mode = "strict"
  /\ \E n \in SequencesToUse :
       /\ TakeSequence(c, n)
       /\ Written(<<Frame(c, n)>>, ok)
  /\ Answer(c, ok)
  /\ overtaken' = (overtaken \/ pending # <<>>)
  /\ UNCHANGED <<policy, pending, completed, checkpointed>>

(* Grouped policy: does a batch with one more entry have to be written     *)
(* now?                                                                    *)
BatchIsDue ==
  LET maxBatch == IF policy.batch < 1 THEN 1 ELSE policy.batch
  IN  Len(pending) + 1 >= maxBatch \/ policy.window = 0

Enqueue(c) ==
  /\ policy.mode = "grouped"
  /\ ~BatchIsDue
  /\ \E n \in SequencesToUse :
       /\ TakeSequence(c, n)
       /\ pending' = Append(pending, Frame(c, n))
  /\ status' = [status EXCEPT ![c] = "waiting"]
  /\ UNCHANGED <<policy, file, completed, history, faults>>

EnqueueAndFlush(c, ok) ==
  /\ policy.mode = "grouped"
  /\ BatchIsDue
  /\ \E n \in SequencesToUse :
       /\ TakeSequence(c, n)
       /\ Flush(Append(pending, Frame(c, n)), n, ok)
  /\ Answer(c, ok)
  /\ UNCHANGED <<policy, history>>

(* A waiter wakes up, or its timeout ends, after its entry was written.    *)
Collect(c, ok) ==
  /\ status[c] = "waiting"
  /\ [seq |-> seqOf[c], ok |-> ok] \in completed
  /\ completed' = completed \ {[seq |-> seqOf[c], ok |-> ok]}
  /\ Answer(c, ok)
  /\ UNCHANGED <<policy, file, nextSeq, pending, seqOf, history, faults>>

(* The timeout of a waiter ends before its entry was written: it writes    *)
(* the batch.                                                              *)
BugWaitWithoutTimeout(c, ok) == c \notin Calls /\ ok /\ UNCHANGED vars
Timeout(c, ok) ==
  /\ status[c] = "waiting"
  /\ \A d \in completed : d.seq # seqOf[c]
  /\ Flush(pending, seqOf[c], ok)
  /\ Answer(c, ok)
  /\ UNCHANGED <<policy, nextSeq, seqOf, history>>

---------------------------------------------------------------------------
(* The environment of the journal.                                         *)

(* at_database_path_with_policy on the path of a live journal.             *)
SetPolicy(p) ==
  /\ p # policy
  /\ policy' = p
  /\ UNCHANGED <<file, nextSeq, pending, completed, status, seqOf, history, faults>>

(* flush_checkpoint cuts the file with a handle of its own: the counter    *)
(* and the batch of the journal do not change.                             *)
Truncate ==
  /\ file # <<>>
  /\ file' = <<>>
  /\ checkpointed' = checkpointed \cup {file[i].call : i \in {k \in DOMAIN file : file[k].whole}}
  /\ UNCHANGED <<state, status, seqOf, overtaken, faults>>

(* The process stops while call c, or nobody, writes the batch b.  The     *)
(* next process starts with what is in the file.                           *)
StopDuring(b, cut) ==
  /\ faults < MaxFaults
  /\ faults' = faults + 1
  /\ \E part \in PartialWrites(b) \cup {b} : file' = file \o part
  /\ nextSeq' = 0
  /\ pending' = <<>>
  /\ completed' = {}
  /\ policy' \in Policies
  /\ status' = [c \in Calls |-> IF c \in cut \/ status[c] = "waiting" THEN "lost" ELSE status[c]]
  /\ UNCHANGED history

Crash ==
  /\ \E b \in {<<>>, pending} : StopDuring(b, {})
  /\ UNCHANGED seqOf

CrashInAppend(c) ==
  \E n \in SequencesToUse :
    /\ status[c] = "idle"
    /\ seqOf' = [seqOf EXCEPT ![c] = n]
    /\ policy.mode = "grouped" => BatchIsDue
    /\ StopDuring((IF policy.mode = "strict" THEN <<>> ELSE pending) \o <<Frame(c, n)>>, {c})

---------------------------------------------------------------------------
Init ==
  /\ policy \in Policies
  /\ file = <<>>
  /\ nextSeq = 0
  /\ pending = <<>>
  /\ completed = {}
  /\ status = [c \in Calls |-> "idle"]
  /\ seqOf = [c \in Calls |-> 0]
  /\ checkpointed = {}
  /\ overtaken = FALSE
  /\ faults = 0

Next ==
  \/ \E c \in Calls :
       \/ AppendRejected(c)
       \/ AppendUnencodable(c)
       \/ Enqueue(c)
       \/ CrashInAppend(c)
       \/ \E ok \in BOOLEAN : \/ AppendStrict(c, ok)
                              \/ EnqueueAndFlush(c, ok)
                              \/ Collect(c, ok)
                              \/ Timeout(c, ok)
  \/ \E p \in Policies : SetPolicy(p)
  \/ Truncate
  \/ Crash

(* A waiter is woken, or its timeout ends, whatever the others do:         *)
(* wait_timeout returns after the commit window and takes the mutex again. *)
WakesUp(c) == \E ok \in BOOLEAN : Collect(c, ok) \/ Timeout(c, ok)
Fairness == \A c \in Calls : WF_vars(WakesUp(c))

Spec == Init /\ [][Next]_vars
FairSpec == Spec /\ Fairness

---------------------------------------------------------------------------
(* Properties.                                                             *)

(* The type of every variable.  A sequence is never 0: 0 is what an absent *)
(* checkpoint stands for, and recovery skips the entries up to it.         *)
TypeOK ==
  /\ policy \in Policies
  /\ file \in Seq(Cell)
  /\ nextSeq \in Nat
  /\ pending \in Seq(Cell)
  /\ completed \subseteq Outcome
  /\ status \in [Calls -> Status]
  /\ seqOf \in [Calls -> Nat]
  /\ checkpointed \subseteq Calls
  /\ overtaken \in BOOLEAN
  /\ faults \in 0..MaxFaults

InFile(c) == \E i \in DOMAIN file : file[i].call = c /\ file[i].whole
Stored(c) == InFile(c) \/ c \in checkpointed

(* An append that returned Ok has its whole frame in the file, or a        *)
(* checkpoint has taken it over: whoever wrote its batch, and whatever     *)
(* happened to the other batches.                                          *)
AckedInFile == \A c \in Calls : status[c] = "ok" => Stored(c)

(* The entries a reader returns have increasing sequences, across batches, *)
(* failed writes, truncations and restarts (recovery orders transactions   *)
(* by them and compares them with the checkpoint), unless a strict append  *)
(* was written ahead of a pending batch.                                   *)
FileOrdered ==
  ~overtaken => \A i, j \in Readable(file) : i < j => file[i].seq < file[j].seq

(* A waiter is in the batch or has its outcome in the map, never both and  *)
(* never neither: nobody's flush, failed or not, strands another thread.   *)
WaiterNotOrphaned ==
  \A c \in Calls : status[c] = "waiting" =>
    LET inBatch == \E i \in DOMAIN pending : pending[i].call = c
        settled == \E d \in completed : d.seq = seqOf[c]
    IN  inBatch <=> ~settled

(* The map of outcomes holds a successful one only for a thread that will  *)
(* take it: only a leader whose write failed leaves an entry behind.       *)
OnlyFailuresLeak ==
  \A d \in completed : d.ok =>
    \E c \in Calls : status[c] = "waiting" /\ seqOf[c] = d.seq

(* The journal implements DurableLog: the log is what was ever stored.     *)
Log == INSTANCE DurableLog WITH
         log <- {c \in Calls : Stored(c)},
         outcome <- [c \in Calls |-> IF status[c] \in {"idle", "waiting"}
                                     THEN "none" ELSE status[c]]
ImplementsDurableLog == Log!Spec

(* Every waiter is answered, or its process dies: a batch that never fills *)
(* is written by the first timeout.                                        *)
EveryWaiterLeaves == \A c \in Calls : (status[c] = "waiting") ~> (status[c] # "waiting")
===========================================================================
