-------------------------- MODULE TransactionWal --------------------------
(***************************************************************************)
(* Transactions of one database over its write-ahead log                   *)
(* (embedded/src/wrdb_lib/wal/transaction.rs, wal/replay.rs, and the       *)
(* mutations of database_execution.rs that run inside a transaction).      *)
(*                                                                         *)
(* A mutation is logged as begin, applied record by record to the drawers, *)
(* and logged as commit or abort.  Each thread runs one transaction and    *)
(* nothing but the drawer locks keeps transactions apart.  An append may   *)
(* find the log due for a checkpoint, which the thread then takes in       *)
(* several steps while the others go on.  Opening the database replays the *)
(* committed transactions of the log.                                      *)
(*                                                                         *)
(* The log is the readable part of the file of WalJournal, and an append   *)
(* here is one of DurableLog: a failed one may leave its record behind.    *)
(* A stop is one of the process: what it wrote to the files stays.         *)
(***************************************************************************)
EXTENDS Integers, Sequences, FiniteSets

CONSTANTS
  Tx,           \* the transactions, each run once
  Keys,         \* the primary keys that payloads name
  Generated,    \* stands for a payload without `_id`: the key is drawn anew
  Writes,       \* the records each transaction writes, nested ones first
  Deletes,      \* the transactions that delete instead of upsert
  Absent,       \* no record
  Unknown,      \* no expectation
  Recovery,     \* the thread that opens the database
  MaxStops,     \* how often the process may stop or reopen the database
  MaxFails,     \* how many calls may fail
  MaxDue        \* how many appends may find the log due for a checkpoint

Workers == Tx \cup {Recovery}

ASSUME WritesAssumption ==
  /\ Writes \in [Tx -> Seq(Keys \cup {Generated})]
  /\ \A t \in Tx : Writes[t] # <<>>
  /\ Deletes \subseteq Tx
  /\ \A t \in Deletes : \A i \in DOMAIN Writes[t] : Writes[t][i] # Generated
ASSUME NamesAssumption ==
  /\ Generated \notin Keys
  /\ Absent \notin Tx
  /\ Unknown \notin Tx \cup {Absent}
  /\ Recovery \notin Tx
ASSUME BoundsAssumption ==
  MaxStops \in Nat /\ MaxFails \in Nat /\ MaxDue \in Nat

VARIABLES
  wal,          \* the records of the log
  nextSeq,      \* the journal's next_sequence; 0 stands for None
  meta,         \* last_checkpoint_sequence of the checkpoint file
  store,        \* the transaction that wrote each key's record, or Absent
  copies,       \* how many records each transaction's generated keys made
  pc,           \* where each transaction is
  written,      \* how many of its records each transaction has written
  stage,        \* where each worker is in flush_checkpoint
  last,         \* the local `last_sequence` of flush_checkpoint
  phase,        \* is the database down, in recover_database, or open?
  queue,        \* committed_operations: begin records still to be replayed
  replayed,     \* how many records of the next one have been written again
  disturbed,    \* history: transactions that shared a key with a live one
  expected,     \* history: what each key holds, while nobody works on it
  covered,      \* history: transactions a checkpoint's sequence stands for
  stops,        \* stops and reopenings so far
  fails,        \* failed calls so far
  dues          \* appends that found the log due for a checkpoint so far

data == <<store, copies>>
checkpoint == <<meta, stage, last>>
recovery == <<phase, queue, replayed>>
history == <<disturbed, expected, covered>>
bounds == <<stops, fails, dues>>
vars == <<wal, nextSeq, data, pc, written, checkpoint, recovery, history, bounds>>

Record == [seq : Nat \ {0}, kind : {"begin", "commit", "abort"}, tx : Tx]
Pc == {"idle", "begun", "failed", "committed", "aborted", "ok", "err", "lost"}
Stage == {"none", "due", "scanned", "emptied", "written"}

KeysOf(t) == {Writes[t][i] : i \in DOMAIN Writes[t]} \ {Generated}
InProgress(t) == pc[t] \notin {"idle", "ok", "err", "lost"}
ValueOf(t) == IF t \in Deletes THEN Absent ELSE t

---------------------------------------------------------------------------
(* Appending to the log (append_transaction_record).                       *)

LastSeq == IF wal = <<>> THEN 0 ELSE wal[Len(wal)].seq
BugSequenceToUse == IF nextSeq # 0 THEN nextSeq ELSE LastSeq
SequenceToUse == IF nextSeq # 0 THEN nextSeq ELSE LastSeq + 1

(* The append itself; a failed one may have written its record.            *)
LogRecord(t, kind, ok) ==
  LET grown == Append(wal, [seq |-> SequenceToUse, kind |-> kind, tx |-> t])
  IN  /\ nextSeq' = SequenceToUse + 1
      /\ IF ok THEN wal' = grown /\ UNCHANGED fails
         ELSE /\ fails < MaxFails
              /\ fails' = fails + 1
              /\ wal' \in {wal, grown}

(* check_wal_thresholds: the size of the payloads decides.                 *)
CheckThresholds(t) ==
  \/ UNCHANGED <<stage, dues>>
  \/ /\ dues < MaxDue
     /\ dues' = dues + 1
     /\ stage' = [stage EXCEPT ![t] = "due"]

Goes(t, s) == pc' = [pc EXCEPT ![t] = s]

(* The transaction can go on: it is not in flush_checkpoint.               *)
At(t, s) == phase = "up" /\ pc[t] = s /\ stage[t] = "none"

---------------------------------------------------------------------------
(* TransactionCoordinator::commit, step by step.                           *)

Sharing(t) == {u \in Tx \ {t} : InProgress(u) /\ KeysOf(u) \cap KeysOf(t) # {}}

Begin(t, ok) ==
  /\ At(t, "idle")
  /\ LogRecord(t, "begin", ok)
  /\ Goes(t, IF ok THEN "begun" ELSE "err")
  /\ IF ok
     THEN /\ CheckThresholds(t)
          /\ disturbed' = disturbed \cup Sharing(t) \cup {x \in {t} : Sharing(t) # {}}
          /\ expected' = [k \in Keys |-> IF k \in KeysOf(t) THEN Unknown ELSE expected[k]]
     ELSE UNCHANGED <<stage, disturbed, expected, dues>>
  /\ UNCHANGED <<covered, data, written, meta, last, recovery, stops>>

(* One record reaches its drawer, under the drawer's lock.                 *)
Apply(t, n) ==
  LET k == Writes[t][n]
  IN  IF k = Generated
      THEN /\ copies' = [copies EXCEPT ![t] = @ + 1]
           /\ UNCHANGED store
      ELSE /\ store' = [store EXCEPT ![k] = ValueOf(t)]
           /\ UNCHANGED copies

Write(t) ==
  /\ At(t, "begun")
  /\ written[t] < Len(Writes[t])
  /\ Apply(t, written[t] + 1)
  /\ written' = [written EXCEPT ![t] = @ + 1]
  /\ UNCHANGED <<wal, nextSeq, pc, checkpoint, recovery, history, bounds>>

(* A record is refused or cannot be written, or harden_mutations fails:    *)
(* what was written before stays.                                          *)
FailApply(t) ==
  /\ At(t, "begun")
  /\ fails < MaxFails
  /\ fails' = fails + 1
  /\ Goes(t, "failed")
  /\ UNCHANGED <<wal, nextSeq, data, written, checkpoint, recovery, history, stops, dues>>

Commit(t, ok) ==
  /\ At(t, "begun")
  /\ written[t] = Len(Writes[t])
  /\ LogRecord(t, "commit", ok)
  /\ Goes(t, IF ok THEN "committed" ELSE "err")
  /\ IF ok THEN CheckThresholds(t) ELSE UNCHANGED <<stage, dues>>
  /\ UNCHANGED <<data, written, meta, last, recovery, history, stops>>

(* An error of this append is ignored.                                     *)
Abort(t, ok) ==
  /\ At(t, "failed")
  /\ LogRecord(t, "abort", ok)
  /\ Goes(t, "aborted")
  /\ IF ok THEN CheckThresholds(t) ELSE UNCHANGED <<stage, dues>>
  /\ UNCHANGED <<data, written, meta, last, recovery, history, stops>>

Answer(t) ==
  /\ \/ /\ At(t, "committed")
        /\ Goes(t, "ok")
        /\ expected' = [k \in Keys |-> IF k \in KeysOf(t) /\ t \notin disturbed
                                       THEN ValueOf(t) ELSE expected[k]]
     \/ /\ At(t, "aborted")
        /\ Goes(t, "err")
        /\ UNCHANGED expected
  /\ UNCHANGED <<wal, nextSeq, data, written, checkpoint, recovery, disturbed, covered, bounds>>

---------------------------------------------------------------------------
(* flush_checkpoint by worker w.                                           *)

MovesTo(w, s) == stage' = [stage EXCEPT ![w] = s]

(* The log is synced and scanned for its last sequence, and the drawers    *)
(* are hardened.                                                           *)
BugCheckpointScan(w) ==
  /\ stage[w] = "due"
  /\ \A v \in Workers \ {w} : stage[v] = "none"
  /\ MovesTo(w, "scanned")
  /\ last' = [last EXCEPT ![w] = LastSeq]
  /\ UNCHANGED <<wal, nextSeq, data, pc, written, meta, recovery, history, bounds>>
CheckpointScan(w) ==
  /\ stage[w] = "due"
  /\ MovesTo(w, "scanned")
  /\ last' = [last EXCEPT ![w] = LastSeq]
  /\ UNCHANGED <<wal, nextSeq, data, pc, written, meta, recovery, history, bounds>>

(* fs::write truncates the checkpoint file, then writes it; an empty one   *)
(* reads as sequence 0.                                                    *)
CheckpointEmpty(w) ==
  /\ stage[w] = "scanned"
  /\ MovesTo(w, "emptied")
  /\ meta' = 0
  /\ UNCHANGED <<wal, nextSeq, data, pc, written, last, recovery, history, bounds>>

CheckpointWrite(w) ==
  /\ stage[w] = "emptied"
  /\ MovesTo(w, "written")
  /\ meta' = last[w]
  /\ covered' = covered \cup {wal[i].tx : i \in {n \in DOMAIN wal : wal[n].seq <= last[w]}}
  /\ UNCHANGED <<wal, nextSeq, data, pc, written, last, recovery, disturbed, expected, bounds>>

(* Everything in the file goes, also what was appended after the scan.     *)
CheckpointCut(w) ==
  /\ stage[w] = "written"
  /\ MovesTo(w, "none")
  /\ wal' = <<>>
  /\ last' = [last EXCEPT ![w] = 0]
  /\ phase' = IF w = Recovery THEN "up" ELSE phase
  /\ UNCHANGED <<nextSeq, data, pc, written, meta, queue, replayed, history, bounds>>

(* An error ends the append that found the log due: the transaction is     *)
(* answered with it, even one whose commit is logged.  One of the recovery *)
(* is an error of the open.                                                *)
CheckpointFail(w) ==
  /\ stage[w] # "none"
  /\ fails < MaxFails
  /\ fails' = fails + 1
  /\ MovesTo(w, "none")
  /\ last' = [last EXCEPT ![w] = 0]
  /\ IF w = Recovery
     THEN phase' = "down" /\ UNCHANGED pc
     ELSE Goes(w, "err") /\ UNCHANGED phase
  /\ UNCHANGED <<wal, nextSeq, data, written, meta, queue, replayed, history, stops, dues>>

---------------------------------------------------------------------------
(* Stopping and opening.                                                   *)

Committed(t) == \E i \in DOMAIN wal : wal[i].kind = "commit" /\ wal[i].tx = t /\ wal[i].seq > meta
Aborted(t) == \E i \in DOMAIN wal : wal[i].kind = "abort" /\ wal[i].tx = t /\ wal[i].seq > meta

(* recover_database: the begin records of the transactions to replay.      *)
BugToReplay ==
  {r \in {wal[i] : i \in DOMAIN wal} :
     /\ r.kind = "begin"
     /\ r.seq > meta
     /\ ~Aborted(r.tx)}
ToReplay ==
  {r \in {wal[i] : i \in DOMAIN wal} :
     /\ r.kind = "begin"
     /\ r.seq > meta
     /\ Committed(r.tx)
     /\ ~Aborted(r.tx)}

(* They are sorted by their sequence: the next one to replay.              *)
BugNextToReplay(r) == r \in queue /\ \A q \in queue : r.seq >= q.seq
NextToReplay(r) == r \in queue /\ \A q \in queue : r.seq <= q.seq

(* The process stops.                                                      *)
Stop ==
  /\ phase # "down"
  /\ stops < MaxStops
  /\ stops' = stops + 1
  /\ phase' = "down"
  /\ nextSeq' = 0
  /\ pc' = [t \in Tx |-> IF InProgress(t) THEN "lost" ELSE pc[t]]
  /\ stage' = [w \in Workers |-> "none"]
  /\ last' = [w \in Workers |-> 0]
  /\ queue' = {}
  /\ replayed' = 0
  /\ UNCHANGED <<wal, data, written, meta, history, fails, dues>>

(* A live process opens the database again between two transactions, as a  *)
(* tenant's command does: the journal keeps its counter.                   *)
Reopen ==
  /\ phase = "up"
  /\ stops < MaxStops
  /\ stops' = stops + 1
  /\ \A t \in Tx : ~InProgress(t)
  /\ phase' = "down"
  /\ UNCHANGED <<wal, nextSeq, data, pc, written, checkpoint, queue, replayed, history, fails, dues>>

Open ==
  /\ phase = "down"
  /\ queue' = ToReplay
  /\ replayed' = 0
  /\ phase' = IF ToReplay = {} THEN "up" ELSE "replay"
  /\ UNCHANGED <<wal, nextSeq, data, pc, written, checkpoint, history, bounds>>

(* The next record of the replay; after the last one, a checkpoint.        *)
BugReplayWrite(r) ==
  /\ phase = "replay"
  /\ NextToReplay(r)
  /\ Apply(r.tx, replayed + 1)
  /\ IF replayed + 1 = Len(Writes[r.tx])
     THEN queue' = queue \ {r} /\ replayed' = 0
     ELSE UNCHANGED queue /\ replayed' = replayed + 1
  /\ phase' = IF queue' = {} THEN "up" ELSE "replay"
  /\ UNCHANGED <<wal, nextSeq, pc, written, checkpoint, history, bounds>>
ReplayWrite(r) ==
  /\ phase = "replay"
  /\ NextToReplay(r)
  /\ Apply(r.tx, replayed + 1)
  /\ IF replayed + 1 = Len(Writes[r.tx])
     THEN queue' = queue \ {r} /\ replayed' = 0
     ELSE UNCHANGED queue /\ replayed' = replayed + 1
  /\ stage' = [stage EXCEPT ![Recovery] = IF queue' = {} THEN "due" ELSE "none"]
  /\ UNCHANGED <<wal, nextSeq, pc, written, meta, last, phase, history, bounds>>

(* A record cannot be written: the open fails.                             *)
ReplayFail ==
  /\ phase = "replay"
  /\ queue # {}
  /\ fails < MaxFails
  /\ fails' = fails + 1
  /\ phase' = "down"
  /\ queue' = {}
  /\ replayed' = 0
  /\ UNCHANGED <<wal, nextSeq, data, pc, written, checkpoint, history, stops, dues>>

---------------------------------------------------------------------------
Init ==
  /\ wal = <<>>
  /\ nextSeq = 0
  /\ meta = 0
  /\ store = [k \in Keys |-> Absent]
  /\ copies = [t \in Tx |-> 0]
  /\ pc = [t \in Tx |-> "idle"]
  /\ written = [t \in Tx |-> 0]
  /\ stage = [w \in Workers |-> "none"]
  /\ last = [w \in Workers |-> 0]
  /\ phase = "down"
  /\ queue = {}
  /\ replayed = 0
  /\ disturbed = {}
  /\ expected = [k \in Keys |-> Absent]
  /\ covered = {}
  /\ stops = 0
  /\ fails = 0
  /\ dues = 0

Next ==
  \/ \E t \in Tx :
       \/ Write(t)
       \/ FailApply(t)
       \/ Answer(t)
       \/ \E ok \in BOOLEAN : Begin(t, ok) \/ Commit(t, ok) \/ Abort(t, ok)
  \/ \E w \in Workers :
       \/ CheckpointScan(w)
       \/ CheckpointEmpty(w)
       \/ CheckpointWrite(w)
       \/ CheckpointCut(w)
       \/ CheckpointFail(w)
  \/ Stop
  \/ Reopen
  \/ Open
  \/ \E r \in queue : ReplayWrite(r)
  \/ ReplayFail

(* A thread inside a transaction or a checkpoint keeps running, and a      *)
(* database that is down is opened again.                                  *)
TxStep(t) ==
  \/ Write(t)
  \/ Answer(t)
  \/ FailApply(t)
  \/ \E ok \in BOOLEAN : Commit(t, ok) \/ Abort(t, ok)
CheckpointStep(w) ==
  \/ CheckpointScan(w)
  \/ CheckpointEmpty(w)
  \/ CheckpointWrite(w)
  \/ CheckpointCut(w)
  \/ CheckpointFail(w)
Fairness ==
  /\ \A t \in Tx : WF_vars(TxStep(t))
  /\ \A w \in Workers : WF_vars(CheckpointStep(w))
  /\ WF_vars(Open \/ ReplayFail \/ \E r \in queue : ReplayWrite(r))

Spec == Init /\ [][Next]_vars
FairSpec == Spec /\ Fairness

---------------------------------------------------------------------------
(* Properties.                                                             *)

(* The type of every variable: records with sequences from 1 up, and the   *)
(* bounds kept.                                                            *)
TypeOK ==
  /\ wal \in Seq(Record)
  /\ nextSeq \in Nat
  /\ meta \in Nat
  /\ store \in [Keys -> Tx \cup {Absent}]
  /\ copies \in [Tx -> Nat]
  /\ pc \in [Tx -> Pc]
  /\ written \in [Tx -> Nat]
  /\ stage \in [Workers -> Stage]
  /\ last \in [Workers -> Nat]
  /\ phase \in {"down", "replay", "up"}
  /\ queue \subseteq Record
  /\ replayed \in Nat
  /\ disturbed \subseteq Tx
  /\ expected \in [Keys -> Tx \cup {Absent, Unknown}]
  /\ covered \subseteq Tx
  /\ stops \in 0..MaxStops
  /\ fails \in 0..MaxFails
  /\ dues \in 0..MaxDue

(* An acknowledged mutation that met no other transaction on its keys is   *)
(* what an open database holds, until the next transaction on the key      *)
(* begins: no number of stops, repeated or interrupted replays,            *)
(* half-written checkpoints or transactions that failed earlier brings     *)
(* back an older record.                                                   *)
RecoveryKeepsAcked ==
  phase = "up" => \A k \in Keys : expected[k] # Unknown => store[k] = expected[k]

(* What recovery is about to replay was applied to its last record before  *)
(* the stop: it neither completes a transaction that was cut short, nor    *)
(* redoes one whose application failed.                                    *)
ReplaysOnlyApplied ==
  phase = "replay" => \A r \in queue : written[r.tx] = Len(Writes[r.tx])

(* A database that opens after a replay has nothing left to replay.        *)
RecoveryTakesOver ==
  [][phase = "replay" /\ phase' = "up" => ToReplay' = {}]_vars

(* Every transaction is answered or its process stops, and every recovery  *)
(* ends: nobody waits for a checkpoint of another.                         *)
EveryTransactionEnds ==
  /\ \A t \in Tx : InProgress(t) ~> ~InProgress(t)
  /\ (phase = "replay") ~> (phase # "replay")

(* A committed transaction of the log is replayed by the next open, unless *)
(* a checkpoint was taken after its records.                               *)
CommittedIsReplayed ==
  phase = "down" =>
    \A i, j \in DOMAIN wal :
      /\ wal[i].kind = "begin" /\ wal[j].kind = "commit"
      /\ wal[i].tx = wal[j].tx
      /\ wal[i].tx \notin covered
      => wal[i] \in ToReplay
===========================================================================
