---------------------- MODULE TransactionWal_proofs ----------------------
(***************************************************************************)
(* Proofs about TransactionWal: its types, that recovery replays only what *)
(* had been applied, that a replay ends with an empty log, and that what   *)
(* was acknowledged outlives every stop and every replay.                  *)
(***************************************************************************)
EXTENDS TransactionWal, TLAPS

---------------------------------------------------------------------------
(* Steps that several actions share.                                       *)

LEMMA SequencesAreNumbers ==
  ASSUME TypeOK
  PROVE  LastSeq \in Nat /\ SequenceToUse \in Nat \ {0}
<1>1. LastSeq \in Nat
  <2>1. CASE wal = <<>>
    BY <2>1 DEF LastSeq
  <2>2. CASE wal # <<>>
    <3>1. wal \in Seq(Record) /\ Len(wal) \in 1..Len(wal)
      BY <2>2 DEF TypeOK
    <3>2. wal[Len(wal)] \in Record
      BY <3>1
    <3>3. QED
      BY <2>2, <3>2 DEF LastSeq, Record
  <2>3. QED
    BY <2>1, <2>2
<1>2. QED
  BY <1>1 DEF TypeOK, SequenceToUse

(* An append leaves the log as it was or adds one record of its caller.    *)
LEMMA AppendAddsOne ==
  ASSUME TypeOK, NEW t \in Tx, NEW kind \in {"begin", "commit", "abort"}, NEW ok \in BOOLEAN,
         LogRecord(t, kind, ok)
  PROVE  /\ wal' \in Seq(Record)
         /\ nextSeq' \in Nat
         /\ fails' \in 0..MaxFails
         /\ \A i \in DOMAIN wal' :
              \/ i \in DOMAIN wal /\ wal'[i] = wal[i]
              \/ wal'[i].kind = kind /\ wal'[i].tx = t
<1> DEFINE new == [seq |-> SequenceToUse, kind |-> kind, tx |-> t]
<1>1. SequenceToUse \in Nat \ {0}
  BY SequencesAreNumbers
<1>2. new \in Record /\ new.kind = kind /\ new.tx = t
  BY <1>1 DEF Record
<1>3. wal' \in {wal, Append(wal, new)}
  BY DEF LogRecord
<1>4. nextSeq' \in Nat
  BY <1>1 DEF LogRecord
<1>5. fails' \in 0..MaxFails
  BY BoundsAssumption DEF LogRecord, TypeOK
<1> HIDE DEF new
<1>6. wal \in Seq(Record)
  BY DEF TypeOK
<1>7. wal' \in Seq(Record)
  BY <1>2, <1>3, <1>6
<1>8. ASSUME NEW i \in DOMAIN wal'
      PROVE  \/ i \in DOMAIN wal /\ wal'[i] = wal[i]
             \/ wal'[i].kind = kind /\ wal'[i].tx = t
  <2>1. CASE wal' = wal
    BY <2>1
  <2>2. CASE wal' = Append(wal, new)
    BY <1>2, <1>6, <2>2
  <2>3. QED
    BY <1>3, <2>1, <2>2
<1>9. QED
  BY <1>4, <1>5, <1>7, <1>8

LEMMA RecordsHaveTx ==
  ASSUME TypeOK
  PROVE  \A i \in DOMAIN wal : wal[i].tx \in Tx
<1>1. wal \in Seq(Record)
  BY DEF TypeOK
<1>2. \A i \in DOMAIN wal : wal[i] \in Record
  BY <1>1
<1>3. QED
  BY <1>2 DEF Record

LEMMA ThresholdsType ==
  ASSUME TypeOK, NEW t \in Tx, CheckThresholds(t)
  PROVE  stage' \in [Workers -> Stage] /\ dues' \in 0..MaxDue
<1>1. CASE UNCHANGED <<stage, dues>>
  BY <1>1 DEF TypeOK
<1>2. CASE dues < MaxDue /\ dues' = dues + 1 /\ stage' = [stage EXCEPT ![t] = "due"]
  <2>1. stage' \in [Workers -> Stage]
    BY <1>2 DEF TypeOK, Stage
  <2>2. dues' \in 0..MaxDue
    BY <1>2, BoundsAssumption DEF TypeOK
  <2>3. QED
    BY <2>1, <2>2
<1>3. QED
  BY <1>1, <1>2 DEF CheckThresholds

LEMMA ApplyType ==
  ASSUME TypeOK, NEW t \in Tx, NEW n, Apply(t, n)
  PROVE  store' \in [Keys -> Tx \cup {Absent}] /\ copies' \in [Tx -> Nat]
<1>1. ValueOf(t) \in Tx \cup {Absent}
  BY DEF ValueOf
<1>2. CASE Writes[t][n] = Generated
  BY <1>2 DEF TypeOK, Apply
<1>3. CASE Writes[t][n] # Generated
  <2> DEFINE k == Writes[t][n]
  <2>1. store' = [store EXCEPT ![k] = ValueOf(t)] /\ copies' = copies
    BY <1>3 DEF Apply
  <2> HIDE DEF k
  <2>2. QED
    BY <1>1, <2>1 DEF TypeOK
<1>4. QED
  BY <1>2, <1>3

---------------------------------------------------------------------------
(* The type invariant.                                                     *)

LEMMA TypeInit == Init => TypeOK
<1> SUFFICES ASSUME Init
             PROVE  TypeOK
  OBVIOUS
<1> QED
  BY BoundsAssumption DEF Init, TypeOK, Pc, Stage

LEMMA TypeStep == TypeOK /\ [Next]_vars => TypeOK'
<1> SUFFICES ASSUME TypeOK, [Next]_vars
             PROVE  TypeOK'
  OBVIOUS
<1> USE BoundsAssumption
<1>1. ASSUME NEW t \in Tx, Write(t)
      PROVE  TypeOK'
  <2>1. store' \in [Keys -> Tx \cup {Absent}] /\ copies' \in [Tx -> Nat]
    BY <1>1, ApplyType DEF Write
  <2>2. written' \in [Tx -> Nat]
    BY <1>1 DEF TypeOK, Write
  <2>3. QED
    BY <1>1, <2>1, <2>2 DEF TypeOK, Write, checkpoint, recovery, history, bounds
<1>2. ASSUME NEW t \in Tx, FailApply(t)
      PROVE  TypeOK'
  BY <1>2 DEF TypeOK, FailApply, Goes, Pc, data, checkpoint, recovery, history
<1>3. ASSUME NEW t \in Tx, Answer(t)
      PROVE  TypeOK'
  <2>1. ValueOf(t) \in Tx \cup {Absent}
    BY DEF ValueOf
  <2>2. expected' \in [Keys -> Tx \cup {Absent, Unknown}]
    BY <1>3, <2>1 DEF TypeOK, Answer
  <2>3. pc' \in [Tx -> Pc]
    BY <1>3 DEF TypeOK, Answer, Goes, Pc
  <2>4. QED
    BY <1>3, <2>2, <2>3 DEF TypeOK, Answer, data, checkpoint, recovery, bounds
<1>4. ASSUME NEW t \in Tx, NEW ok \in BOOLEAN, Begin(t, ok)
      PROVE  TypeOK'
  <2>1. wal' \in Seq(Record) /\ nextSeq' \in Nat /\ fails' \in 0..MaxFails
    BY <1>4, AppendAddsOne DEF Begin
  <2>2. stage' \in [Workers -> Stage] /\ dues' \in 0..MaxDue
    <3>1. CASE ok
      BY <1>4, <3>1, ThresholdsType DEF Begin
    <3>2. CASE ~ok
      BY <1>4, <3>2 DEF Begin, TypeOK
    <3>3. QED
      BY <3>1, <3>2
  <2>3. disturbed' \subseteq Tx
    BY <1>4 DEF TypeOK, Begin, Sharing
  <2>4. expected' \in [Keys -> Tx \cup {Absent, Unknown}]
    BY <1>4 DEF TypeOK, Begin
  <2>5. pc' \in [Tx -> Pc]
    BY <1>4 DEF TypeOK, Begin, Goes, Pc
  <2>6. QED
    BY <1>4, <2>1, <2>2, <2>3, <2>4, <2>5 DEF TypeOK, Begin, data, recovery
<1>5. ASSUME NEW t \in Tx, NEW ok \in BOOLEAN, Commit(t, ok)
      PROVE  TypeOK'
  <2>1. wal' \in Seq(Record) /\ nextSeq' \in Nat /\ fails' \in 0..MaxFails
    BY <1>5, AppendAddsOne DEF Commit
  <2>2. stage' \in [Workers -> Stage] /\ dues' \in 0..MaxDue
    <3>1. CASE ok
      BY <1>5, <3>1, ThresholdsType DEF Commit
    <3>2. CASE ~ok
      BY <1>5, <3>2 DEF Commit, TypeOK
    <3>3. QED
      BY <3>1, <3>2
  <2>3. pc' \in [Tx -> Pc]
    BY <1>5 DEF TypeOK, Commit, Goes, Pc
  <2>4. QED
    BY <1>5, <2>1, <2>2, <2>3 DEF TypeOK, Commit, data, recovery, history
<1>6. ASSUME NEW t \in Tx, NEW ok \in BOOLEAN, Abort(t, ok)
      PROVE  TypeOK'
  <2>1. wal' \in Seq(Record) /\ nextSeq' \in Nat /\ fails' \in 0..MaxFails
    BY <1>6, AppendAddsOne DEF Abort
  <2>2. stage' \in [Workers -> Stage] /\ dues' \in 0..MaxDue
    <3>1. CASE ok
      BY <1>6, <3>1, ThresholdsType DEF Abort
    <3>2. CASE ~ok
      BY <1>6, <3>2 DEF Abort, TypeOK
    <3>3. QED
      BY <3>1, <3>2
  <2>3. pc' \in [Tx -> Pc]
    BY <1>6 DEF TypeOK, Abort, Goes, Pc
  <2>4. QED
    BY <1>6, <2>1, <2>2, <2>3 DEF TypeOK, Abort, data, recovery, history
<1>7. ASSUME NEW w \in Workers, CheckpointScan(w)
      PROVE  TypeOK'
  <2>1. LastSeq \in Nat
    BY SequencesAreNumbers
  <2>2. QED
    BY <1>7, <2>1 DEF TypeOK, CheckpointScan, MovesTo, Stage, data, recovery, history, bounds
<1>8. ASSUME NEW w \in Workers, CheckpointEmpty(w)
      PROVE  TypeOK'
  BY <1>8 DEF TypeOK, CheckpointEmpty, MovesTo, Stage, data, recovery, history, bounds
<1>9. ASSUME NEW w \in Workers, CheckpointWrite(w)
      PROVE  TypeOK'
  <2>1. covered' \subseteq Tx
    <3>1. \A i \in DOMAIN wal : wal[i].tx \in Tx
      BY RecordsHaveTx
    <3>2. QED
      BY <1>9, <3>1 DEF TypeOK, CheckpointWrite
  <2>2. QED
    BY <1>9, <2>1 DEF TypeOK, CheckpointWrite, MovesTo, Stage, data, recovery, bounds
<1>10. ASSUME NEW w \in Workers, CheckpointCut(w)
       PROVE  TypeOK'
  <2>1. wal' \in Seq(Record)
    BY <1>10 DEF CheckpointCut
  <2>2. stage' \in [Workers -> Stage] /\ last' \in [Workers -> Nat]
    BY <1>10 DEF TypeOK, CheckpointCut, MovesTo, Stage
  <2>3. phase' \in {"down", "replay", "up"}
    BY <1>10 DEF TypeOK, CheckpointCut
  <2>4. QED
    BY <1>10, <2>1, <2>2, <2>3 DEF TypeOK, CheckpointCut, data, history, bounds
<1>11. ASSUME NEW w \in Workers, CheckpointFail(w)
       PROVE  TypeOK'
  <2>1. pc' \in [Tx -> Pc] /\ phase' \in {"down", "replay", "up"}
    BY <1>11 DEF TypeOK, CheckpointFail, Goes, Pc
  <2>2. stage' \in [Workers -> Stage] /\ last' \in [Workers -> Nat]
    BY <1>11 DEF TypeOK, CheckpointFail, MovesTo, Stage
  <2>3. fails' \in 0..MaxFails
    BY <1>11 DEF TypeOK, CheckpointFail
  <2>4. QED
    BY <1>11, <2>1, <2>2, <2>3 DEF TypeOK, CheckpointFail, data, history
<1>12. CASE Stop
  <2>1. pc' \in [Tx -> Pc]
    BY <1>12 DEF TypeOK, Stop, Pc
  <2>2. stage' \in [Workers -> Stage] /\ last' \in [Workers -> Nat]
    BY <1>12 DEF Stop, Stage
  <2>3. stops' \in 0..MaxStops
    BY <1>12 DEF TypeOK, Stop
  <2>4. QED
    BY <1>12, <2>1, <2>2, <2>3 DEF TypeOK, Stop, data, history
<1>13. CASE Reopen
  BY <1>13 DEF TypeOK, Reopen, data, checkpoint, history
<1>14. CASE Open
  <2>1. ToReplay \subseteq Record
    BY DEF TypeOK, ToReplay
  <2>2. QED
    BY <1>14, <2>1 DEF TypeOK, Open, data, checkpoint, history, bounds
<1>15. ASSUME NEW r \in queue, ReplayWrite(r)
       PROVE  TypeOK'
  <2>1. r.tx \in Tx
    BY DEF TypeOK, Record
  <2>2. store' \in [Keys -> Tx \cup {Absent}] /\ copies' \in [Tx -> Nat]
    BY <1>15, <2>1, ApplyType DEF ReplayWrite
  <2>3. queue' \subseteq Record /\ replayed' \in Nat
    BY <1>15 DEF TypeOK, ReplayWrite
  <2>4. stage' \in [Workers -> Stage]
    BY <1>15 DEF TypeOK, ReplayWrite, Stage
  <2>5. QED
    BY <1>15, <2>2, <2>3, <2>4 DEF TypeOK, ReplayWrite, history, bounds
<1>16. CASE ReplayFail
  BY <1>16 DEF TypeOK, ReplayFail, data, checkpoint, history
<1>17. CASE UNCHANGED vars
  BY <1>17 DEF TypeOK, vars, data, checkpoint, recovery, history, bounds
<1>18. QED
  BY <1>1, <1>2, <1>3, <1>4, <1>5, <1>6, <1>7, <1>8, <1>9, <1>10, <1>11, <1>12, <1>13,
     <1>14, <1>15, <1>16, <1>17 DEF Next

(* Every reachable state has the types the code's structures have, in a    *)
(* database of any keys, threads and payloads.                             *)
THEOREM TypeCorrect == Spec => []TypeOK
<1>1. Init => TypeOK
  BY TypeInit
<1>2. TypeOK /\ [Next]_vars => TypeOK'
  BY TypeStep
<1>3. QED
  BY <1>1, <1>2, PTL DEF Spec

---------------------------------------------------------------------------
(* Recovery replays only what was applied to the last record.              *)

Applied(t) == written[t] = Len(Writes[t])

(* A commit record stands for a transaction that was applied, in the log   *)
(* and in what a recovery took from it.                                    *)
CommitsAreApplied == \A i \in DOMAIN wal : wal[i].kind = "commit" => Applied(wal[i].tx)
QueueIsApplied == \A r \in queue : Applied(r.tx)
ReplayInv == TypeOK /\ CommitsAreApplied /\ QueueIsApplied

(* No step takes back what was applied: a transaction writes only while a  *)
(* record is missing.                                                      *)
LEMMA AppliedStays ==
  ASSUME TypeOK, [Next]_vars, NEW t \in Tx, Applied(t)
  PROVE  Applied(t)'
<1>1. ASSUME NEW u \in Tx, Write(u)
      PROVE  Applied(t)'
  <2>1. u # t
    BY <1>1, WritesAssumption DEF Write, Applied, TypeOK
  <2>2. QED
    BY <1>1, <2>1 DEF Write, Applied, TypeOK
<1>2. CASE UNCHANGED written
  BY <1>2 DEF Applied
<1>3. (\E u \in Tx : Write(u)) \/ UNCHANGED written
  BY DEF Next, FailApply, Answer, Begin, Commit, Abort, CheckpointScan, CheckpointEmpty,
         CheckpointWrite, CheckpointCut, CheckpointFail, Stop, Reopen, Open, ReplayWrite,
         ReplayFail, vars
<1>4. QED
  BY <1>1, <1>2, <1>3

(* The log keeps its records, loses them all, or gets one more; only a     *)
(* commit adds a commit record.                                            *)
LEMMA LogGrowsByAppends ==
  ASSUME TypeOK, [Next]_vars, NEW i \in DOMAIN wal', wal'[i].kind = "commit"
  PROVE  \/ i \in DOMAIN wal /\ wal'[i] = wal[i]
         \/ \E t \in Tx, ok \in BOOLEAN : Commit(t, ok) /\ wal'[i].tx = t
<1> DEFINE Old == i \in DOMAIN wal /\ wal'[i] = wal[i]
           New == \E t \in Tx, ok \in BOOLEAN : Commit(t, ok) /\ wal'[i].tx = t
<1>1. ASSUME NEW t \in Tx, NEW ok \in BOOLEAN, Begin(t, ok)
      PROVE  Old
  <2>1. Old \/ wal'[i].kind = "begin"
    BY <1>1, AppendAddsOne DEF Begin
  <2>2. QED
    BY <2>1
<1>2. ASSUME NEW t \in Tx, NEW ok \in BOOLEAN, Abort(t, ok)
      PROVE  Old
  <2>1. Old \/ wal'[i].kind = "abort"
    BY <1>2, AppendAddsOne DEF Abort
  <2>2. QED
    BY <2>1
<1>3. ASSUME NEW t \in Tx, NEW ok \in BOOLEAN, Commit(t, ok)
      PROVE  Old \/ New
  <2>1. Old \/ wal'[i].tx = t
    BY <1>3, AppendAddsOne DEF Commit
  <2>2. QED
    BY <1>3, <2>1
<1>4. ASSUME NEW w \in Workers, CheckpointCut(w)
      PROVE  FALSE
  BY <1>4 DEF CheckpointCut
<1>5. CASE UNCHANGED wal
  BY <1>5
<1>6. \/ \E t \in Tx, ok \in BOOLEAN : Begin(t, ok) \/ Commit(t, ok) \/ Abort(t, ok)
      \/ \E w \in Workers : CheckpointCut(w)
      \/ UNCHANGED wal
  BY DEF Next, Write, FailApply, Answer, CheckpointScan, CheckpointEmpty, CheckpointWrite,
         CheckpointFail, Stop, Reopen, Open, ReplayWrite, ReplayFail, vars
<1>7. QED
  BY <1>1, <1>2, <1>3, <1>4, <1>5, <1>6

(* A replay's queue comes from the log at the open and only shrinks.       *)
LEMMA QueueComesFromLog ==
  ASSUME [Next]_vars
  PROVE  queue' \subseteq queue \cup ToReplay
BY DEF Next, Write, FailApply, Answer, Begin, Commit, Abort, CheckpointScan, CheckpointEmpty,
       CheckpointWrite, CheckpointCut, CheckpointFail, Stop, Reopen, Open, ReplayWrite,
       ReplayFail, vars, recovery

LEMMA ReplayInvStep == ReplayInv /\ [Next]_vars => ReplayInv'
<1> SUFFICES ASSUME TypeOK, CommitsAreApplied, QueueIsApplied, [Next]_vars
             PROVE  ReplayInv'
  BY DEF ReplayInv
<1>1. TypeOK'
  BY TypeStep
<1>2. CommitsAreApplied'
  <2> DEFINE Done(t) == written'[t] = Len(Writes[t])
  <2>1. ASSUME NEW i \in DOMAIN wal', wal'[i].kind = "commit"
        PROVE  Done(wal'[i].tx)
    <3>1. CASE i \in DOMAIN wal /\ wal'[i] = wal[i]
      <4>1. wal[i].tx \in Tx /\ Applied(wal[i].tx)
        BY <2>1, <3>1, RecordsHaveTx DEF CommitsAreApplied
      <4>2. PICK t \in Tx : t = wal[i].tx
        BY <4>1
      <4>3. Applied(t)'
        BY <4>1, <4>2, AppliedStays
      <4>4. Done(t)
        BY <4>3 DEF Applied
      <4>5. QED
        BY <3>1, <4>2, <4>4
    <3>2. ASSUME NEW t \in Tx, NEW ok \in BOOLEAN, Commit(t, ok), wal'[i].tx = t
          PROVE  Done(wal'[i].tx)
      BY <3>2 DEF Commit
    <3>3. QED
      BY <2>1, <3>1, <3>2, LogGrowsByAppends
  <2>2. QED
    BY <2>1 DEF CommitsAreApplied, Applied
<1>3. QueueIsApplied'
  <2> SUFFICES ASSUME NEW r \in queue'
               PROVE  Applied(r.tx)'
    BY DEF QueueIsApplied
  <2>1. r.tx \in Tx
    BY <1>1 DEF TypeOK, Record
  <2>2. Applied(r.tx)
    <3>1. CASE r \in queue
      BY <3>1 DEF QueueIsApplied
    <3>2. CASE r \in ToReplay
      <4>1. PICK i \in DOMAIN wal : wal[i].kind = "commit" /\ wal[i].tx = r.tx
        BY <3>2 DEF ToReplay, Committed
      <4>2. QED
        BY <4>1 DEF CommitsAreApplied
    <3>3. QED
      BY <3>1, <3>2, QueueComesFromLog
  <2>3. PICK t \in Tx : t = r.tx
    BY <2>1
  <2>4. Applied(t)'
    BY <2>2, <2>3, AppliedStays
  <2>5. QED
    BY <2>3, <2>4
<1>4. QED
  BY <1>1, <1>2, <1>3 DEF ReplayInv

(* recover_database never replays a transaction that was cut short before  *)
(* its last record or whose application failed, whatever stops, failed     *)
(* appends and checkpoints came in between.                                *)
THEOREM OnlyAppliedIsReplayed == Spec => []ReplaysOnlyApplied
<1>1. Init => ReplayInv
  <2>1. ASSUME Init
        PROVE  CommitsAreApplied /\ QueueIsApplied
    BY <2>1 DEF Init, CommitsAreApplied, QueueIsApplied
  <2>2. QED
    BY <2>1, TypeInit DEF ReplayInv
<1>2. ReplayInv /\ [Next]_vars => ReplayInv'
  BY ReplayInvStep
<1>3. ReplayInv => ReplaysOnlyApplied
  BY DEF ReplayInv, QueueIsApplied, ReplaysOnlyApplied, Applied
<1>4. QED
  BY <1>1, <1>2, <1>3, PTL DEF Spec

---------------------------------------------------------------------------
(* A replay ends with the log cut.                                         *)

LEMMA CutLeavesNothing ==
  ASSUME wal' = <<>>
  PROVE  ToReplay' = {}
BY DEF ToReplay

LEMMA TakesOverStep ==
  ASSUME [Next]_vars, phase = "replay", phase' = "up"
  PROVE  ToReplay' = {}
<1>1. \E w \in Workers : CheckpointCut(w)
  BY DEF Next, Write, FailApply, Answer, Begin, Commit, Abort, CheckpointScan, CheckpointEmpty,
         CheckpointWrite, CheckpointFail, Stop, Reopen, Open, ReplayWrite, ReplayFail, vars,
         recovery
<1>2. wal' = <<>>
  BY <1>1 DEF CheckpointCut
<1>3. QED
  BY <1>2, CutLeavesNothing

(* Opening after a replay leaves no transaction that a later open would    *)
(* replay again.                                                           *)
THEOREM ReplayTakesOver == Spec => RecoveryTakesOver
<1>1. [Next]_vars => [phase = "replay" /\ phase' = "up" => ToReplay' = {}]_vars
  BY TakesOverStep
<1>2. QED
  BY <1>1, PTL DEF Spec, RecoveryTakesOver

---------------------------------------------------------------------------
(* An acknowledged mutation outlives every stop and every replay.          *)

(* Records of the log by transaction; a begin record whose transaction     *)
(* committed after it; transactions with a key in common; keys nobody      *)
(* works on.                                                               *)
Logged(t, kind) == \E i \in DOMAIN wal : wal[i].kind = kind /\ wal[i].tx = t
Begins(i, t) == wal[i].kind = "begin" /\ wal[i].tx = t
CommittedAfter(i) ==
  \E j \in DOMAIN wal : i < j /\ wal[j].kind = "commit" /\ wal[j].tx = wal[i].tx
Share(t, u) == KeysOf(t) \cap KeysOf(u) # {}
Known(k) == expected[k] # Unknown
Brings(t, k) == k \in KeysOf(t) /\ ValueOf(t) = expected[k]
Spoils(t, k) == k \in KeysOf(t) /\ ValueOf(t) # expected[k]
WrittenUpTo(t, n) ==
  \A m \in 1..n : Writes[t][m] # Generated => store[Writes[t][m]] = ValueOf(t)

(* The sequences of the log increase, and the counter is ahead of them.    *)
SeqInv ==
  /\ \A i, j \in DOMAIN wal : i < j => wal[i].seq < wal[j].seq
  /\ nextSeq # 0 => \A i \in DOMAIN wal : wal[i].seq < nextSeq

(* Who takes a checkpoint is inside a transaction or at the end of a       *)
(* recovery, and no transaction is in progress outside an open database.   *)
ScheduleInv ==
  /\ \A t \in Tx : stage[t] # "none" => InProgress(t)
  /\ phase # "up" => \A t \in Tx : ~InProgress(t)
  /\ stage[Recovery] # "none" => phase = "replay" /\ queue = {}

(* What the log may hold of a transaction, by where the transaction is.    *)
LogInv ==
  \A t \in Tx :
    /\ written[t] <= Len(Writes[t])
    /\ pc[t] = "idle" => written[t] = 0
    /\ pc[t] \in {"idle", "begun", "failed"} => ~Logged(t, "commit") /\ ~Logged(t, "abort")
    /\ ~(Logged(t, "commit") /\ Logged(t, "abort"))
    /\ pc[t] = "committed" => /\ Applied(t)
                              /\ \A i \in DOMAIN wal : Begins(i, t) => CommittedAfter(i)

(* Transactions that work on one key at a time are marked, and a key that  *)
(* one works on has no expectation.                                        *)
TurnInv ==
  /\ \A t, u \in Tx : (t # u /\ InProgress(t) /\ InProgress(u) /\ Share(t, u)) => t \in disturbed
  /\ \A t \in Tx : InProgress(t) => \A k \in KeysOf(t) : ~Known(k)

(* An unmarked transaction finds what it wrote, and what committed on its  *)
(* keys began before it.                                                   *)
AloneInv ==
  \A t \in Tx : (InProgress(t) /\ t \notin disturbed) =>
    /\ WrittenUpTo(t, written[t])
    /\ \A i \in DOMAIN wal, u \in Tx :
         (Begins(i, u) /\ u # t /\ Share(t, u) /\ Logged(u, "commit"))
           => \E j \in DOMAIN wal : i < j /\ Begins(j, t)

(* In the log, a committed transaction with another value than the         *)
(* expected one is followed by one with the expected value.                *)
LastWriteInv ==
  \A k \in Keys : Known(k) =>
    \A i \in DOMAIN wal, t \in Tx : (Begins(i, t) /\ Spoils(t, k) /\ Logged(t, "commit"))
      => \E j \in DOMAIN wal, u \in Tx :
           i < j /\ Begins(j, u) /\ CommittedAfter(j) /\ Brings(u, k)

(* A key differs from its expectation only before or inside a recovery     *)
(* that will write it again.                                               *)
StoreInv ==
  \A k \in Keys : (Known(k) /\ store[k] # expected[k]) =>
    /\ phase # "up"
    /\ \E r \in ToReplay : k \in KeysOf(r.tx)
    /\ phase = "replay" => \E r \in queue : k \in KeysOf(r.tx)

(* What is left to replay comes from the log, the transaction being        *)
(* replayed is written up to where the replay is, and one with another     *)
(* value than the expected one is followed by one with the expected value. *)
QueueInv ==
  phase = "replay" =>
    /\ \A q, r \in queue : q.seq = r.seq => q = r
    /\ queue \subseteq ToReplay
    /\ \A r \in queue : NextToReplay(r) =>
         replayed < Len(Writes[r.tx]) /\ WrittenUpTo(r.tx, replayed)
    /\ \A k \in Keys : Known(k) =>
         \A r \in queue : Spoils(r.tx, k) => \E q \in queue : r.seq < q.seq /\ Brings(q.tx, k)

---------------------------------------------------------------------------
(* How a step changes the log and the transactions.                        *)

(* The log has one more record, r.                                         *)
GrowsBy(r) ==
  /\ DOMAIN wal' = DOMAIN wal \cup {Len(wal) + 1}
  /\ Len(wal) + 1 \in Nat
  /\ \A i \in DOMAIN wal : i \in Nat /\ i < Len(wal) + 1 /\ wal'[i] = wal[i]
  /\ wal'[Len(wal) + 1] = r

Appended(t, kind) ==
  \E r \in Record : r.seq = SequenceToUse /\ r.kind = kind /\ r.tx = t /\ GrowsBy(r)

LEMMA AppendShape ==
  ASSUME TypeOK, NEW t \in Tx, NEW kind \in {"begin", "commit", "abort"}, NEW ok \in BOOLEAN,
         LogRecord(t, kind, ok)
  PROVE  /\ Appended(t, kind) \/ (~ok /\ wal' = wal)
         /\ nextSeq' = SequenceToUse + 1
<1> DEFINE r == [seq |-> SequenceToUse, kind |-> kind, tx |-> t]
<1>1. r \in Record /\ r.seq = SequenceToUse /\ r.kind = kind /\ r.tx = t
  BY SequencesAreNumbers DEF Record
<1>2. wal' = Append(wal, r) \/ (~ok /\ wal' = wal)
  BY DEF LogRecord
<1>3. nextSeq' = SequenceToUse + 1
  BY DEF LogRecord
<1> HIDE DEF r
<1>4. ASSUME wal' = Append(wal, r)
      PROVE  GrowsBy(r)
  <2>1. wal \in Seq(Record)
    BY DEF TypeOK
  <2>2. QED
    BY <1>1, <1>4, <2>1 DEF GrowsBy
<1>5. QED
  BY <1>1, <1>2, <1>3, <1>4 DEF Appended

(* A step keeps the log, empties it, or appends one record.                *)
LEMMA LogStep ==
  ASSUME TypeOK, [Next]_vars
  PROVE  \/ wal' = wal
         \/ wal' = <<>> /\ \E w \in Workers : CheckpointCut(w)
         \/ \E t \in Tx, ok \in BOOLEAN :
              \/ Begin(t, ok) /\ Appended(t, "begin")
              \/ Commit(t, ok) /\ Appended(t, "commit")
              \/ Abort(t, ok) /\ Appended(t, "abort")
<1>1. ASSUME NEW t \in Tx, NEW ok \in BOOLEAN, Begin(t, ok)
      PROVE  wal' = wal \/ Appended(t, "begin")
  BY <1>1, AppendShape DEF Begin
<1>2. ASSUME NEW t \in Tx, NEW ok \in BOOLEAN, Commit(t, ok)
      PROVE  wal' = wal \/ Appended(t, "commit")
  BY <1>2, AppendShape DEF Commit
<1>3. ASSUME NEW t \in Tx, NEW ok \in BOOLEAN, Abort(t, ok)
      PROVE  wal' = wal \/ Appended(t, "abort")
  BY <1>3, AppendShape DEF Abort
<1>4. ASSUME NEW w \in Workers, CheckpointCut(w)
      PROVE  wal' = <<>>
  BY <1>4 DEF CheckpointCut
<1>5. \/ \E t \in Tx, ok \in BOOLEAN : Begin(t, ok) \/ Commit(t, ok) \/ Abort(t, ok)
      \/ \E w \in Workers : CheckpointCut(w)
      \/ wal' = wal
  BY DEF Next, Write, FailApply, Answer, CheckpointScan, CheckpointEmpty, CheckpointWrite,
         CheckpointFail, Stop, Reopen, Open, ReplayWrite, ReplayFail, vars
<1>6. QED
  BY <1>1, <1>2, <1>3, <1>4, <1>5

(* Where a transaction goes, and by which step.                            *)
LEMMA PcStep ==
  ASSUME TypeOK, [Next]_vars, NEW t \in Tx
  PROVE  \/ pc'[t] = pc[t]
         \/ pc[t] = "idle" /\ pc'[t] = "begun" /\ Begin(t, TRUE)
         \/ pc[t] = "idle" /\ pc'[t] = "err" /\ Begin(t, FALSE)
         \/ pc[t] = "begun" /\ pc'[t] = "failed" /\ FailApply(t)
         \/ pc[t] = "begun" /\ pc'[t] = "committed" /\ Commit(t, TRUE)
         \/ pc[t] = "begun" /\ pc'[t] = "err" /\ Commit(t, FALSE)
         \/ pc[t] = "failed" /\ pc'[t] = "aborted" /\ \E ok \in BOOLEAN : Abort(t, ok)
         \/ pc[t] \in {"committed", "aborted"} /\ pc'[t] \in {"ok", "err"} /\ Answer(t)
         \/ pc'[t] = "err" /\ CheckpointFail(t)
         \/ InProgress(t) /\ pc'[t] = "lost" /\ Stop
<1>1. pc \in [Tx -> Pc]
  BY DEF TypeOK
<1>2. ASSUME NEW u \in Tx, NEW s, Goes(u, s)
      PROVE  pc'[t] = IF t = u THEN s ELSE pc[t]
  BY <1>1, <1>2 DEF Goes
<1>3. ASSUME NEW u \in Tx
      PROVE  /\ Begin(u, TRUE) => \/ pc'[t] = pc[t]
                                  \/ pc[t] = "idle" /\ pc'[t] = "begun" /\ Begin(t, TRUE)
             /\ Begin(u, FALSE) => \/ pc'[t] = pc[t]
                                   \/ pc[t] = "idle" /\ pc'[t] = "err" /\ Begin(t, FALSE)
  BY <1>2 DEF Begin, At
<1>4. ASSUME NEW u \in Tx
      PROVE  /\ Commit(u, TRUE) => \/ pc'[t] = pc[t]
                                   \/ pc[t] = "begun" /\ pc'[t] = "committed" /\ Commit(t, TRUE)
             /\ Commit(u, FALSE) => \/ pc'[t] = pc[t]
                                    \/ pc[t] = "begun" /\ pc'[t] = "err" /\ Commit(t, FALSE)
  BY <1>2 DEF Commit, At
<1>5. ASSUME NEW u \in Tx, NEW ok \in BOOLEAN, Abort(u, ok)
      PROVE  \/ pc'[t] = pc[t]
             \/ pc[t] = "failed" /\ pc'[t] = "aborted" /\ Abort(t, ok)
  BY <1>2, <1>5 DEF Abort, At
<1>6. ASSUME NEW u \in Tx, Answer(u)
      PROVE  \/ pc'[t] = pc[t]
             \/ pc[t] \in {"committed", "aborted"} /\ pc'[t] \in {"ok", "err"} /\ Answer(t)
  BY <1>2, <1>6 DEF Answer, At
<1>7. ASSUME NEW u \in Tx, FailApply(u)
      PROVE  pc'[t] = pc[t] \/ (pc[t] = "begun" /\ pc'[t] = "failed" /\ FailApply(t))
  BY <1>2, <1>7 DEF FailApply, At
<1>8. ASSUME NEW w \in Workers, CheckpointFail(w)
      PROVE  pc'[t] = pc[t] \/ (pc'[t] = "err" /\ CheckpointFail(t))
  <2>1. CASE w = Recovery
    BY <1>8, <2>1 DEF CheckpointFail
  <2>2. CASE w \in Tx /\ w # Recovery
    BY <1>2, <1>8, <2>2 DEF CheckpointFail
  <2>3. QED
    BY <2>1, <2>2 DEF Workers
<1>9. CASE Stop
  BY <1>9 DEF Stop
<1>10. \/ \E u \in Tx : Begin(u, TRUE) \/ Begin(u, FALSE) \/ Commit(u, TRUE) \/ Commit(u, FALSE)
       \/ \E u \in Tx, ok \in BOOLEAN : Abort(u, ok)
       \/ \E u \in Tx : Answer(u) \/ FailApply(u)
       \/ \E w \in Workers : CheckpointFail(w)
       \/ Stop
       \/ pc' = pc
  BY DEF Next, Write, CheckpointScan, CheckpointEmpty, CheckpointWrite, CheckpointCut,
         Reopen, Open, ReplayWrite, ReplayFail, vars
<1>11. QED
  BY <1>3, <1>4, <1>5, <1>6, <1>7, <1>8, <1>9, <1>10

---------------------------------------------------------------------------
(* The sequences.                                                          *)

LEMMA NextSequenceIsAhead ==
  ASSUME TypeOK, SeqInv, NEW i \in DOMAIN wal
  PROVE  wal[i].seq < SequenceToUse
<1>1. CASE nextSeq # 0
  BY <1>1 DEF SeqInv, SequenceToUse
<1>2. CASE nextSeq = 0
  <2>1. wal \in Seq(Record)
    BY DEF TypeOK
  <2>2. wal # <<>> /\ i \in 1..Len(wal) /\ Len(wal) \in DOMAIN wal /\ Len(wal) \in Nat
    BY <2>1
  <2>3. wal[i] \in Record /\ wal[Len(wal)] \in Record
    BY <2>1, <2>2
  <2>4. wal[i].seq \in Nat /\ wal[Len(wal)].seq \in Nat
    BY <2>3 DEF Record
  <2>5. wal[i].seq <= wal[Len(wal)].seq
    <3>1. CASE i = Len(wal)
      BY <2>4, <3>1
    <3>2. CASE i < Len(wal)
      BY <2>2, <2>4, <3>2 DEF SeqInv
    <3>3. QED
      BY <2>2, <3>1, <3>2
  <2>6. SequenceToUse = wal[Len(wal)].seq + 1
    BY <1>2, <2>2 DEF SequenceToUse, LastSeq
  <2>7. QED
    BY <2>4, <2>5, <2>6
<1>3. QED
  BY <1>1, <1>2

LEMMA SeqStep == TypeOK /\ SeqInv /\ [Next]_vars => SeqInv'
<1> SUFFICES ASSUME TypeOK, SeqInv, [Next]_vars
             PROVE  SeqInv'
  OBVIOUS
<1>1. \/ nextSeq' \in {0, nextSeq} /\ wal' \in {wal, <<>>}
      \/ \E t \in Tx, kind \in {"begin", "commit", "abort"}, ok \in BOOLEAN :
           LogRecord(t, kind, ok)
  BY DEF Next, Write, FailApply, Answer, Begin, Commit, Abort, CheckpointScan, CheckpointEmpty,
         CheckpointWrite, CheckpointCut, CheckpointFail, Stop, Reopen, Open, ReplayWrite,
         ReplayFail, vars
<1>2. CASE nextSeq' \in {0, nextSeq} /\ wal' \in {wal, <<>>}
  BY <1>2 DEF SeqInv
<1>3. ASSUME NEW t \in Tx, NEW kind \in {"begin", "commit", "abort"}, NEW ok \in BOOLEAN,
             LogRecord(t, kind, ok)
      PROVE  SeqInv'
  <2>1. SequenceToUse \in Nat /\ nextSeq' = SequenceToUse + 1
    BY <1>3, AppendShape, SequencesAreNumbers
  <2>2. \A i \in DOMAIN wal : wal[i].seq \in Nat /\ wal[i].seq < SequenceToUse
    <3>1. \A i \in DOMAIN wal : wal[i] \in Record
      BY DEF TypeOK
    <3>2. QED
      BY <3>1, NextSequenceIsAhead DEF Record
  <2>3. CASE wal' = wal
    BY <2>1, <2>2, <2>3 DEF SeqInv
  <2>4. CASE Appended(t, kind)
    <3>1. PICK r \in Record : r.seq = SequenceToUse /\ GrowsBy(r)
      BY <2>4 DEF Appended
    <3>2. \A i \in DOMAIN wal' : wal'[i].seq < nextSeq'
      BY <2>1, <2>2, <3>1 DEF GrowsBy
    <3>3. ASSUME NEW i \in DOMAIN wal', NEW j \in DOMAIN wal', i < j
          PROVE  wal'[i].seq < wal'[j].seq
      <4>1. i \in DOMAIN wal
        BY <3>1, <3>3 DEF GrowsBy
      <4>2. CASE j \in DOMAIN wal
        BY <3>1, <3>3, <4>1, <4>2 DEF GrowsBy, SeqInv
      <4>3. CASE j = Len(wal) + 1
        BY <2>2, <3>1, <4>1, <4>3 DEF GrowsBy
      <4>4. QED
        BY <3>1, <4>2, <4>3 DEF GrowsBy
    <3>4. QED
      BY <3>2, <3>3 DEF SeqInv
  <2>5. QED
    BY <1>3, <2>3, <2>4, AppendShape
<1>4. QED
  BY <1>1, <1>2, <1>3

---------------------------------------------------------------------------
(* Who is where.                                                           *)

(* Whoever is in progress after a step began it, or was before.            *)
LEMMA InProgressStep ==
  ASSUME TypeOK, [Next]_vars, NEW t \in Tx, InProgress(t)'
  PROVE  InProgress(t) \/ Begin(t, TRUE)
<1>1. pc'[t] \notin {"idle", "ok", "err", "lost"}
  BY DEF InProgress
<1>2. CASE pc'[t] = pc[t]
  BY <1>1, <1>2 DEF InProgress
<1>3. CASE pc[t] \in {"begun", "failed", "committed", "aborted"}
  BY <1>3 DEF InProgress
<1>4. QED
  BY <1>1, <1>2, <1>3, PcStep

LEMMA ScheduleStep == TypeOK /\ ScheduleInv /\ [Next]_vars => ScheduleInv'
<1> SUFFICES ASSUME TypeOK, ScheduleInv, [Next]_vars
             PROVE  ScheduleInv'
  OBVIOUS
<1> USE NamesAssumption DEF TypeOK, Workers
<1>1. ASSUME NEW t \in Tx, Write(t) \/ FailApply(t) \/ Answer(t)
      PROVE  ScheduleInv'
  <2>1. stage' = stage /\ phase' = phase /\ queue' = queue /\ phase = "up" /\ stage[t] = "none"
    BY <1>1 DEF Write, FailApply, Answer, At, checkpoint, recovery
  <2>2. \A u \in Tx : u # t => pc'[u] = pc[u]
    BY <1>1 DEF Write, FailApply, Answer, Goes
  <2>3. QED
    BY <2>1, <2>2 DEF ScheduleInv, InProgress
<1>2. ASSUME NEW t \in Tx, NEW ok \in BOOLEAN, Begin(t, ok) \/ Commit(t, ok) \/ Abort(t, ok)
      PROVE  ScheduleInv'
  <2>1. phase' = phase /\ queue' = queue /\ phase = "up" /\ stage[t] = "none"
    BY <1>2 DEF Begin, Commit, Abort, At, recovery
  <2>2. \A u \in Tx : u # t => pc'[u] = pc[u]
    BY <1>2 DEF Begin, Commit, Abort, Goes
  <2>3. \A w \in Workers : w # t => stage'[w] = stage[w]
    BY <1>2 DEF Begin, Commit, Abort, CheckThresholds
  <2>4. stage'[t] # "none" => pc'[t] \in {"begun", "committed", "aborted"}
    BY <1>2, <2>1 DEF Begin, Commit, Abort, Goes
  <2>5. Recovery # t
    OBVIOUS
  <2>6. QED
    BY <2>1, <2>2, <2>3, <2>4, <2>5 DEF ScheduleInv, InProgress
<1>3. ASSUME NEW w \in Workers,
             CheckpointScan(w) \/ CheckpointEmpty(w) \/ CheckpointWrite(w)
      PROVE  ScheduleInv'
  <2>1. phase' = phase /\ queue' = queue /\ pc' = pc /\ stage[w] # "none"
    BY <1>3 DEF CheckpointScan, CheckpointEmpty, CheckpointWrite, recovery
  <2>2. \A v \in Workers : v # w => stage'[v] = stage[v]
    BY <1>3 DEF CheckpointScan, CheckpointEmpty, CheckpointWrite, MovesTo
  <2>3. QED
    BY <2>1, <2>2 DEF ScheduleInv, InProgress
<1>4. ASSUME NEW w \in Workers, CheckpointCut(w) \/ CheckpointFail(w)
      PROVE  ScheduleInv'
  <2>1. queue' = queue /\ stage[w] # "none" /\ stage'[w] = "none"
    BY <1>4 DEF CheckpointCut, CheckpointFail, MovesTo
  <2>2. \A v \in Workers : v # w => stage'[v] = stage[v]
    BY <1>4 DEF CheckpointCut, CheckpointFail, MovesTo
  <2>3. CASE w = Recovery
    <3>1. pc' = pc /\ phase = "replay"
      BY <1>4, <2>1, <2>3 DEF ScheduleInv, CheckpointCut, CheckpointFail
    <3>2. \A t \in Tx : ~InProgress(t)
      BY <3>1 DEF ScheduleInv
    <3>3. QED
      BY <2>1, <2>2, <2>3, <3>1, <3>2 DEF ScheduleInv, InProgress
  <2>4. CASE w # Recovery
    <3>1. w \in Tx /\ phase' = phase /\ phase = "up"
      BY <1>4, <2>1, <2>4 DEF ScheduleInv, CheckpointCut, CheckpointFail
    <3>2. \A t \in Tx : t # w => pc'[t] = pc[t]
      BY <1>4, <2>4 DEF CheckpointCut, CheckpointFail, Goes
    <3>3. QED
      BY <2>1, <2>2, <3>1, <3>2 DEF ScheduleInv, InProgress
  <2>5. QED
    BY <2>3, <2>4
<1>5. CASE Stop
  <2>1. \A t \in Tx : ~InProgress(t)'
    BY <1>5 DEF Stop, InProgress
  <2>2. QED
    BY <1>5, <2>1 DEF Stop, ScheduleInv
<1>6. CASE Reopen
  BY <1>6 DEF Reopen, ScheduleInv, InProgress, checkpoint
<1>7. CASE Open
  BY <1>7 DEF Open, ScheduleInv, InProgress, checkpoint
<1>8. ASSUME NEW r \in queue, ReplayWrite(r)
      PROVE  ScheduleInv'
  BY <1>8 DEF ReplayWrite, ScheduleInv, InProgress
<1>9. CASE ReplayFail
  BY <1>9 DEF ReplayFail, ScheduleInv, InProgress, checkpoint
<1>10. CASE UNCHANGED vars
  BY <1>10 DEF vars, ScheduleInv, InProgress, checkpoint, recovery
<1>11. QED
  BY <1>1, <1>2, <1>3, <1>4, <1>5, <1>6, <1>7, <1>8, <1>9, <1>10 DEF Next

---------------------------------------------------------------------------
(* What the log holds of a transaction.                                    *)

(* A record of a transaction that a step finds new in the log is one it    *)
(* appended.                                                               *)
LEMMA LoggedStep ==
  ASSUME TypeOK, [Next]_vars, NEW t \in Tx,
         NEW kind \in {"begin", "commit", "abort"}, Logged(t, kind)', ~Logged(t, kind)
  PROVE  \E ok \in BOOLEAN : \/ kind = "begin" /\ Begin(t, ok)
                             \/ kind = "commit" /\ Commit(t, ok)
                             \/ kind = "abort" /\ Abort(t, ok)
<1>1. PICK i \in DOMAIN wal' : wal'[i].kind = kind /\ wal'[i].tx = t
  BY DEF Logged
<1>2. ASSUME NEW u \in Tx, NEW k, Appended(u, k)
      PROVE  k = kind /\ u = t
  BY <1>1, <1>2 DEF Appended, GrowsBy, Logged
<1>3. wal' # wal /\ wal' # <<>>
  BY <1>1 DEF Logged
<1>4. QED
  BY <1>2, <1>3, LogStep

(* While the log loses nothing, a committed begin record stays one.        *)
LEMMA LogKeeps ==
  ASSUME TypeOK, [Next]_vars, wal' # <<>>
  PROVE  /\ DOMAIN wal \subseteq DOMAIN wal'
         /\ \A i \in DOMAIN wal : wal'[i] = wal[i]
         /\ \A i \in DOMAIN wal : CommittedAfter(i) => CommittedAfter(i)'
<1>1. DOMAIN wal \subseteq DOMAIN wal' /\ \A i \in DOMAIN wal : wal'[i] = wal[i]
  BY LogStep DEF Appended, GrowsBy
<1>2. QED
  BY <1>1 DEF CommittedAfter

LEMMA LogInvStep == TypeOK /\ LogInv /\ [Next]_vars => LogInv'
<1> SUFFICES ASSUME TypeOK, LogInv, [Next]_vars, NEW t \in Tx
             PROVE  /\ written'[t] <= Len(Writes[t])
                    /\ pc'[t] = "idle" => written'[t] = 0
                    /\ pc'[t] \in {"idle", "begun", "failed"} =>
                         ~Logged(t, "commit")' /\ ~Logged(t, "abort")'
                    /\ ~(Logged(t, "commit")' /\ Logged(t, "abort")')
                    /\ pc'[t] = "committed" =>
                         Applied(t)' /\ \A i \in DOMAIN wal' : Begins(i, t)' => CommittedAfter(i)'
  BY DEF LogInv
<1>1. pc[t] \in Pc /\ pc'[t] \in Pc
  BY TypeStep DEF TypeOK
<1>2. ASSUME NEW ok \in BOOLEAN, Commit(t, ok)
      PROVE  pc[t] = "begun" /\ pc'[t] \in {"committed", "err"} /\ ~Abort(t, TRUE) /\ ~Abort(t, FALSE)
  BY <1>2 DEF Commit, Abort, At, Goes, TypeOK
<1>3. ASSUME NEW ok \in BOOLEAN, Abort(t, ok)
      PROVE  pc[t] = "failed" /\ pc'[t] = "aborted"
  BY <1>3 DEF Abort, At, Goes, TypeOK
<1>4. Logged(t, "commit")' => Logged(t, "commit") \/ \E ok \in BOOLEAN : Commit(t, ok)
  BY LoggedStep
<1>5. Logged(t, "abort")' => Logged(t, "abort") \/ \E ok \in BOOLEAN : Abort(t, ok)
  BY LoggedStep
<1>6. pc'[t] = "idle" => written'[t] = 0
  <2>1. pc'[t] = "idle" => pc[t] = "idle"
    BY <1>1, PcStep
  <2>2. pc[t] = "idle" => written'[t] = written[t]
    <3>1. ASSUME NEW u \in Tx, Write(u), pc[t] = "idle"
          PROVE  written'[t] = written[t]
      BY <3>1 DEF Write, At, TypeOK
    <3>2. (\E u \in Tx : Write(u)) \/ UNCHANGED written
      BY DEF Next, FailApply, Answer, Begin, Commit, Abort, CheckpointScan, CheckpointEmpty,
             CheckpointWrite, CheckpointCut, CheckpointFail, Stop, Reopen, Open, ReplayWrite,
             ReplayFail, vars
    <3>3. QED
      BY <3>1, <3>2
  <2>3. QED
    BY <2>1, <2>2 DEF LogInv
<1>7. pc'[t] \in {"idle", "begun", "failed"} => ~Logged(t, "commit")' /\ ~Logged(t, "abort")'
  <2>1. pc'[t] \in {"idle", "begun", "failed"} => pc[t] \in {"idle", "begun", "failed"}
    BY <1>1, PcStep
  <2>2. QED
    BY <1>2, <1>3, <1>4, <1>5, <2>1 DEF LogInv
<1>8. ~(Logged(t, "commit")' /\ Logged(t, "abort")')
  BY <1>2, <1>3, <1>4, <1>5 DEF LogInv
<1>9. pc'[t] = "committed" => Applied(t)'
  <2>1. pc'[t] = "committed" => pc[t] = "committed" \/ Commit(t, TRUE)
    BY <1>1, PcStep
  <2>2. Commit(t, TRUE) => Applied(t)
    BY DEF Commit, Applied
  <2>3. QED
    BY <2>1, <2>2, AppliedStays DEF LogInv
<1>10. ASSUME pc'[t] = "committed", NEW i \in DOMAIN wal', Begins(i, t)'
       PROVE  CommittedAfter(i)'
  <2>1. pc[t] = "committed" \/ Commit(t, TRUE)
    BY <1>10, PcStep
  <2>2. CASE pc[t] = "committed"
    <3>1. wal' # <<>>
      BY <1>10
    <3>2. i \in DOMAIN wal
      <4>1. ASSUME NEW u \in Tx, NEW kind, Appended(u, kind), i \notin DOMAIN wal
            PROVE  kind = "begin" /\ u = t
        BY <1>10, <4>1 DEF Appended, GrowsBy, Begins
      <4>2. ASSUME NEW ok \in BOOLEAN, Begin(t, ok)
            PROVE  FALSE
        BY <2>2, <4>2 DEF Begin, At
      <4>3. QED
        BY <3>1, <4>1, <4>2, LogStep
    <3>3. Begins(i, t)
      BY <1>10, <3>1, <3>2, LogKeeps DEF Begins
    <3>4. QED
      BY <2>2, <3>1, <3>2, <3>3, LogKeeps DEF LogInv
  <2>3. CASE Commit(t, TRUE)
    <3>1. PICK r \in Record : r.kind = "commit" /\ r.tx = t /\ GrowsBy(r)
      BY <2>3, AppendShape DEF Commit, Appended
    <3>2. i \in DOMAIN wal /\ i < Len(wal) + 1
      BY <1>10, <3>1 DEF GrowsBy, Begins
    <3>3. QED
      BY <1>10, <3>1, <3>2 DEF GrowsBy, Begins, CommittedAfter
  <2>4. QED
    BY <2>1, <2>2, <2>3
<1>11. written'[t] <= Len(Writes[t])
  <2>1. ASSUME NEW u \in Tx, Write(u)
        PROVE  written'[t] <= Len(Writes[t])
    BY <2>1, WritesAssumption DEF Write, LogInv, TypeOK
  <2>2. (\E u \in Tx : Write(u)) \/ UNCHANGED written
    BY DEF Next, FailApply, Answer, Begin, Commit, Abort, CheckpointScan, CheckpointEmpty,
           CheckpointWrite, CheckpointCut, CheckpointFail, Stop, Reopen, Open, ReplayWrite,
           ReplayFail, vars
  <2>3. QED
    BY <2>1, <2>2 DEF LogInv
<1>12. QED
  BY <1>6, <1>7, <1>8, <1>9, <1>10, <1>11

---------------------------------------------------------------------------
(* Whose turn it is on a key.                                              *)

LEMMA KeysOfType ==
  ASSUME NEW t \in Tx
  PROVE  /\ KeysOf(t) \subseteq Keys
         /\ Len(Writes[t]) \in Nat \ {0}
         /\ \A n \in 1..Len(Writes[t]) : Writes[t][n] # Generated => Writes[t][n] \in KeysOf(t)
         /\ \A k \in KeysOf(t) : \E n \in 1..Len(Writes[t]) : Writes[t][n] = k /\ k # Generated
<1>1. Writes[t] \in Seq(Keys \cup {Generated}) /\ Writes[t] # <<>>
  BY WritesAssumption
<1>2. Len(Writes[t]) \in Nat \ {0} /\ DOMAIN Writes[t] = 1..Len(Writes[t])
  BY <1>1
<1>3. \A n \in DOMAIN Writes[t] : Writes[t][n] \in Keys \cup {Generated}
  BY <1>1
<1>4. QED
  BY <1>2, <1>3 DEF KeysOf

(* What a step does to the expectation of a key.                           *)
LEMMA ExpectedStep ==
  ASSUME TypeOK, [Next]_vars, NEW k \in Keys
  PROVE  \/ expected'[k] \in {expected[k], Unknown}
         \/ \E u \in Tx : /\ Answer(u)
                          /\ pc[u] = "committed" /\ u \notin disturbed /\ k \in KeysOf(u)
                          /\ expected'[k] = ValueOf(u)
                          /\ UNCHANGED <<wal, store, phase>>
<1>1. ASSUME NEW t \in Tx, NEW ok \in BOOLEAN, Begin(t, ok)
      PROVE  expected'[k] \in {expected[k], Unknown}
  BY <1>1 DEF Begin, TypeOK
<1>2. ASSUME NEW u \in Tx, Answer(u), expected'[k] # expected[k]
      PROVE  /\ pc[u] = "committed" /\ u \notin disturbed /\ k \in KeysOf(u)
             /\ expected'[k] = ValueOf(u)
             /\ UNCHANGED <<wal, store, phase>>
  BY <1>2 DEF Answer, At, TypeOK, data, recovery
<1>3. \/ \E t \in Tx, ok \in BOOLEAN : Begin(t, ok)
      \/ \E u \in Tx : Answer(u)
      \/ expected' = expected
  BY DEF Next, Write, FailApply, Commit, Abort, CheckpointScan, CheckpointEmpty, CheckpointWrite,
         CheckpointCut, CheckpointFail, Stop, Reopen, Open, ReplayWrite, ReplayFail, vars, history
<1>4. QED
  BY <1>1, <1>2, <1>3

(* Marks are never taken back, and a transaction that begins marks those   *)
(* it shares a key with and itself.                                        *)
LEMMA DisturbedStep ==
  ASSUME TypeOK, [Next]_vars
  PROVE  /\ disturbed \subseteq disturbed'
         /\ \A t \in Tx : Begin(t, TRUE) =>
              /\ Sharing(t) \subseteq disturbed'
              /\ Sharing(t) # {} => t \in disturbed'
              /\ \A k \in KeysOf(t) : expected'[k] = Unknown
<1>1. disturbed \subseteq disturbed'
  BY DEF Next, Write, FailApply, Answer, Begin, Commit, Abort, CheckpointScan, CheckpointEmpty,
         CheckpointWrite, CheckpointCut, CheckpointFail, Stop, Reopen, Open, ReplayWrite,
         ReplayFail, vars, history
<1>2. ASSUME NEW t \in Tx, Begin(t, TRUE)
      PROVE  /\ Sharing(t) \subseteq disturbed'
             /\ Sharing(t) # {} => t \in disturbed'
             /\ \A k \in KeysOf(t) : expected'[k] = Unknown
  BY <1>2, KeysOfType DEF Begin
<1>3. QED
  BY <1>1, <1>2

LEMMA TurnStep == TypeOK /\ TurnInv /\ [Next]_vars => TurnInv'
<1> SUFFICES ASSUME TypeOK, TurnInv, [Next]_vars
             PROVE  TurnInv'
  OBVIOUS
<1>1. ASSUME NEW t \in Tx, NEW u \in Tx, t # u, InProgress(t)', InProgress(u)', Share(t, u)
      PROVE  t \in disturbed'
  <2>1. CASE InProgress(t) /\ InProgress(u)
    BY <1>1, <2>1, DisturbedStep DEF TurnInv
  <2>2. CASE Begin(t, TRUE)
    <3>1. pc'[u] = pc[u]
      BY <1>1, <2>2 DEF Begin, Goes
    <3>2. u \in Sharing(t)
      BY <1>1, <3>1 DEF Sharing, InProgress, Share
    <3>3. QED
      BY <2>2, <3>2, DisturbedStep
  <2>3. CASE Begin(u, TRUE)
    <3>1. pc'[t] = pc[t]
      BY <1>1, <2>3 DEF Begin, Goes
    <3>2. t \in Sharing(u)
      BY <1>1, <3>1 DEF Sharing, InProgress, Share
    <3>3. QED
      BY <2>3, <3>2, DisturbedStep
  <2>4. QED
    BY <1>1, <2>1, <2>2, <2>3, InProgressStep
<1>2. ASSUME NEW t \in Tx, InProgress(t)', NEW k \in KeysOf(t)
      PROVE  expected'[k] = Unknown
  <2>1. k \in Keys
    BY KeysOfType
  <2>2. CASE Begin(t, TRUE)
    BY <2>2, DisturbedStep
  <2>3. CASE InProgress(t)
    <3>1. expected[k] = Unknown
      BY <2>3 DEF TurnInv, Known
    <3>2. ASSUME NEW u \in Tx, Answer(u), pc[u] = "committed", u \notin disturbed, k \in KeysOf(u)
          PROVE  FALSE
      <4>1. u # t
        BY <1>2, <3>2 DEF Answer, Goes, At, InProgress, TypeOK
      <4>2. InProgress(u) /\ Share(u, t)
        BY <3>2 DEF InProgress, Share
      <4>3. QED
        BY <2>3, <3>2, <4>1, <4>2 DEF TurnInv
    <3>3. QED
      BY <2>1, <3>1, <3>2, ExpectedStep
  <2>4. QED
    BY <1>2, <2>2, <2>3, InProgressStep
<1>3. QED
  BY <1>1, <1>2 DEF TurnInv, Known, Share, KeysOf

---------------------------------------------------------------------------
(* What an unmarked transaction finds.                                     *)

(* A write of transaction t changes at most one key, one of its own.       *)
LEMMA ApplyStep ==
  ASSUME TypeOK, NEW t \in Tx, NEW n \in 1..Len(Writes[t]), Apply(t, n)
  PROVE  /\ \A k \in Keys : store'[k] = IF k = Writes[t][n] THEN ValueOf(t) ELSE store[k]
         /\ Writes[t][n] # Generated => store'[Writes[t][n]] = ValueOf(t)
<1>1. Writes[t][n] \in Keys \/ Writes[t][n] = Generated
  BY KeysOfType
<1>2. CASE Writes[t][n] = Generated
  BY <1>2, NamesAssumption DEF Apply, TypeOK
<1>3. CASE Writes[t][n] # Generated
  <2>1. store' = [store EXCEPT ![Writes[t][n]] = ValueOf(t)]
    BY <1>3 DEF Apply
  <2>2. QED
    BY <1>1, <1>3, <2>1 DEF TypeOK
<1>4. QED
  BY <1>2, <1>3

(* One more write of its own leaves the earlier ones of a transaction.     *)
LEMMA WrittenGrows ==
  ASSUME TypeOK, NEW t \in Tx, NEW n \in Nat, n + 1 \in 1..Len(Writes[t]),
         WrittenUpTo(t, n), Apply(t, n + 1)
  PROVE  WrittenUpTo(t, n + 1)'
<1>1. ASSUME NEW m \in 1..(n + 1), Writes[t][m] # Generated
      PROVE  store'[Writes[t][m]] = ValueOf(t)
  <2>1. m \in 1..Len(Writes[t]) /\ Len(Writes[t]) \in Nat
    BY KeysOfType
  <2>2. Writes[t][m] \in Keys
    BY <1>1, <2>1, KeysOfType
  <2>3. CASE m = n + 1
    BY <1>1, <2>3, ApplyStep
  <2>4. CASE m \in 1..n
    BY <1>1, <2>2, <2>4, ApplyStep DEF WrittenUpTo
  <2>5. QED
    BY <2>3, <2>4
<1>2. QED
  BY <1>1 DEF WrittenUpTo, ValueOf

(* Which steps write a drawer.                                             *)
LEMMA WriteOrReplay ==
  ASSUME [Next]_vars
  PROVE  \/ \E t \in Tx : Write(t)
         \/ \E r \in queue : ReplayWrite(r)
         \/ UNCHANGED <<store, written>>
BY DEF Next, FailApply, Answer, Begin, Commit, Abort, CheckpointScan, CheckpointEmpty,
       CheckpointWrite, CheckpointCut, CheckpointFail, Stop, Reopen, Open, ReplayFail, vars, data

(* The begin record of a transaction that is committed after a step was    *)
(* there before it.                                                        *)
LEMMA BeginOfCommitted ==
  ASSUME TypeOK, LogInv, [Next]_vars, NEW t \in Tx, NEW i \in DOMAIN wal',
         Begins(i, t)', Logged(t, "commit")'
  PROVE  /\ i \in DOMAIN wal /\ Begins(i, t)
         /\ Logged(t, "commit") \/ InProgress(t)
<1>1. Logged(t, "commit") \/ \E ok \in BOOLEAN : Commit(t, ok)
  BY LoggedStep
<1>2. pc[t] # "idle"
  BY <1>1 DEF LogInv, Commit, At
<1>3. i \in DOMAIN wal
  <2>1. ASSUME NEW u \in Tx, NEW kind, Appended(u, kind), i \notin DOMAIN wal
        PROVE  kind = "begin" /\ u = t
    BY <2>1 DEF Appended, GrowsBy, Begins
  <2>2. ASSUME NEW ok \in BOOLEAN, Begin(t, ok)
        PROVE  FALSE
    BY <1>2, <2>2 DEF Begin, At
  <2>3. QED
    BY <2>1, <2>2, LogStep
<1>4. Begins(i, t)
  BY <1>3, LogKeeps DEF Begins
<1>5. QED
  BY <1>1, <1>3, <1>4 DEF Commit, At, InProgress

LEMMA AloneStep ==
  TypeOK /\ ScheduleInv /\ LogInv /\ TurnInv /\ AloneInv /\ [Next]_vars => AloneInv'
<1> SUFFICES ASSUME TypeOK, ScheduleInv, LogInv, TurnInv, AloneInv, [Next]_vars,
                    NEW t \in Tx, InProgress(t)', t \notin disturbed'
             PROVE  /\ WrittenUpTo(t, written[t])'
                    /\ \A i \in DOMAIN wal', u \in Tx :
                         (Begins(i, u)' /\ u # t /\ Share(t, u) /\ Logged(u, "commit")')
                           => \E j \in DOMAIN wal' : i < j /\ Begins(j, t)'
  BY DEF AloneInv, Share, KeysOf
<1>1. t \notin disturbed
  BY DisturbedStep
<1>2. CASE Begin(t, TRUE)
  <2>1. written'[t] = 0 /\ pc[t] = "idle"
    BY <1>2 DEF Begin, At, LogInv
  <2>2. PICK r \in Record : r.kind = "begin" /\ r.tx = t /\ GrowsBy(r)
    BY <1>2, AppendShape DEF Begin, Appended
  <2>3. ASSUME NEW i \in DOMAIN wal', NEW u \in Tx, Begins(i, u)', u # t
        PROVE  \E j \in DOMAIN wal' : i < j /\ Begins(j, t)'
    <3>1. i \in DOMAIN wal
      BY <2>2, <2>3 DEF GrowsBy, Begins
    <3>2. QED
      BY <2>2, <3>1 DEF GrowsBy, Begins
  <2>4. QED
    BY <2>1, <2>3 DEF WrittenUpTo
<1>3. CASE InProgress(t)
  <2>1. WrittenUpTo(t, written[t])
    BY <1>1, <1>3 DEF AloneInv
  <2>2. \A u \in Tx : (u # t /\ InProgress(u)) => ~Share(t, u)
    BY <1>1, <1>3 DEF TurnInv
  <2>3. WrittenUpTo(t, written[t])'
    <3>1. CASE Write(t)
      <4>1. PICK n \in Nat : n = written[t]
        BY DEF TypeOK
      <4>2. n + 1 \in 1..Len(Writes[t])
        BY <3>1, <4>1, KeysOfType DEF Write
      <4>3. Apply(t, n + 1) /\ written'[t] = n + 1
        BY <3>1, <4>1 DEF Write, TypeOK
      <4>4. WrittenUpTo(t, n)
        BY <2>1, <4>1
      <4>5. WrittenUpTo(t, n + 1)'
        BY <4>2, <4>3, <4>4, WrittenGrows
      <4>6. QED
        BY <4>3, <4>5 DEF WrittenUpTo
    <3>2. ASSUME NEW u \in Tx, Write(u), u # t
          PROVE  WrittenUpTo(t, written[t])'
      <4>1. written[u] + 1 \in 1..Len(Writes[u]) /\ Apply(u, written[u] + 1) /\ InProgress(u)
        BY <3>2, KeysOfType DEF Write, TypeOK, At, InProgress
      <4>2. ~Share(t, u) /\ written'[t] = written[t]
        BY <2>2, <3>2, <4>1 DEF Write, TypeOK
      <4>3. \A k \in KeysOf(t) : store'[k] = store[k]
        <5>1. \A k \in KeysOf(t) : k \in Keys /\ k \notin KeysOf(u) /\ k # Generated
          BY <4>2, KeysOfType DEF Share, KeysOf
        <5>2. Writes[u][written[u] + 1] = Generated \/ Writes[u][written[u] + 1] \in KeysOf(u)
          BY <4>1, KeysOfType
        <5>3. QED
          BY <4>1, <5>1, <5>2, ApplyStep
      <4>4. \A m \in 1..written[t] : Writes[t][m] # Generated => Writes[t][m] \in KeysOf(t)
        BY KeysOfType DEF LogInv, TypeOK
      <4>5. QED
        BY <2>1, <4>2, <4>3, <4>4 DEF WrittenUpTo
    <3>3. ASSUME NEW r \in queue, ReplayWrite(r)
          PROVE  FALSE
      BY <1>3, <3>3 DEF ReplayWrite, ScheduleInv
    <3>4. CASE UNCHANGED <<store, written>>
      BY <2>1, <3>4 DEF WrittenUpTo
    <3>5. QED
      BY <3>1, <3>2, <3>3, <3>4, WriteOrReplay
  <2>4. ASSUME NEW i \in DOMAIN wal', NEW u \in Tx, Begins(i, u)', u # t, Share(t, u),
               Logged(u, "commit")'
        PROVE  \E j \in DOMAIN wal' : i < j /\ Begins(j, t)'
    <3>1. i \in DOMAIN wal /\ Begins(i, u) /\ Logged(u, "commit")
      BY <2>2, <2>4, BeginOfCommitted
    <3>2. PICK j \in DOMAIN wal : i < j /\ Begins(j, t)
      BY <1>1, <1>3, <2>4, <3>1 DEF AloneInv
    <3>3. QED
      BY <2>4, <3>2, LogKeeps DEF Begins
  <2>5. QED
    BY <2>3, <2>4
<1>4. QED
  BY <1>2, <1>3, InProgressStep

---------------------------------------------------------------------------
(* The last write the log holds of a key.                                  *)

LEMMA LastWriteStep ==
  TypeOK /\ LogInv /\ TurnInv /\ AloneInv /\ LastWriteInv /\ [Next]_vars => LastWriteInv'
<1> SUFFICES ASSUME TypeOK, LogInv, TurnInv, AloneInv, LastWriteInv, [Next]_vars,
                    NEW k \in Keys, Known(k)',
                    NEW i \in DOMAIN wal', NEW t \in Tx,
                    Begins(i, t)', Spoils(t, k)', Logged(t, "commit")'
             PROVE  \E j \in DOMAIN wal', u \in Tx :
                      i < j /\ Begins(j, u)' /\ CommittedAfter(j)' /\ Brings(u, k)'
  BY DEF LastWriteInv
<1>1. i \in DOMAIN wal /\ Begins(i, t) /\ (Logged(t, "commit") \/ InProgress(t))
  BY BeginOfCommitted
<1>2. k \in KeysOf(t) /\ ValueOf(t) # expected'[k] /\ expected'[k] # Unknown
  BY DEF Spoils, Known, KeysOf, ValueOf
<1>3. wal' # <<>>
  OBVIOUS
<1>4. CASE expected'[k] = expected[k]
  <2>1. Known(k) /\ Spoils(t, k)
    BY <1>2, <1>4 DEF Known, Spoils
  <2>2. Logged(t, "commit")
    BY <1>1, <1>2, <2>1 DEF TurnInv
  <2>3. PICK j \in DOMAIN wal, u \in Tx :
          i < j /\ Begins(j, u) /\ CommittedAfter(j) /\ Brings(u, k)
    BY <1>1, <2>1, <2>2 DEF LastWriteInv
  <2>4. j \in DOMAIN wal' /\ Begins(j, u)' /\ CommittedAfter(j)'
    BY <1>3, <2>3, LogKeeps DEF Begins
  <2>5. Brings(u, k)'
    BY <1>4, <2>3 DEF Brings, KeysOf, ValueOf
  <2>6. QED
    BY <2>3, <2>4, <2>5
<1>5. CASE \E u \in Tx : /\ Answer(u)
                         /\ pc[u] = "committed" /\ u \notin disturbed /\ k \in KeysOf(u)
                         /\ expected'[k] = ValueOf(u)
                         /\ UNCHANGED <<wal, store, phase>>
  <2>1. PICK u \in Tx : /\ pc[u] = "committed" /\ u \notin disturbed /\ k \in KeysOf(u)
                        /\ expected'[k] = ValueOf(u)
                        /\ wal' = wal
    BY <1>5
  <2>2. t # u /\ Share(u, t) /\ InProgress(u)
    BY <1>2, <2>1 DEF Share, InProgress
  <2>3. Logged(t, "commit")
    BY <2>1 DEF Logged
  <2>4. PICK j \in DOMAIN wal : i < j /\ Begins(j, u)
    BY <1>1, <2>1, <2>2, <2>3 DEF AloneInv
  <2>5. CommittedAfter(j)
    BY <2>1, <2>4 DEF LogInv
  <2>6. j \in DOMAIN wal' /\ Begins(j, u)' /\ CommittedAfter(j)'
    BY <1>3, <2>4, <2>5, LogKeeps DEF Begins
  <2>7. Brings(u, k)'
    BY <2>1 DEF Brings, KeysOf, ValueOf
  <2>8. QED
    BY <2>4, <2>6, <2>7
<1>6. QED
  BY <1>2, <1>4, <1>5, ExpectedStep

---------------------------------------------------------------------------
(* What a recovery takes from the log.                                     *)

(* The records to replay are distinguished by their sequences, and one     *)
(* that spoils a key is followed by one that brings what is expected: the  *)
(* checkpoint's sequence cuts off a prefix, so whoever comes later stays.  *)
LEMMA ReplayEndsAsExpected ==
  ASSUME TypeOK, SeqInv, LogInv, LastWriteInv
  PROVE  /\ \A q, r \in ToReplay : q.seq = r.seq => q = r
         /\ \A k \in Keys : Known(k) =>
              \A r \in ToReplay : Spoils(r.tx, k) => \E q \in ToReplay : r.seq < q.seq /\ Brings(q.tx, k)
<1>1. \A i \in DOMAIN wal : i \in Nat /\ wal[i] \in Record
  BY DEF TypeOK
<1>2. \A i \in DOMAIN wal : wal[i].seq \in Nat /\ wal[i].tx \in Tx
  BY <1>1 DEF Record
<1>3. ASSUME NEW q \in ToReplay, NEW r \in ToReplay, q.seq = r.seq
      PROVE  q = r
  <2>1. PICK i, j \in DOMAIN wal : q = wal[i] /\ r = wal[j]
    BY DEF ToReplay
  <2>2. ~(i < j) /\ ~(j < i)
    BY <1>2, <1>3, <2>1 DEF SeqInv
  <2>3. i = j
    BY <1>1, <2>2
  <2>4. QED
    BY <2>1, <2>3
<1>4. ASSUME NEW k \in Keys, Known(k), NEW r \in ToReplay, Spoils(r.tx, k)
      PROVE  \E q \in ToReplay : r.seq < q.seq /\ Brings(q.tx, k)
  <2>1. PICK i \in DOMAIN wal : r = wal[i] /\ r.kind = "begin" /\ meta < r.seq /\ Committed(r.tx)
    BY <1>2 DEF ToReplay, TypeOK
  <2>2. PICK t \in Tx : t = r.tx
    BY <1>2, <2>1
  <2>3. Begins(i, t) /\ Spoils(t, k) /\ Logged(t, "commit")
    BY <1>4, <2>1, <2>2 DEF Begins, Spoils, Logged, Committed
  <2>4. PICK j \in DOMAIN wal, u \in Tx :
          i < j /\ Begins(j, u) /\ CommittedAfter(j) /\ Brings(u, k)
    BY <1>4, <2>3 DEF LastWriteInv
  <2>5. PICK c \in DOMAIN wal : j < c /\ wal[c].kind = "commit" /\ wal[c].tx = u
    BY <2>4 DEF CommittedAfter, Begins
  <2>6. r.seq < wal[j].seq /\ wal[j].seq < wal[c].seq
    BY <2>1, <2>4, <2>5 DEF SeqInv
  <2>7. meta \in Nat
    BY DEF TypeOK
  <2>8. wal[j].seq > meta /\ wal[c].seq > meta
    BY <1>2, <2>1, <2>6, <2>7
  <2>9. Committed(u)
    BY <2>5, <2>8 DEF Committed
  <2>10. ~Aborted(u)
    BY <2>5 DEF Aborted, LogInv, Logged
  <2>11. wal[j] \in ToReplay /\ wal[j].tx = u
    BY <2>4, <2>8, <2>9, <2>10 DEF ToReplay, Begins
  <2>12. QED
    BY <2>4, <2>6, <2>11
<1>5. QED
  BY <1>3, <1>4

(* One write of the replay, of the record r.                               *)
LEMMA ReplayWriteStep ==
  ASSUME TypeOK, QueueInv, NEW r \in queue, ReplayWrite(r)
  PROVE  /\ r.tx \in Tx /\ r \in ToReplay
         /\ \A k \in Keys : store'[k] # store[k] => k \in KeysOf(r.tx) /\ store'[k] = ValueOf(r.tx)
         /\ \/ /\ queue' = queue \ {r} /\ replayed' = 0
               /\ WrittenUpTo(r.tx, Len(Writes[r.tx]))'
            \/ /\ queue' = queue /\ replayed' = replayed + 1
               /\ replayed' < Len(Writes[r.tx])
               /\ WrittenUpTo(r.tx, replayed)'
         /\ \A q \in queue : r.seq <= q.seq
<1>1. PICK t \in Tx : t = r.tx
  BY DEF TypeOK, Record
<1>2. PICK n \in Nat : n = replayed
  BY DEF TypeOK
<1>3. phase = "replay" /\ NextToReplay(r) /\ Apply(t, n + 1)
  BY <1>1, <1>2 DEF ReplayWrite
<1>4. n < Len(Writes[t]) /\ WrittenUpTo(t, n) /\ r \in ToReplay
  BY <1>1, <1>2, <1>3 DEF QueueInv
<1>5. n + 1 \in 1..Len(Writes[t])
  BY <1>4, KeysOfType
<1>6. WrittenUpTo(t, n + 1)'
  BY <1>3, <1>4, <1>5, WrittenGrows
<1>7. \A k \in Keys : store'[k] # store[k] => k \in KeysOf(t) /\ store'[k] = ValueOf(t)
  <2>1. \A k \in Keys : store'[k] = IF k = Writes[t][n + 1] THEN ValueOf(t) ELSE store[k]
    BY <1>3, <1>5, ApplyStep
  <2>2. \A k \in Keys : k # Generated
    BY NamesAssumption
  <2>3. QED
    BY <1>5, <2>1, <2>2, KeysOfType
<1>8. CASE n + 1 = Len(Writes[t])
  <2>1. queue' = queue \ {r} /\ replayed' = 0
    BY <1>1, <1>2, <1>8 DEF ReplayWrite
  <2>2. WrittenUpTo(t, Len(Writes[t]))'
    BY <1>6, <1>8 DEF WrittenUpTo
  <2>3. QED
    BY <1>1, <1>3, <1>4, <1>7, <2>1, <2>2 DEF NextToReplay
<1>9. CASE n + 1 # Len(Writes[t])
  <2>1. queue' = queue /\ replayed' = n + 1
    BY <1>1, <1>2, <1>9 DEF ReplayWrite
  <2>2. replayed' < Len(Writes[t])
    BY <1>4, <1>5, <1>9, <2>1, KeysOfType
  <2>3. WrittenUpTo(t, replayed)'
    BY <1>6, <2>1 DEF WrittenUpTo
  <2>4. QED
    BY <1>1, <1>2, <1>3, <1>4, <1>7, <2>1, <2>2, <2>3 DEF NextToReplay
<1>10. QED
  BY <1>8, <1>9

---------------------------------------------------------------------------
(* The drawers and the replay.                                             *)

LEMMA StoreStep ==
  TypeOK /\ ScheduleInv /\ LogInv /\ TurnInv /\ AloneInv /\ StoreInv /\ QueueInv /\ [Next]_vars
    => StoreInv'
<1> SUFFICES ASSUME TypeOK, ScheduleInv, LogInv, TurnInv, AloneInv, StoreInv, QueueInv,
                    [Next]_vars, NEW k \in Keys, Known(k)', store'[k] # expected'[k]
             PROVE  /\ phase' # "up"
                    /\ (\E r \in ToReplay : k \in KeysOf(r.tx))'
                    /\ phase' = "replay" => \E r \in queue' : k \in KeysOf(r.tx)
  BY DEF StoreInv, KeysOf
<1>1. expected'[k] # Unknown
  BY DEF Known
<1>2. expected'[k] = expected[k]
  <2>1. ASSUME NEW u \in Tx, pc[u] = "committed", u \notin disturbed, k \in KeysOf(u),
               expected'[k] = ValueOf(u), store' = store
        PROVE  FALSE
    <3>1. InProgress(u) /\ WrittenUpTo(u, written[u]) /\ written[u] = Len(Writes[u])
      BY <2>1 DEF InProgress, AloneInv, LogInv, Applied
    <3>2. PICK n \in 1..Len(Writes[u]) : Writes[u][n] = k /\ k # Generated
      BY <2>1, KeysOfType
    <3>3. store[k] = ValueOf(u)
      BY <3>1, <3>2 DEF WrittenUpTo
    <3>4. QED
      BY <2>1, <3>3
  <2>2. QED
    BY <1>1, <2>1, ExpectedStep
<1>3. Known(k)
  BY <1>1, <1>2 DEF Known
<1>4. ASSUME NEW r \in queue, ReplayWrite(r)
      PROVE  /\ phase' # "up"
             /\ (\E q \in ToReplay : k \in KeysOf(q.tx))'
             /\ phase' = "replay" => \E q \in queue' : k \in KeysOf(q.tx)
  <2>1. phase = "replay" /\ phase' = "replay" /\ wal' = wal /\ meta' = meta
    BY <1>4 DEF ReplayWrite
  <2>2. ToReplay' = ToReplay
    BY <2>1 DEF ToReplay, Committed, Aborted
  <2>3. (\E q \in queue' : k \in KeysOf(q.tx)) /\ \E q \in ToReplay : k \in KeysOf(q.tx)
    <3>1. CASE Spoils(r.tx, k)
      <4>1. PICK q \in queue : r.seq < q.seq /\ Brings(q.tx, k)
        BY <1>3, <2>1, <3>1 DEF QueueInv
      <4>2. q # r
        BY <4>1 DEF TypeOK, Record
      <4>3. QED
        BY <1>4, <2>1, <4>1, <4>2, ReplayWriteStep DEF QueueInv, Brings
    <3>2. CASE ~Spoils(r.tx, k)
      <4>1. k \in KeysOf(r.tx) => store'[k] # ValueOf(r.tx)
        BY <1>2, <3>2 DEF Spoils
      <4>2. store'[k] = store[k]
        BY <1>4, <4>1, ReplayWriteStep
      <4>3. PICK q \in queue : k \in KeysOf(q.tx)
        BY <1>2, <1>3, <2>1, <4>2 DEF StoreInv
      <4>4. q \in queue'
        <5>1. CASE queue' = queue
          BY <5>1
        <5>2. CASE queue' = queue \ {r} /\ WrittenUpTo(r.tx, Len(Writes[r.tx]))'
          <6>1. PICK t \in Tx : t = r.tx
            BY <1>4, ReplayWriteStep
          <6>2. k \notin KeysOf(t)
            <7>1. SUFFICES ASSUME k \in KeysOf(t)
                           PROVE  FALSE
              OBVIOUS
            <7>2. PICK n \in 1..Len(Writes[t]) : Writes[t][n] = k /\ k # Generated
              BY <7>1, KeysOfType
            <7>3. store'[k] = ValueOf(t)
              BY <5>2, <6>1, <7>2 DEF WrittenUpTo, ValueOf
            <7>4. QED
              BY <4>1, <6>1, <7>1, <7>3
          <6>3. QED
            BY <4>3, <5>2, <6>1, <6>2
        <5>3. QED
          BY <1>4, <5>1, <5>2, ReplayWriteStep
      <4>5. q \in ToReplay
        BY <2>1, <4>3 DEF QueueInv
      <4>6. QED
        BY <4>3, <4>4, <4>5
    <3>3. QED
      BY <3>1, <3>2
  <2>4. QED
    BY <2>1, <2>2, <2>3
<1>5. ASSUME NEW t \in Tx, Write(t)
      PROVE  FALSE
  <2>1. phase = "up" /\ InProgress(t)
    BY <1>5 DEF Write, At, InProgress
  <2>2. k \notin KeysOf(t)
    BY <1>3, <2>1 DEF TurnInv
  <2>3. written[t] + 1 \in 1..Len(Writes[t]) /\ Apply(t, written[t] + 1)
    BY <1>5, KeysOfType DEF Write, TypeOK
  <2>4. k # Writes[t][written[t] + 1]
    BY <2>2, <2>3, KeysOfType, NamesAssumption
  <2>5. store'[k] = store[k]
    BY <2>3, <2>4, ApplyStep
  <2>6. QED
    BY <1>2, <1>3, <2>1, <2>5 DEF StoreInv
<1>6. CASE store' = store
  <2>1. /\ phase # "up"
        /\ \E r \in ToReplay : k \in KeysOf(r.tx)
        /\ phase = "replay" => \E r \in queue : k \in KeysOf(r.tx)
    BY <1>2, <1>3, <1>6 DEF StoreInv
  <2>2. CASE \E w \in Workers :
               CheckpointScan(w) \/ CheckpointEmpty(w) \/ CheckpointWrite(w)
                 \/ CheckpointCut(w) \/ CheckpointFail(w)
    <3>1. PICK w \in Workers : stage[w] # "none"
      BY <2>2 DEF CheckpointScan, CheckpointEmpty, CheckpointWrite, CheckpointCut, CheckpointFail
    <3>2. CASE w \in Tx
      BY <2>1, <3>1, <3>2 DEF ScheduleInv
    <3>3. CASE w = Recovery
      BY <2>1, <3>1, <3>3 DEF ScheduleInv
    <3>4. QED
      BY <3>2, <3>3 DEF Workers
  <2>3. CASE \E t \in Tx : \/ FailApply(t) \/ Answer(t)
                           \/ \E ok \in BOOLEAN : Begin(t, ok) \/ Commit(t, ok) \/ Abort(t, ok)
    BY <2>1, <2>3 DEF FailApply, Answer, Begin, Commit, Abort, At
  <2>4. CASE Open
    <3>1. ToReplay' = ToReplay
      BY <2>4 DEF Open, ToReplay, Committed, Aborted, checkpoint
    <3>2. QED
      BY <2>1, <2>4, <3>1 DEF Open
  <2>5. CASE Stop \/ Reopen \/ ReplayFail
    <3>1. ToReplay' = ToReplay /\ phase' = "down"
      BY <2>5 DEF Stop, Reopen, ReplayFail, ToReplay, Committed, Aborted, checkpoint
    <3>2. QED
      BY <2>1, <3>1
  <2>6. CASE UNCHANGED vars
    <3>1. ToReplay' = ToReplay /\ phase' = phase /\ queue' = queue
      BY <2>6 DEF vars, ToReplay, Committed, Aborted, checkpoint, recovery
    <3>2. QED
      BY <2>1, <3>1
  <2>7. QED
    BY <1>4, <1>5, <2>2, <2>3, <2>4, <2>5, <2>6 DEF Next
<1>7. QED
  BY <1>4, <1>5, <1>6, WriteOrReplay

LEMMA QueueStep ==
  /\ TypeOK /\ SeqInv /\ ScheduleInv /\ LogInv /\ LastWriteInv /\ QueueInv
  /\ [Next]_vars
  => QueueInv'
<1> SUFFICES ASSUME TypeOK, SeqInv, ScheduleInv, LogInv, LastWriteInv, QueueInv,
                    [Next]_vars, phase' = "replay"
             PROVE  /\ \A q, r \in queue' : q.seq = r.seq => q = r
                    /\ queue' \subseteq ToReplay'
                    /\ \A r \in queue' : NextToReplay(r)' =>
                         replayed' < Len(Writes[r.tx]) /\ WrittenUpTo(r.tx, replayed)'
                    /\ \A k \in Keys : Known(k)' => \A r \in queue' :
                         Spoils(r.tx, k)' => \E q \in queue' : r.seq < q.seq /\ Brings(q.tx, k)'
  BY DEF QueueInv
<1>1. CASE Open
  <2>1. queue' = ToReplay /\ ToReplay' = ToReplay /\ replayed' = 0 /\ expected' = expected
    BY <1>1 DEF Open, ToReplay, Committed, Aborted, checkpoint, history
  <2>2. \A k : /\ Known(k)' <=> Known(k)
               /\ \A r \in ToReplay : Spoils(r.tx, k)' <=> Spoils(r.tx, k)
               /\ \A q \in ToReplay : Brings(q.tx, k)' <=> Brings(q.tx, k)
    BY <2>1 DEF Known, Spoils, Brings, KeysOf, ValueOf
  <2>3. ASSUME NEW r \in queue'
        PROVE  replayed' < Len(Writes[r.tx]) /\ WrittenUpTo(r.tx, replayed)'
    <3>1. r.tx \in Tx
      BY <2>3, TypeStep DEF TypeOK, Record
    <3>2. QED
      BY <2>1, <3>1, KeysOfType DEF WrittenUpTo
  <2>4. QED
    BY <2>1, <2>2, <2>3, ReplayEndsAsExpected
<1>2. ASSUME NEW r \in queue, ReplayWrite(r)
      PROVE  QueueInv'
  <2>1. phase = "replay" /\ wal' = wal /\ meta' = meta /\ expected' = expected
    BY <1>2 DEF ReplayWrite, history
  <2>2. ToReplay' = ToReplay
    BY <2>1 DEF ToReplay, Committed, Aborted
  <2>3. queue' \subseteq queue
    BY <1>2, ReplayWriteStep
  <2>4. \A q, p \in queue' : q.seq = p.seq => q = p
    BY <2>1, <2>3 DEF QueueInv
  <2>5. queue' \subseteq ToReplay'
    BY <2>1, <2>2, <2>3 DEF QueueInv
  <2>6. ASSUME NEW q \in queue', NextToReplay(q)'
        PROVE  replayed' < Len(Writes[q.tx]) /\ WrittenUpTo(q.tx, replayed)'
    <3>1. CASE replayed' = 0
      <4>1. q.tx \in Tx
        BY <2>3 DEF TypeOK, Record
      <4>2. QED
        BY <3>1, <4>1, KeysOfType DEF WrittenUpTo
    <3>2. CASE queue' = queue /\ replayed' < Len(Writes[r.tx]) /\ WrittenUpTo(r.tx, replayed)'
      <4>1. q.seq <= r.seq /\ r.seq <= q.seq
        BY <1>2, <2>6, <3>2, ReplayWriteStep DEF NextToReplay
      <4>2. q.seq \in Nat /\ r.seq \in Nat
        BY <2>3 DEF TypeOK, Record
      <4>3. q = r
        BY <2>1, <2>3, <4>1, <4>2 DEF QueueInv
      <4>4. QED
        BY <3>2, <4>3
    <3>3. QED
      BY <1>2, <3>1, <3>2, ReplayWriteStep
  <2>7. ASSUME NEW k \in Keys, Known(k)', NEW q \in queue', Spoils(q.tx, k)'
        PROVE  \E p \in queue' : q.seq < p.seq /\ Brings(p.tx, k)'
    <3>1. Known(k) /\ Spoils(q.tx, k)
      BY <2>1, <2>7 DEF Known, Spoils, KeysOf, ValueOf
    <3>2. PICK p \in queue : q.seq < p.seq /\ Brings(p.tx, k)
      BY <2>1, <2>3, <3>1 DEF QueueInv
    <3>3. r.seq <= q.seq
      BY <1>2, <2>3, ReplayWriteStep
    <3>4. p # r
      BY <2>3, <3>2, <3>3 DEF TypeOK, Record
    <3>5. p \in queue'
      BY <1>2, <3>2, <3>4, ReplayWriteStep
    <3>6. Brings(p.tx, k)'
      BY <2>1, <3>2 DEF Brings, KeysOf, ValueOf
    <3>7. QED
      BY <3>2, <3>5, <3>6
  <2>8. QED
    BY <2>4, <2>5, <2>6, <2>7 DEF QueueInv
<1>3. CASE \E w \in Workers :
             CheckpointScan(w) \/ CheckpointEmpty(w) \/ CheckpointWrite(w)
               \/ CheckpointCut(w) \/ CheckpointFail(w)
  <2>1. PICK w \in Workers : stage[w] # "none" /\ queue' = queue /\ (phase' = phase \/ w = Recovery)
    BY <1>3 DEF CheckpointScan, CheckpointEmpty, CheckpointWrite, CheckpointCut, CheckpointFail,
                recovery
  <2>2. w # Recovery => FALSE
    BY <2>1 DEF ScheduleInv, Workers
  <2>3. queue' = {}
    BY <2>1, <2>2 DEF ScheduleInv
  <2>4. QED
    BY <2>3
<1>4. CASE \E t \in Tx : \/ Write(t) \/ FailApply(t) \/ Answer(t)
                         \/ \E ok \in BOOLEAN : Begin(t, ok) \/ Commit(t, ok) \/ Abort(t, ok)
  BY <1>4 DEF Write, FailApply, Answer, Begin, Commit, Abort, At, recovery
<1>5. CASE Stop \/ Reopen \/ ReplayFail
  BY <1>5 DEF Stop, Reopen, ReplayFail
<1>6. CASE UNCHANGED vars
  <2>1. /\ phase = "replay" /\ wal' = wal /\ meta' = meta /\ expected' = expected /\ store' = store
        /\ queue' = queue /\ replayed' = replayed
    BY <1>6 DEF vars, data, checkpoint, recovery, history
  <2>2. QueueInv'
    BY <2>1 DEF QueueInv, ToReplay, Committed, Aborted, NextToReplay, WrittenUpTo, Known, Spoils,
                Brings, KeysOf, ValueOf
  <2>3. QED
    BY <2>2 DEF QueueInv
<1>7. QED
  BY <1>1, <1>2, <1>3, <1>4, <1>5, <1>6 DEF Next, QueueInv

---------------------------------------------------------------------------
(* The theorem.                                                            *)

RecoveryInv ==
  /\ TypeOK
  /\ SeqInv
  /\ ScheduleInv
  /\ LogInv
  /\ TurnInv
  /\ AloneInv
  /\ LastWriteInv
  /\ StoreInv
  /\ QueueInv

LEMMA RecoveryInvInit == Init => RecoveryInv
<1> SUFFICES ASSUME Init
             PROVE  RecoveryInv
  OBVIOUS
<1>1. TypeOK
  BY TypeInit
<1>2. wal = <<>> /\ DOMAIN wal = {} /\ phase = "down"
  BY DEF Init
<1>3. \A t \in Tx : pc[t] = "idle" /\ written[t] = 0 /\ ~InProgress(t)
  BY DEF Init, InProgress
<1>4. SeqInv /\ LastWriteInv /\ QueueInv
  BY <1>2 DEF Init, SeqInv, LastWriteInv, QueueInv
<1>5. ScheduleInv
  BY <1>3 DEF Init, ScheduleInv, Workers
<1>6. LogInv
  BY <1>2, <1>3, KeysOfType DEF LogInv, Logged
<1>7. TurnInv /\ AloneInv
  BY <1>3 DEF TurnInv, AloneInv
<1>8. StoreInv
  BY DEF Init, StoreInv
<1>9. QED
  BY <1>1, <1>4, <1>5, <1>6, <1>7, <1>8 DEF RecoveryInv

(* Every acknowledged mutation that met no other on its keys is what an    *)
(* open database holds: through any number of stops, failed appends,       *)
(* half-written checkpoints and interrupted or repeated replays, with any  *)
(* transactions over any keys.                                             *)
THEOREM AckedSurvivesRecovery == Spec => []RecoveryKeepsAcked
<1>1. Init => RecoveryInv
  BY RecoveryInvInit
<1>2. RecoveryInv /\ [Next]_vars => RecoveryInv'
  BY TypeStep, SeqStep, ScheduleStep, LogInvStep, TurnStep, AloneStep, LastWriteStep, StoreStep,
     QueueStep DEF RecoveryInv
<1>3. RecoveryInv => RecoveryKeepsAcked
  BY DEF RecoveryInv, StoreInv, Known, RecoveryKeepsAcked
<1>4. QED
  BY <1>1, <1>2, <1>3, PTL DEF Spec
==========================================================================
