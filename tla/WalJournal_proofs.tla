------------------------ MODULE WalJournal_proofs ------------------------
(***************************************************************************)
(* Proofs about WalJournal: its types, the safety of an acknowledged       *)
(* append, and that it implements DurableLog.                              *)
(***************************************************************************)
EXTENDS WalJournal, TLAPS

---------------------------------------------------------------------------
(* What a write leaves in the file.                                        *)

(* part is what reached the file of the batch b: the first frames of b,    *)
(* the last of which may be torn.                                          *)
IsPart(part, b) ==
  /\ part \in Seq(Cell)
  /\ Len(part) \leq Len(b)
  /\ \A i \in 1..Len(part) :
       /\ part[i].seq = b[i].seq
       /\ part[i].call = b[i].call
       /\ part[i].whole => b[i].whole

LEMMA TornIsCell ==
  ASSUME NEW cell \in Cell
  PROVE  /\ Torn(cell) \in Cell
         /\ Torn(cell).seq = cell.seq
         /\ Torn(cell).call = cell.call
         /\ ~Torn(cell).whole
BY DEF Torn, Cell

(* Every outcome of a write, complete or not, is a part of its batch.      *)
LEMMA WritesAreParts ==
  ASSUME NEW b \in Seq(Cell), NEW part \in PartialWrites(b) \cup {b}
  PROVE  IsPart(part, b)
<1>1. CASE part = b
  BY <1>1 DEF IsPart
<1>2. CASE \E k \in 0..(Len(b) - 1) : part = SubSeq(b, 1, k)
  <2>1. PICK k \in 0..(Len(b) - 1) : part = SubSeq(b, 1, k)
    BY <1>2
  <2>2. QED
    BY <2>1 DEF IsPart
<1>3. CASE \E k \in 0..(Len(b) - 1) : part = Append(SubSeq(b, 1, k), Torn(b[k + 1]))
  <2>1. PICK k \in 0..(Len(b) - 1) : part = Append(SubSeq(b, 1, k), Torn(b[k + 1]))
    BY <1>3
  <2> DEFINE whole == SubSeq(b, 1, k)
  <2>2. whole \in Seq(Cell) /\ Len(whole) = k /\ \A i \in 1..k : whole[i] = b[i]
    OBVIOUS
  <2>3. b[k + 1] \in Cell
    OBVIOUS
  <2>4. /\ Torn(b[k + 1]) \in Cell
        /\ Torn(b[k + 1]).seq = b[k + 1].seq
        /\ Torn(b[k + 1]).call = b[k + 1].call
        /\ ~Torn(b[k + 1]).whole
    BY <2>3, TornIsCell
  <2> HIDE DEF whole
  <2>5. part \in Seq(Cell) /\ Len(part) = k + 1
    BY <2>1, <2>2, <2>4 DEF whole
  <2>6. ASSUME NEW i \in 1..Len(part)
        PROVE  part[i] = IF i = k + 1 THEN Torn(b[k + 1]) ELSE b[i]
    BY <2>1, <2>2, <2>4, <2>5 DEF whole
  <2>7. QED
    BY <2>4, <2>5, <2>6 DEF IsPart
<1>4. QED
  BY <1>1, <1>2, <1>3 DEF PartialWrites

(* A write, successful or not, appends a part of its batch to the file.    *)
LEMMA WrittenAppends ==
  ASSUME NEW b \in Seq(Cell), NEW ok \in BOOLEAN, Written(b, ok)
  PROVE  \E part : IsPart(part, b) /\ file' = file \o part /\ (ok => part = b)
BY WritesAreParts DEF Written

LEMMA PartConcatenated ==
  ASSUME NEW f \in Seq(Cell), NEW b \in Seq(Cell), NEW part, IsPart(part, b)
  PROVE  /\ f \o part \in Seq(Cell)
         /\ Len(f \o part) = Len(f) + Len(part)
         /\ \A i \in 1..Len(f) : (f \o part)[i] = f[i]
         /\ \A i \in 1..Len(part) : (f \o part)[Len(f) + i] = part[i]
BY DEF IsPart

---------------------------------------------------------------------------
(* Type correctness.                                                       *)

LEMMA SequenceTypes ==
  ASSUME TypeOK, NEW n \in SequencesToUse
  PROVE  n \in Nat /\ (n # 0 \/ nextSeq = 0) /\ n \in Nat \ {0}
<1>1. CASE nextSeq # 0
  BY <1>1 DEF SequencesToUse, TypeOK
<1>2. CASE nextSeq = 0 /\ Readable(file) = {}
  BY <1>2 DEF SequencesToUse
<1>3. CASE nextSeq = 0 /\ Readable(file) # {}
  <2>1. PICK i \in Readable(file) : n = file[i].seq + 1
    BY <1>3 DEF SequencesToUse
  <2>2. file[i] \in Cell
    BY DEF TypeOK, Readable
  <2>3. QED
    BY <2>1, <2>2 DEF Cell
<1>4. QED
  BY <1>1, <1>2, <1>3

LEMMA FlushTypes ==
  ASSUME TypeOK, NEW b \in Seq(Cell), NEW own \in Nat, NEW ok \in BOOLEAN,
         Flush(b, own, ok)
  PROVE  /\ file' \in Seq(Cell)
         /\ pending' \in Seq(Cell)
         /\ completed' \subseteq Outcome
         /\ faults' \in 0..MaxFaults
<1>1. CASE b = <<>>
  <2>1. UNCHANGED <<file, faults>> /\ pending' = <<>> /\ completed' \subseteq completed
    BY <1>1 DEF Flush, OutcomesOf
  <2>2. QED
    BY <2>1 DEF TypeOK
<1>2. CASE b # <<>>
  <2>1. Written(b, ok)
    BY <1>2 DEF Flush
  <2>2. PICK part : IsPart(part, b) /\ file' = file \o part
    BY <2>1, WrittenAppends
  <2>3. file' \in Seq(Cell)
    BY <2>2, PartConcatenated DEF TypeOK
  <2>4. OutcomesOf(b, ok) \subseteq Outcome
    <3>1. \A i \in DOMAIN b : b[i].seq \in Nat \ {0}
      <4> TAKE i \in DOMAIN b
      <4>1. b[i] \in Cell
        OBVIOUS
      <4>2. QED
        BY <4>1 DEF Cell
    <3>2. QED
      BY <3>1 DEF OutcomesOf, Outcome
  <2>5. faults' \in 0..MaxFaults
    BY <2>1, MaxFaultsAssumption DEF Written, TypeOK
  <2>6. QED
    BY <2>3, <2>4, <2>5 DEF Flush, TypeOK
<1>3. QED
  BY <1>1, <1>2

LEMMA StopTypes ==
  ASSUME TypeOK, NEW b \in Seq(Cell), NEW cut \in SUBSET Calls, StopDuring(b, cut),
         seqOf' \in [Calls -> Nat]
  PROVE  TypeOK'
<1>1. PICK part \in PartialWrites(b) \cup {b} : file' = file \o part
  BY DEF StopDuring
<1>2. file' \in Seq(Cell)
  BY <1>1, WritesAreParts, PartConcatenated DEF TypeOK
<1>3. faults' \in 0..MaxFaults
  BY MaxFaultsAssumption DEF StopDuring, TypeOK
<1>4. status' \in [Calls -> Status]
  BY DEF StopDuring, TypeOK, Status
<1>5. QED
  BY <1>2, <1>3, <1>4 DEF StopDuring, TypeOK, history

LEMMA TypeStep == TypeOK /\ [Next]_vars => TypeOK'
<1> SUFFICES ASSUME TypeOK, [Next]_vars PROVE TypeOK'
  OBVIOUS
<1> USE DEF TypeOK
<1>1. ASSUME NEW c \in Calls, NEW ok \in BOOLEAN
      PROVE  [status EXCEPT ![c] = IF ok THEN "ok" ELSE "err"] \in [Calls -> Status]
  BY DEF Status
<1>2. ASSUME NEW c \in Calls, NEW n \in SequencesToUse
      PROVE  Frame(c, n) \in Cell
  BY SequenceTypes DEF Frame, Cell
<1>3. ASSUME NEW c \in Calls, NEW n, TakeSequence(c, n)
      PROVE  /\ n \in SequencesToUse /\ n \in Nat
             /\ nextSeq' \in Nat /\ seqOf' \in [Calls -> Nat]
  BY <1>3, SequenceTypes DEF TakeSequence
<1>4. ASSUME NEW c \in Calls, AppendRejected(c) PROVE TypeOK'
  BY <1>1, <1>4 DEF AppendRejected, Answer, state, history
<1>5. ASSUME NEW c \in Calls, AppendUnencodable(c) PROVE TypeOK'
  BY <1>1, <1>3, <1>5 DEF AppendUnencodable, Answer, history
<1>6. ASSUME NEW c \in Calls, Enqueue(c) PROVE TypeOK'
  <2>1. PICK n \in SequencesToUse : TakeSequence(c, n) /\ pending' = Append(pending, Frame(c, n))
    BY <1>6 DEF Enqueue
  <2>2. pending' \in Seq(Cell)
    BY <1>2, <2>1
  <2>3. status' \in [Calls -> Status]
    BY <1>6 DEF Enqueue, Status
  <2>4. QED
    BY <1>3, <1>6, <2>1, <2>2, <2>3 DEF Enqueue, history
<1>7. ASSUME NEW c \in Calls, CrashInAppend(c) PROVE TypeOK'
  <2>1. PICK n \in SequencesToUse :
          /\ seqOf' = [seqOf EXCEPT ![c] = n]
          /\ StopDuring((IF policy.mode = "strict" THEN <<>> ELSE pending) \o <<Frame(c, n)>>, {c})
    BY <1>7 DEF CrashInAppend
  <2>2. (IF policy.mode = "strict" THEN <<>> ELSE pending) \o <<Frame(c, n)>> \in Seq(Cell)
    BY <1>2
  <2>3. seqOf' \in [Calls -> Nat]
    BY <2>1, SequenceTypes
  <2>4. {c} \in SUBSET Calls
    OBVIOUS
  <2> HIDE DEF TypeOK
  <2>5. QED
    BY <2>1, <2>2, <2>3, <2>4, StopTypes
<1>8. ASSUME NEW c \in Calls, NEW ok \in BOOLEAN, AppendStrict(c, ok) PROVE TypeOK'
  <2>1. PICK n \in SequencesToUse : TakeSequence(c, n) /\ Written(<<Frame(c, n)>>, ok)
    BY <1>8 DEF AppendStrict
  <2>2. <<Frame(c, n)>> \in Seq(Cell)
    BY <1>2
  <2>3. PICK part : IsPart(part, <<Frame(c, n)>>) /\ file' = file \o part
    BY <2>1, <2>2, WrittenAppends
  <2>4. file' \in Seq(Cell)
    BY <2>2, <2>3, PartConcatenated
  <2>5. faults' \in 0..MaxFaults
    BY <2>1, MaxFaultsAssumption DEF Written
  <2>6. QED
    BY <1>1, <1>3, <1>8, <2>1, <2>4, <2>5 DEF AppendStrict, Answer
<1>9. ASSUME NEW c \in Calls, NEW ok \in BOOLEAN, EnqueueAndFlush(c, ok) PROVE TypeOK'
  <2>1. PICK n \in SequencesToUse :
          TakeSequence(c, n) /\ Flush(Append(pending, Frame(c, n)), n, ok)
    BY <1>9 DEF EnqueueAndFlush
  <2>2. Append(pending, Frame(c, n)) \in Seq(Cell)
    BY <1>2
  <2>3. n \in Nat /\ nextSeq' \in Nat /\ seqOf' \in [Calls -> Nat]
    BY <1>3, <2>1
  <2>4. /\ file' \in Seq(Cell)
        /\ pending' \in Seq(Cell)
        /\ completed' \subseteq Outcome
        /\ faults' \in 0..MaxFaults
    <3> HIDE DEF TypeOK
    <3>1. QED
      BY <2>1, <2>2, <2>3, FlushTypes
  <2>5. QED
    BY <1>1, <1>9, <2>3, <2>4 DEF EnqueueAndFlush, Answer, history
<1>10. ASSUME NEW c \in Calls, NEW ok \in BOOLEAN, Collect(c, ok) PROVE TypeOK'
  BY <1>1, <1>10 DEF Collect, Answer, history
<1>11. ASSUME NEW c \in Calls, NEW ok \in BOOLEAN, Timeout(c, ok) PROVE TypeOK'
  BY <1>1, <1>11, FlushTypes DEF Timeout, Answer, history
<1>12. ASSUME NEW p \in Policies, SetPolicy(p) PROVE TypeOK'
  BY <1>12 DEF SetPolicy, history
<1>13. ASSUME Truncate PROVE TypeOK'
  <2>1. ASSUME NEW i \in DOMAIN file PROVE file[i].call \in Calls
    <3>1. file[i] \in Cell
      OBVIOUS
    <3>2. QED
      BY <3>1 DEF Cell
  <2>2. QED
    BY <1>13, <2>1 DEF Truncate, state
<1>14. ASSUME Crash PROVE TypeOK'
  <2>1. PICK b \in {<<>>, pending} : StopDuring(b, {})
    BY <1>14 DEF Crash
  <2>2. b \in Seq(Cell)
    <3>1. CASE b = <<>>
      BY <3>1
    <3>2. CASE b = pending
      BY <3>2
    <3>3. QED
      BY <3>1, <3>2
  <2>3. seqOf' \in [Calls -> Nat]
    BY <1>14 DEF Crash
  <2>4. {} \in SUBSET Calls
    OBVIOUS
  <2> HIDE DEF TypeOK
  <2>5. QED
    BY <2>1, <2>2, <2>3, <2>4, StopTypes
<1>15. CASE UNCHANGED vars
  BY <1>15 DEF vars
<1>16. QED
  BY <1>4, <1>5, <1>6, <1>7, <1>8, <1>9, <1>10, <1>11, <1>12, <1>13, <1>14, <1>15 DEF Next

(* Every reachable state has the types of TypeOK, whatever the calls, the  *)
(* policies and the number of faults.                                      *)
THEOREM TypeCorrect == Spec => []TypeOK
<1>1. Init => TypeOK
  <2> SUFFICES ASSUME Init PROVE TypeOK
    OBVIOUS
  <2>1. <<>> \in Seq(Cell)
    OBVIOUS
  <2>2. file \in Seq(Cell) /\ pending \in Seq(Cell)
    BY <2>1 DEF Init
  <2>3. faults \in 0..MaxFaults
    BY MaxFaultsAssumption DEF Init
  <2>4. QED
    BY <2>2, <2>3 DEF Init, TypeOK, Status
<1>2. QED
  BY <1>1, TypeStep, PTL DEF Spec

---------------------------------------------------------------------------
(* The batch and the outcomes.                                             *)

(* What has to hold between the batch, the map of outcomes and the waiting *)
(* calls for no waiter to be stranded or to be told of a write that is not *)
(* its own.  A sequence names one waiter (the counter only grows while     *)
(* somebody waits), so an outcome found under a sequence is the caller's.  *)
InBatch(c) == \E i \in DOMAIN pending : pending[i].call = c
Settled(c) == \E d \in completed : d.seq = seqOf[c]
Waiting(c) == status[c] = "waiting"

BatchOfWaiters ==
  \A i \in DOMAIN pending :
    /\ pending[i].whole
    /\ Waiting(pending[i].call)
    /\ seqOf[pending[i].call] = pending[i].seq
SequencesSpent ==
  /\ \A d \in completed : d.seq < nextSeq
  /\ \A c \in Calls : Waiting(c) => seqOf[c] < nextSeq
OneOutcomePerSequence ==
  \A d, e \in completed : d.seq = e.seq => d = e
OneWaiterPerSequence ==
  \A c, d \in Calls : Waiting(c) /\ Waiting(d) /\ seqOf[c] = seqOf[d] => c = d
SuccessIsStored ==
  \A d \in completed : d.ok =>
    \E c \in Calls : Waiting(c) /\ seqOf[c] = d.seq /\ Stored(c)

BatchInv ==
  /\ BatchOfWaiters
  /\ SequencesSpent
  /\ OneOutcomePerSequence
  /\ OneWaiterPerSequence
  /\ SuccessIsStored
  /\ \A c \in Calls : Waiting(c) => (InBatch(c) <=> ~Settled(c))
  /\ AckedInFile

(* What is stored stays stored when the file only grows.                   *)
LEMMA GrowingKeepsStored ==
  ASSUME NEW b \in Seq(Cell), NEW part, IsPart(part, b), TypeOK,
         file' = file \o part, checkpointed' = checkpointed,
         NEW c \in Calls
  PROVE  /\ Stored(c) => Stored(c)'
         /\ part = b /\ (\E i \in DOMAIN b : b[i].call = c /\ b[i].whole) => Stored(c)'
<1>1. /\ Len(file') = Len(file) + Len(part)
      /\ file' \in Seq(Cell)
      /\ \A i \in 1..Len(file) : file'[i] = file[i]
      /\ \A i \in 1..Len(part) : file'[Len(file) + i] = part[i]
  BY PartConcatenated DEF TypeOK
<1>2. file \in Seq(Cell) /\ part \in Seq(Cell)
  BY DEF TypeOK, IsPart
<1>3. ASSUME Stored(c) PROVE Stored(c)'
  <2>1. CASE c \in checkpointed
    BY <2>1 DEF Stored
  <2>2. CASE InFile(c)
    <3>1. PICK i \in DOMAIN file : file[i].call = c /\ file[i].whole
      BY <2>2 DEF InFile
    <3>2. i \in DOMAIN file' /\ file'[i] = file[i]
      BY <1>1, <1>2
    <3>3. QED
      BY <3>1, <3>2 DEF Stored, InFile
  <2>3. QED
    BY <1>3, <2>1, <2>2 DEF Stored
<1>4. ASSUME part = b, NEW i \in DOMAIN b, b[i].call = c, b[i].whole PROVE Stored(c)'
  <2>1. Len(file) + i \in DOMAIN file' /\ file'[Len(file) + i] = b[i]
    BY <1>1, <1>2, <1>4
  <2>2. QED
    BY <1>4, <2>1 DEF Stored, InFile
<1>5. QED
  BY <1>3, <1>4

(* The step of a leader c of sequence n that writes the batch b, in which  *)
(* it has a frame and every other frame is a waiter's.                     *)
LeaderWrites(c, n, b, ok) ==
  /\ b # <<>>
  /\ Flush(b, n, ok)
  /\ Answer(c, ok)
  /\ checkpointed' = checkpointed
  /\ n < nextSeq' /\ nextSeq \leq nextSeq'
  /\ \A d \in Calls \ {c} : seqOf'[d] = seqOf[d]
  /\ \E i \in DOMAIN b : b[i].call = c
  /\ \A i \in DOMAIN b :
       /\ b[i].whole
       /\ b[i].call = c => b[i].seq = n
       /\ b[i].call # c => Waiting(b[i].call) /\ seqOf[b[i].call] = b[i].seq
  /\ \A d \in Calls \ {c} :
       Waiting(d) => seqOf[d] # n /\ (Settled(d) \/ \E i \in DOMAIN b : b[i].call = d)
  /\ \A d \in completed : d.seq # n
  /\ Waiting(c) => seqOf[c] = n

LEMMA LeaderKeepsBatchInv ==
  ASSUME TypeOK, TypeOK', BatchInv, NEW c \in Calls, NEW n \in Nat, NEW ok \in BOOLEAN,
         NEW b \in Seq(Cell), LeaderWrites(c, n, b, ok)
  PROVE  BatchInv'
<1>1. PICK part : IsPart(part, b) /\ file' = file \o part /\ (ok => part = b)
  BY WrittenAppends DEF LeaderWrites, Flush
<1>2. \A d \in Calls :
        /\ Stored(d) => Stored(d)'
        /\ ok /\ (\E i \in DOMAIN b : b[i].call = d) => Stored(d)'
  BY <1>1, GrowingKeepsStored DEF LeaderWrites
<1>3. /\ pending' = <<>>
      /\ completed' = {d \in completed : \A i \in DOMAIN b : b[i].seq # d.seq}
                        \cup {d \in OutcomesOf(b, ok) : ok => d.seq # n}
  BY DEF LeaderWrites, Flush
<1>4. \A d \in Calls : Waiting(d)' <=> d # c /\ Waiting(d)
  BY DEF LeaderWrites, Answer, Waiting, TypeOK
<1>5. \A d \in Calls : d # c => seqOf'[d] = seqOf[d]
  BY DEF LeaderWrites
<1>6. ASSUME NEW i \in DOMAIN b
      PROVE  b[i] \in Cell /\ b[i].call \in Calls /\ b[i].seq < nextSeq'
  <2>1. b[i] \in Cell
    OBVIOUS
  <2>2. b[i].call \in Calls /\ b[i].seq \in Nat
    BY <2>1 DEF Cell
  <2>3. CASE b[i].call = c
    BY <2>1, <2>2, <2>3 DEF LeaderWrites
  <2>4. CASE b[i].call # c
    <3>1. Waiting(b[i].call) /\ seqOf[b[i].call] = b[i].seq
      BY <2>4 DEF LeaderWrites
    <3>2. b[i].seq < nextSeq
      BY <2>2, <3>1 DEF BatchInv, SequencesSpent
    <3>3. QED
      BY <2>1, <2>2, <3>2 DEF LeaderWrites, TypeOK
  <2>5. QED
    BY <2>3, <2>4
<1>7. BatchOfWaiters'
  BY <1>3 DEF BatchOfWaiters
<1>8. ASSUME NEW d \in completed'
      PROVE  \/ /\ d \in completed
                /\ \A i \in DOMAIN b : b[i].seq # d.seq
             \/ /\ d.ok = ok
                /\ \E i \in DOMAIN b : b[i].seq = d.seq
                /\ ok => d.seq # n
  BY <1>3 DEF OutcomesOf
<1>9. SequencesSpent'
  <2>1. ASSUME NEW d \in completed' PROVE d.seq < nextSeq'
    <3>1. CASE d \in completed
      <4>1. d.seq < nextSeq /\ d.seq \in Nat
        BY <3>1 DEF BatchInv, SequencesSpent, TypeOK, Outcome
      <4>2. QED
        BY <4>1 DEF LeaderWrites, TypeOK
    <3>2. CASE \E i \in DOMAIN b : b[i].seq = d.seq
      BY <1>6, <3>2
    <3>3. QED
      BY <1>8, <3>1, <3>2
  <2>2. ASSUME NEW d \in Calls, Waiting(d)' PROVE seqOf'[d] < nextSeq'
    <3>1. d # c /\ Waiting(d) /\ seqOf'[d] = seqOf[d]
      BY <1>4, <1>5, <2>2
    <3>2. seqOf[d] < nextSeq
      BY <3>1 DEF BatchInv, SequencesSpent
    <3>3. QED
      BY <3>1, <3>2 DEF LeaderWrites, TypeOK
  <2>3. QED
    BY <2>1, <2>2 DEF SequencesSpent
<1>10. OneWaiterPerSequence' /\ OneOutcomePerSequence'
  <2>1. OneWaiterPerSequence'
    BY <1>4, <1>5 DEF BatchInv, OneWaiterPerSequence
  <2>2. ASSUME NEW d \in completed', NEW e \in completed', d.seq = e.seq PROVE d = e
    <3>1. CASE d \in completed /\ \A i \in DOMAIN b : b[i].seq # d.seq
      BY <1>8, <2>2, <3>1 DEF BatchInv, OneOutcomePerSequence
    <3>2. CASE d.ok = ok /\ \E i \in DOMAIN b : b[i].seq = d.seq
      <4>1. d \in Outcome /\ e \in Outcome
        BY DEF TypeOK
      <4>2. e.ok = ok
        BY <1>8, <2>2, <3>2
      <4>3. QED
        BY <2>2, <3>2, <4>1, <4>2 DEF Outcome
    <3>3. QED
      BY <1>8, <3>1, <3>2
  <2>3. QED
    BY <2>1, <2>2 DEF OneOutcomePerSequence
<1>11. SuccessIsStored'
  <2> SUFFICES ASSUME NEW d \in completed', d.ok
               PROVE  \E e \in Calls : Waiting(e)' /\ seqOf'[e] = d.seq /\ Stored(e)'
    BY DEF SuccessIsStored
  <2>1. CASE d \in completed
    <3>1. PICK e \in Calls : Waiting(e) /\ seqOf[e] = d.seq /\ Stored(e)
      BY <2>1 DEF BatchInv, SuccessIsStored
    <3>2. d.seq # n
      BY <2>1 DEF LeaderWrites
    <3>3. e # c
      BY <3>1, <3>2 DEF LeaderWrites
    <3>4. QED
      BY <1>2, <1>4, <1>5, <3>1, <3>3
  <2>2. CASE ok /\ d.seq # n /\ \E i \in DOMAIN b : b[i].seq = d.seq
    <3>1. PICK i \in DOMAIN b : b[i].seq = d.seq
      BY <2>2
    <3>2. b[i].call # c /\ Waiting(b[i].call) /\ seqOf[b[i].call] = d.seq
      BY <2>2, <3>1 DEF LeaderWrites
    <3>3. QED
      BY <1>2, <1>4, <1>5, <1>6, <2>2, <3>2
  <2>3. QED
    BY <1>8, <2>1, <2>2
<1>12. ASSUME NEW d \in Calls, Waiting(d)' PROVE InBatch(d)' <=> ~Settled(d)'
  <2>1. d # c /\ Waiting(d) /\ seqOf'[d] = seqOf[d] /\ seqOf[d] # n
    <3>1. d # c /\ Waiting(d) /\ seqOf'[d] = seqOf[d]
      BY <1>4, <1>5, <1>12
    <3>2. QED
      BY <3>1 DEF LeaderWrites
  <2>2. ~InBatch(d)'
    BY <1>3 DEF InBatch
  <2>3. CASE \E i \in DOMAIN b : b[i].call = d
    <3>1. PICK i \in DOMAIN b : b[i].call = d
      BY <2>3
    <3>2. b[i].seq = seqOf[d]
      BY <2>1, <3>1 DEF LeaderWrites
    <3>3. [seq |-> b[i].seq, ok |-> ok] \in completed'
      BY <1>3, <2>1, <3>2 DEF OutcomesOf
    <3>4. QED
      BY <2>1, <2>2, <3>2, <3>3 DEF Settled
  <2>4. CASE Settled(d) /\ ~ \E i \in DOMAIN b : b[i].call = d
    <3>1. PICK e \in completed : e.seq = seqOf[d]
      BY <2>4 DEF Settled
    <3>2. ASSUME NEW i \in DOMAIN b PROVE b[i].seq # e.seq
      BY <1>6, <2>1, <2>4, <3>1 DEF LeaderWrites, BatchInv, OneWaiterPerSequence
    <3>3. e \in completed'
      BY <1>3, <3>2
    <3>4. QED
      BY <2>1, <2>2, <3>1, <3>3 DEF Settled
  <2>5. QED
    BY <2>1, <2>3, <2>4 DEF LeaderWrites
<1>13. AckedInFile'
  <2> SUFFICES ASSUME NEW d \in Calls, status'[d] = "ok" PROVE Stored(d)'
    BY DEF AckedInFile
  <2>1. CASE d # c
    <3>1. status[d] = "ok"
      BY <2>1 DEF LeaderWrites, Answer, TypeOK
    <3>2. QED
      BY <1>2, <3>1 DEF BatchInv, AckedInFile
  <2>2. CASE d = c
    <3>1. ok /\ \E i \in DOMAIN b : b[i].call = d
      BY <2>2 DEF LeaderWrites, Answer, TypeOK
    <3>2. QED
      BY <1>2, <3>1
  <2>3. QED
    BY <2>1, <2>2
<1>14. QED
  BY <1>7, <1>9, <1>10, <1>11, <1>12, <1>13 DEF BatchInv

(* The sequence an append takes is later than every one in use.            *)
LEMMA SequenceIsFresh ==
  ASSUME TypeOK, BatchInv, NEW n \in SequencesToUse
  PROVE  /\ n \in Nat /\ nextSeq \leq n
         /\ \A d \in Calls : Waiting(d) => seqOf[d] < n
         /\ \A d \in completed : d.seq < n
         /\ \A i \in DOMAIN pending : pending[i].seq < n
<1>1. n \in Nat /\ nextSeq \leq n
  BY SequenceTypes DEF SequencesToUse, TypeOK
<1>2. \A d \in Calls : Waiting(d) => seqOf[d] < n
  BY <1>1 DEF BatchInv, SequencesSpent, TypeOK
<1>3. ASSUME NEW d \in completed PROVE d.seq < n
  <2>1. d.seq \in Nat /\ d.seq < nextSeq
    BY DEF BatchInv, SequencesSpent, TypeOK, Outcome
  <2>2. QED
    BY <1>1, <2>1 DEF TypeOK
<1>4. ASSUME NEW i \in DOMAIN pending PROVE pending[i].seq < n
  <2>1. pending[i] \in Cell
    BY DEF TypeOK
  <2>2. QED
    BY <1>2, <2>1 DEF BatchInv, BatchOfWaiters, Cell
<1>5. QED
  BY <1>1, <1>2, <1>3, <1>4

(* A step that leaves the batch, the outcomes and the waiters alone.       *)
LEMMA QuietStepKeepsBatchInv ==
  ASSUME TypeOK, TypeOK', BatchInv,
         pending' = pending, completed' = completed, nextSeq \leq nextSeq',
         \A d \in Calls : Waiting(d)' <=> Waiting(d),
         \A d \in Calls : Waiting(d) => seqOf'[d] = seqOf[d],
         \A d \in Calls : Stored(d) => Stored(d)',
         \A d \in Calls : status'[d] = "ok" => status[d] = "ok" \/ Stored(d)'
  PROVE  BatchInv'
<1>1. BatchOfWaiters'
  <2> SUFFICES ASSUME NEW i \in DOMAIN pending
               PROVE  /\ pending[i].whole
                      /\ Waiting(pending[i].call)'
                      /\ seqOf'[pending[i].call] = pending[i].seq
    BY DEF BatchOfWaiters
  <2>1. pending[i] \in Cell
    BY DEF TypeOK
  <2>2. pending[i].call \in Calls
    BY <2>1 DEF Cell
  <2>3. QED
    BY <2>2 DEF BatchInv, BatchOfWaiters
<1>2. SequencesSpent'
  <2>1. ASSUME NEW d \in completed PROVE d.seq < nextSeq'
    <3>1. d.seq \in Nat /\ d.seq < nextSeq
      BY DEF BatchInv, SequencesSpent, TypeOK, Outcome
    <3>2. QED
      BY <3>1 DEF TypeOK
  <2>2. ASSUME NEW d \in Calls, Waiting(d)' PROVE seqOf'[d] < nextSeq'
    BY <2>2 DEF BatchInv, SequencesSpent, TypeOK
  <2>3. QED
    BY <2>1, <2>2 DEF SequencesSpent
<1>3. OneWaiterPerSequence' /\ OneOutcomePerSequence'
  BY DEF BatchInv, OneWaiterPerSequence, OneOutcomePerSequence
<1>4. SuccessIsStored'
  BY DEF BatchInv, SuccessIsStored
<1>5. \A c \in Calls : Waiting(c)' => (InBatch(c)' <=> ~Settled(c)')
  BY DEF BatchInv, InBatch, Settled
<1>6. AckedInFile'
  BY DEF BatchInv, AckedInFile
<1>7. QED
  BY <1>1, <1>2, <1>3, <1>4, <1>5, <1>6 DEF BatchInv

(* A process that stops forgets the batch, the outcomes and the waiters.   *)
LEMMA StopKeepsBatchInv ==
  ASSUME TypeOK, TypeOK', BatchInv, NEW b \in Seq(Cell), NEW cut \in SUBSET Calls,
         StopDuring(b, cut)
  PROVE  BatchInv'
<1>1. /\ pending' = <<>> /\ completed' = {} /\ checkpointed' = checkpointed
      /\ \A d \in Calls : ~Waiting(d)' /\ (status'[d] = "ok" => status[d] = "ok")
  BY DEF StopDuring, Waiting, history, TypeOK
<1>2. PICK part \in PartialWrites(b) \cup {b} : file' = file \o part
  BY DEF StopDuring
<1>3. \A d \in Calls : Stored(d) => Stored(d)'
  BY <1>1, <1>2, WritesAreParts, GrowingKeepsStored
<1>4. AckedInFile'
  BY <1>1, <1>3 DEF BatchInv, AckedInFile
<1>5. QED
  BY <1>1, <1>4
     DEF BatchInv, BatchOfWaiters, SequencesSpent, OneOutcomePerSequence,
         OneWaiterPerSequence, SuccessIsStored

LEMMA FrameFields ==
  ASSUME NEW c \in Calls, NEW n \in Nat \ {0}
  PROVE  /\ Frame(c, n) \in Cell
         /\ Frame(c, n).seq = n /\ Frame(c, n).call = c /\ Frame(c, n).whole
BY DEF Frame, Cell

LEMMA StrictKeepsBatchInv ==
  ASSUME TypeOK, TypeOK', BatchInv, NEW c \in Calls, NEW ok \in BOOLEAN, AppendStrict(c, ok)
  PROVE  BatchInv'
<1>1. PICK n \in SequencesToUse : TakeSequence(c, n) /\ Written(<<Frame(c, n)>>, ok)
  BY DEF AppendStrict
<1>2. n \in Nat \ {0} /\ nextSeq \leq nextSeq'
  BY <1>1, SequenceTypes, SequenceIsFresh DEF TakeSequence, TypeOK
<1>3. <<Frame(c, n)>> \in Seq(Cell) /\ Frame(c, n).call = c /\ Frame(c, n).whole
  BY <1>2, FrameFields
<1>4. PICK part : IsPart(part, <<Frame(c, n)>>) /\ file' = file \o part /\ (ok => part = <<Frame(c, n)>>)
  BY <1>1, <1>3, WrittenAppends
<1>5. \A d \in Calls : Stored(d) => Stored(d)'
  BY <1>3, <1>4, GrowingKeepsStored DEF AppendStrict
<1>6. ok => Stored(c)'
  <2>1. \E i \in DOMAIN <<Frame(c, n)>> : <<Frame(c, n)>>[i].call = c /\ <<Frame(c, n)>>[i].whole
    BY <1>3
  <2>2. QED
    BY <1>3, <1>4, <2>1, GrowingKeepsStored DEF AppendStrict
<1>7. /\ \A d \in Calls : Waiting(d)' <=> Waiting(d)
      /\ \A d \in Calls : Waiting(d) => seqOf'[d] = seqOf[d]
      /\ \A d \in Calls : status'[d] = "ok" => status[d] = "ok" \/ Stored(d)'
  BY <1>1, <1>6 DEF AppendStrict, TakeSequence, Answer, Waiting, TypeOK
<1>8. pending' = pending /\ completed' = completed
  BY DEF AppendStrict
<1>9. QED
  BY <1>2, <1>5, <1>7, <1>8, QuietStepKeepsBatchInv

LEMMA EnqueueKeepsBatchInv ==
  ASSUME TypeOK, TypeOK', BatchInv, NEW c \in Calls, Enqueue(c)
  PROVE  BatchInv'
<1>1. PICK n \in SequencesToUse : TakeSequence(c, n) /\ pending' = Append(pending, Frame(c, n))
  BY DEF Enqueue
<1>2. n \in Nat \ {0} /\ nextSeq' = n + 1 /\ seqOf' = [seqOf EXCEPT ![c] = n] /\ ~Waiting(c)
  BY <1>1, SequenceTypes DEF TakeSequence, Waiting
<1>3. /\ Frame(c, n) \in Cell
      /\ Frame(c, n).seq = n /\ Frame(c, n).call = c /\ Frame(c, n).whole
  BY <1>2, FrameFields
<1>4. /\ nextSeq \leq n
      /\ \A d \in Calls : Waiting(d) => seqOf[d] < n
      /\ \A d \in completed : d.seq < n
  BY SequenceIsFresh
<1>5. /\ completed' = completed /\ file' = file /\ checkpointed' = checkpointed
      /\ \A d \in Calls : Waiting(d)' <=> (d = c \/ Waiting(d))
      /\ \A d \in Calls : status'[d] = "ok" => status[d] = "ok"
  BY DEF Enqueue, history, Waiting, TypeOK
<1>6. \A d \in Calls : seqOf'[d] = IF d = c THEN n ELSE seqOf[d]
  BY <1>2 DEF TypeOK
<1>7. /\ Len(pending') = Len(pending) + 1
      /\ \A i \in DOMAIN pending : pending'[i] = pending[i]
      /\ pending'[Len(pending) + 1] = Frame(c, n)
      /\ DOMAIN pending' = DOMAIN pending \cup {Len(pending) + 1}
  BY <1>1, <1>3 DEF TypeOK
<1>8. \A i \in DOMAIN pending : pending[i].call \in Calls \ {c}
  <2> TAKE i \in DOMAIN pending
  <2>1. pending[i] \in Cell
    BY DEF TypeOK
  <2>2. QED
    BY <1>2, <2>1 DEF BatchInv, BatchOfWaiters, Cell
<1>9. BatchOfWaiters'
  BY <1>3, <1>5, <1>6, <1>7, <1>8 DEF BatchInv, BatchOfWaiters
<1>10. SequencesSpent'
  <2>1. ASSUME NEW d \in completed PROVE d.seq < nextSeq'
    <3>1. d.seq \in Nat
      BY DEF TypeOK, Outcome
    <3>2. QED
      BY <1>2, <1>4, <3>1
  <2>2. QED
    BY <1>2, <1>4, <1>5, <1>6, <2>1 DEF SequencesSpent, TypeOK
<1>11. OneWaiterPerSequence' /\ OneOutcomePerSequence'
  BY <1>2, <1>4, <1>5, <1>6
     DEF BatchInv, OneWaiterPerSequence, OneOutcomePerSequence, TypeOK
<1>12. SuccessIsStored'
  BY <1>2, <1>5, <1>6 DEF BatchInv, SuccessIsStored, Stored, InFile
<1>13. ASSUME NEW d \in Calls, Waiting(d)' PROVE InBatch(d)' <=> ~Settled(d)'
  <2>1. CASE d = c
    <3>1. InBatch(d)'
      BY <1>3, <1>7, <2>1 DEF InBatch
    <3>2. ASSUME NEW e \in completed PROVE e.seq # n
      <4>1. e.seq \in Nat /\ e.seq < n
        BY <1>4 DEF TypeOK, Outcome
      <4>2. QED
        BY <1>2, <4>1
    <3>3. ~Settled(d)'
      BY <1>5, <1>6, <2>1, <3>2 DEF Settled
    <3>4. QED
      BY <3>1, <3>3
  <2>2. CASE d # c
    <3>1. InBatch(d)' <=> InBatch(d)
      BY <1>3, <1>7, <2>2 DEF InBatch
    <3>2. Settled(d)' <=> Settled(d)
      BY <1>5, <1>6, <2>2 DEF Settled
    <3>3. QED
      BY <1>5, <1>13, <2>2, <3>1, <3>2 DEF BatchInv
  <2>3. QED
    BY <2>1, <2>2
<1>14. AckedInFile'
  BY <1>5 DEF BatchInv, AckedInFile, Stored, InFile
<1>15. QED
  BY <1>9, <1>10, <1>11, <1>12, <1>13, <1>14 DEF BatchInv

LEMMA EnqueueAndFlushKeepsBatchInv ==
  ASSUME TypeOK, TypeOK', BatchInv, NEW c \in Calls, NEW ok \in BOOLEAN, EnqueueAndFlush(c, ok)
  PROVE  BatchInv'
<1>1. PICK n \in SequencesToUse :
        TakeSequence(c, n) /\ Flush(Append(pending, Frame(c, n)), n, ok)
  BY DEF EnqueueAndFlush
<1> DEFINE b == Append(pending, Frame(c, n))
<1>2. n \in Nat \ {0} /\ nextSeq' = n + 1 /\ seqOf' = [seqOf EXCEPT ![c] = n] /\ ~Waiting(c)
  BY <1>1, SequenceTypes DEF TakeSequence, Waiting
<1>3. /\ Frame(c, n) \in Cell
      /\ Frame(c, n).seq = n /\ Frame(c, n).call = c /\ Frame(c, n).whole
  BY <1>2, FrameFields
<1>4. /\ nextSeq \leq n
      /\ \A d \in Calls : Waiting(d) => seqOf[d] < n
      /\ \A d \in completed : d.seq < n
  BY SequenceIsFresh
<1>5. /\ b \in Seq(Cell) /\ b # <<>>
      /\ \A i \in DOMAIN pending : b[i] = pending[i]
      /\ b[Len(pending) + 1] = Frame(c, n)
      /\ DOMAIN b = DOMAIN pending \cup {Len(pending) + 1}
  <2>1. pending \in Seq(Cell)
    BY DEF TypeOK
  <2>2. b \in Seq(Cell) /\ Len(b) = Len(pending) + 1
    BY <1>3, <2>1
  <2>3. \A i \in 1..(Len(pending) + 1) :
          b[i] = IF i = Len(pending) + 1 THEN Frame(c, n) ELSE pending[i]
    BY <1>3, <2>1
  <2> HIDE DEF b
  <2>4. QED
    BY <2>1, <2>2, <2>3
<1>6. Flush(b, n, ok)
  BY <1>1
<1> HIDE DEF b
<1>7. \E i \in DOMAIN b : b[i].call = c
  BY <1>3, <1>5
<1>8. ASSUME NEW i \in DOMAIN b
      PROVE  /\ b[i].whole
             /\ b[i].call = c => b[i].seq = n
             /\ b[i].call # c => Waiting(b[i].call) /\ seqOf[b[i].call] = b[i].seq
  BY <1>2, <1>3, <1>5 DEF BatchInv, BatchOfWaiters
<1>9. ASSUME NEW d \in Calls \ {c}, Waiting(d)
      PROVE  seqOf[d] # n /\ (Settled(d) \/ \E i \in DOMAIN b : b[i].call = d)
  BY <1>2, <1>4, <1>5, <1>9 DEF BatchInv, InBatch, TypeOK
<1>10. ASSUME NEW d \in completed PROVE d.seq # n
  <2>1. d.seq \in Nat /\ d.seq < n
    BY <1>4 DEF TypeOK, Outcome
  <2>2. QED
    BY <1>2, <2>1
<1>11. /\ n < nextSeq' /\ nextSeq \leq nextSeq'
       /\ \A d \in Calls \ {c} : seqOf'[d] = seqOf[d]
       /\ Answer(c, ok) /\ checkpointed' = checkpointed
  BY <1>2, <1>4 DEF TypeOK, EnqueueAndFlush, history
<1>12. LeaderWrites(c, n, b, ok)
  BY <1>2, <1>5, <1>6, <1>7, <1>8, <1>9, <1>10, <1>11 DEF LeaderWrites
<1>13. QED
  BY <1>2, <1>5, <1>12, LeaderKeepsBatchInv

LEMMA TimeoutKeepsBatchInv ==
  ASSUME TypeOK, TypeOK', BatchInv, NEW c \in Calls, NEW ok \in BOOLEAN, Timeout(c, ok)
  PROVE  BatchInv'
<1>1. /\ Waiting(c) /\ ~Settled(c) /\ Flush(pending, seqOf[c], ok) /\ Answer(c, ok)
      /\ nextSeq' = nextSeq /\ seqOf' = seqOf /\ checkpointed' = checkpointed
      /\ \A d \in completed : d.seq # seqOf[c]
  BY DEF Timeout, Waiting, Settled, history
<1>2. InBatch(c) /\ seqOf[c] < nextSeq
  BY <1>1 DEF BatchInv, SequencesSpent
<1>3. pending # <<>> /\ pending \in Seq(Cell)
  BY <1>2 DEF InBatch, TypeOK
<1>4. \A i \in DOMAIN pending :
        /\ pending[i].whole
        /\ pending[i].call = c => pending[i].seq = seqOf[c]
        /\ pending[i].call # c => Waiting(pending[i].call) /\ seqOf[pending[i].call] = pending[i].seq
  BY DEF BatchInv, BatchOfWaiters
<1>5. \A d \in Calls \ {c} :
        Waiting(d) => seqOf[d] # seqOf[c] /\ (Settled(d) \/ \E i \in DOMAIN pending : pending[i].call = d)
  BY <1>1 DEF BatchInv, OneWaiterPerSequence, InBatch
<1>6. LeaderWrites(c, seqOf[c], pending, ok)
  BY <1>1, <1>2, <1>3, <1>4, <1>5 DEF LeaderWrites, InBatch, TypeOK
<1>7. seqOf[c] \in Nat
  BY DEF TypeOK
<1>8. QED
  BY <1>3, <1>6, <1>7, LeaderKeepsBatchInv

LEMMA CollectKeepsBatchInv ==
  ASSUME TypeOK, TypeOK', BatchInv, NEW c \in Calls, NEW ok \in BOOLEAN, Collect(c, ok)
  PROVE  BatchInv'
<1> DEFINE mine == [seq |-> seqOf[c], ok |-> ok]
<1>1. /\ Waiting(c) /\ mine \in completed /\ completed' = completed \ {mine}
      /\ pending' = pending /\ file' = file /\ checkpointed' = checkpointed
      /\ nextSeq' = nextSeq /\ seqOf' = seqOf
  BY DEF Collect, Waiting, history
<1>2. /\ \A d \in Calls : Waiting(d)' <=> (d # c /\ Waiting(d))
      /\ \A d \in Calls : status'[d] = "ok" => status[d] = "ok" \/ (d = c /\ ok)
  BY DEF Collect, Answer, Waiting, TypeOK
<1>3. mine.seq = seqOf[c] /\ mine.ok = ok
  OBVIOUS
<1> HIDE DEF mine
<1>4. Settled(c) /\ ~InBatch(c)
  BY <1>1, <1>3 DEF Settled, BatchInv
<1>5. BatchOfWaiters'
  <2> SUFFICES ASSUME NEW i \in DOMAIN pending PROVE Waiting(pending[i].call)'
    BY <1>1 DEF BatchInv, BatchOfWaiters
  <2>1. pending[i] \in Cell
    BY DEF TypeOK
  <2>2. pending[i].call \in Calls
    BY <2>1 DEF Cell
  <2>3. QED
    BY <1>1, <1>2, <1>4, <2>2 DEF BatchInv, BatchOfWaiters, InBatch
<1>6. SequencesSpent' /\ OneWaiterPerSequence' /\ OneOutcomePerSequence'
  BY <1>1, <1>2 DEF BatchInv, SequencesSpent, OneWaiterPerSequence, OneOutcomePerSequence
<1>7. ASSUME NEW d \in Calls, Waiting(d), d # c PROVE seqOf[d] # seqOf[c]
  BY <1>1, <1>7 DEF BatchInv, OneWaiterPerSequence
<1>8. SuccessIsStored'
  <2> SUFFICES ASSUME NEW d \in completed, d # mine, d.ok
               PROVE  \E e \in Calls : Waiting(e)' /\ seqOf[e] = d.seq /\ Stored(e)
    BY <1>1 DEF SuccessIsStored, Stored, InFile
  <2>1. PICK e \in Calls : Waiting(e) /\ seqOf[e] = d.seq /\ Stored(e)
    BY DEF BatchInv, SuccessIsStored
  <2>2. CASE e # c
    BY <1>2, <2>1, <2>2
  <2>3. CASE e = c
    <3>1. d = mine
      BY <1>1, <1>3, <2>1, <2>3 DEF BatchInv, OneOutcomePerSequence
    <3>2. QED
      BY <3>1
  <2>4. QED
    BY <2>2, <2>3
<1>9. ASSUME NEW d \in Calls, Waiting(d)' PROVE InBatch(d)' <=> ~Settled(d)'
  <2>1. d # c /\ Waiting(d) /\ seqOf[d] # seqOf[c]
    BY <1>2, <1>7, <1>9
  <2>2. (InBatch(d)' <=> InBatch(d)) /\ (Settled(d)' <=> Settled(d))
    BY <1>1, <1>3, <2>1 DEF InBatch, Settled
  <2>3. QED
    BY <2>1, <2>2 DEF BatchInv
<1>10. ok => Stored(c)
  BY <1>1, <1>3 DEF BatchInv, SuccessIsStored, OneWaiterPerSequence
<1>11. AckedInFile'
  BY <1>1, <1>2, <1>10 DEF BatchInv, AckedInFile, Stored, InFile
<1>12. QED
  BY <1>5, <1>6, <1>8, <1>9, <1>11 DEF BatchInv

LEMMA TruncateKeepsBatchInv ==
  ASSUME TypeOK, TypeOK', BatchInv, Truncate
  PROVE  BatchInv' /\ \A c \in Calls : Stored(c) => Stored(c)'
<1>1. \A c \in Calls : Stored(c) => Stored(c)'
  BY DEF Truncate, Stored, InFile
<1>2. /\ pending' = pending /\ completed' = completed /\ nextSeq' = nextSeq
      /\ status' = status /\ seqOf' = seqOf
  BY DEF Truncate, state
<1>3. BatchInv'
  BY <1>1, <1>2, QuietStepKeepsBatchInv DEF Waiting, TypeOK
<1>4. QED
  BY <1>1, <1>3

LEMMA BatchStep == TypeOK /\ TypeOK' /\ BatchInv /\ [Next]_vars => BatchInv'
<1> SUFFICES ASSUME TypeOK, TypeOK', BatchInv, [Next]_vars PROVE BatchInv'
  OBVIOUS
<1>1. ASSUME NEW c \in Calls, AppendRejected(c) PROVE BatchInv'
  <2>1. /\ pending' = pending /\ completed' = completed /\ nextSeq' = nextSeq
        /\ seqOf' = seqOf /\ file' = file /\ checkpointed' = checkpointed
    BY <1>1 DEF AppendRejected, state, history
  <2>2. /\ \A d \in Calls : Waiting(d)' <=> Waiting(d)
        /\ \A d \in Calls : status'[d] = "ok" => status[d] = "ok"
    BY <1>1 DEF AppendRejected, Answer, Waiting, TypeOK
  <2>3. \A d \in Calls : Stored(d)' <=> Stored(d)
    BY <2>1 DEF Stored, InFile
  <2>4. nextSeq \leq nextSeq'
    BY <2>1 DEF TypeOK
  <2>5. QED
    BY <2>1, <2>2, <2>3, <2>4, QuietStepKeepsBatchInv
<1>2. ASSUME NEW c \in Calls, AppendUnencodable(c) PROVE BatchInv'
  <2>1. PICK n \in SequencesToUse : TakeSequence(c, n)
    BY <1>2 DEF AppendUnencodable
  <2>2. nextSeq \leq nextSeq'
    BY <2>1, SequenceIsFresh DEF TakeSequence, TypeOK
  <2>3. /\ pending' = pending /\ completed' = completed
        /\ file' = file /\ checkpointed' = checkpointed
    BY <1>2 DEF AppendUnencodable, history
  <2>4. /\ \A d \in Calls : Waiting(d)' <=> Waiting(d)
        /\ \A d \in Calls : Waiting(d) => seqOf'[d] = seqOf[d]
        /\ \A d \in Calls : status'[d] = "ok" => status[d] = "ok"
    BY <1>2, <2>1 DEF AppendUnencodable, TakeSequence, Answer, Waiting, TypeOK
  <2>5. \A d \in Calls : Stored(d)' <=> Stored(d)
    BY <2>3 DEF Stored, InFile
  <2>6. QED
    BY <2>2, <2>3, <2>4, <2>5, QuietStepKeepsBatchInv
<1>3. ASSUME NEW c \in Calls, CrashInAppend(c) PROVE BatchInv'
  <2>1. PICK n \in SequencesToUse :
          StopDuring((IF policy.mode = "strict" THEN <<>> ELSE pending) \o <<Frame(c, n)>>, {c})
    BY <1>3 DEF CrashInAppend
  <2>2. Frame(c, n) \in Cell
    BY SequenceTypes, FrameFields
  <2>3. (IF policy.mode = "strict" THEN <<>> ELSE pending) \o <<Frame(c, n)>> \in Seq(Cell)
    BY <2>2 DEF TypeOK
  <2>4. QED
    BY <2>1, <2>3, StopKeepsBatchInv
<1>4. ASSUME NEW p \in Policies, SetPolicy(p) PROVE BatchInv'
  <2>1. /\ pending' = pending /\ completed' = completed /\ nextSeq' = nextSeq
        /\ seqOf' = seqOf /\ file' = file /\ checkpointed' = checkpointed /\ status' = status
    BY <1>4 DEF SetPolicy, history
  <2>2. QED
    BY <2>1, QuietStepKeepsBatchInv DEF Stored, InFile, Waiting, TypeOK
<1>5. ASSUME Crash PROVE BatchInv'
  <2>1. PICK b \in {<<>>, pending} : StopDuring(b, {})
    BY <1>5 DEF Crash
  <2>2. b \in Seq(Cell)
    <3>1. CASE b = <<>>
      BY <3>1
    <3>2. CASE b = pending
      BY <3>2 DEF TypeOK
    <3>3. QED
      BY <3>1, <3>2
  <2>3. {} \in SUBSET Calls
    OBVIOUS
  <2>4. QED
    BY <2>1, <2>2, <2>3, StopKeepsBatchInv
<1>6. CASE UNCHANGED vars
  <2>1. /\ pending' = pending /\ completed' = completed /\ nextSeq' = nextSeq
        /\ seqOf' = seqOf /\ file' = file /\ checkpointed' = checkpointed /\ status' = status
    BY <1>6 DEF vars
  <2>2. QED
    BY <2>1, QuietStepKeepsBatchInv DEF Stored, InFile, Waiting, TypeOK
<1>7. QED
  BY <1>1, <1>2, <1>3, <1>4, <1>5, <1>6, StrictKeepsBatchInv, EnqueueKeepsBatchInv,
     EnqueueAndFlushKeepsBatchInv, TimeoutKeepsBatchInv, CollectKeepsBatchInv,
     TruncateKeepsBatchInv DEF Next

LEMMA BatchInit == Init => BatchInv
BY DEF Init, BatchInv, BatchOfWaiters, SequencesSpent, OneOutcomePerSequence,
       OneWaiterPerSequence, SuccessIsStored, Waiting, AckedInFile

LEMMA BatchInvariant == Spec => []BatchInv
BY BatchInit, BatchStep, TypeCorrect, PTL DEF Spec

(* An append that returned Ok has its whole frame in the file or in a      *)
(* checkpoint, whoever wrote its batch.                                    *)
THEOREM AcknowledgedIsStored == Spec => []AckedInFile
<1>1. BatchInv => AckedInFile
  BY DEF BatchInv
<1>2. QED
  BY <1>1, BatchInvariant, PTL

(* A waiter is in the batch or has its outcome in the map, never both and  *)
(* never neither.                                                          *)
THEOREM NoWaiterIsStranded == Spec => []WaiterNotOrphaned
<1>1. BatchInv => WaiterNotOrphaned
  BY DEF BatchInv, WaiterNotOrphaned, Waiting, InBatch, Settled
<1>2. QED
  BY <1>1, BatchInvariant, PTL

(* Only the outcome of a failed write may stay in the map for ever.        *)
THEOREM SuccessesAreTaken == Spec => []OnlyFailuresLeak
<1>1. BatchInv => OnlyFailuresLeak
  BY DEF BatchInv, SuccessIsStored, OnlyFailuresLeak, Waiting
<1>2. QED
  BY <1>1, BatchInvariant, PTL

---------------------------------------------------------------------------
(* The journal implements DurableLog.                                      *)

Open(c) == status[c] \in {"idle", "waiting"}

(* What a step does to the calls, seen from outside: it answers one, or it *)
(* answers nobody and may lose some.                                       *)
AnswersOne ==
  \E c \in Calls, ok \in BOOLEAN : Open(c) /\ Answer(c, ok) /\ (ok => Stored(c)')
AnswersNobody ==
  \A c \in Calls :
    \/ Open(c) /\ Open(c)'
    \/ status'[c] = status[c]
    \/ Open(c) /\ status'[c] = "lost"

LEMMA ShapeOfLogStep ==
  ASSUME TypeOK, TypeOK',
         \A c \in Calls : Stored(c) => Stored(c)',
         \A c \in Calls : Stored(c)' => Stored(c) \/ Open(c),
         AnswersOne \/ AnswersNobody
  PROVE  Log!Next
<1> DEFINE stored == {c \in Calls : Stored(c)' /\ ~Stored(c)}
<1>1. Log!Unanswered = {c \in Calls : Open(c)}
  BY DEF Log!Unanswered, Open, TypeOK, Status
<1>2. stored \in SUBSET Log!Unanswered
  BY <1>1
<1>3. Log!Store(stored)
  BY DEF Log!Store
<1>4. CASE AnswersOne
  <2>1. PICK c \in Calls, ok \in BOOLEAN : Open(c) /\ Answer(c, ok) /\ (ok => Stored(c)')
    BY <1>4 DEF AnswersOne
  <2>2. c \in Log!Unanswered
    BY <1>1, <2>1
  <2>3. Log!Answer(c)
    <3> DEFINE r == IF ok THEN "ok" ELSE "err"
    <3>1. status' = [status EXCEPT ![c] = r] /\ r \in {"ok", "err"}
      BY <2>1 DEF Answer
    <3>2. \A d \in Calls : status'[d] = IF d = c THEN r ELSE status[d]
      BY <3>1 DEF TypeOK
    <3>3. r = "ok" => ok
      OBVIOUS
    <3> HIDE DEF r
    <3>4. r = "ok" => c \in {d \in Calls : Stored(d)'}
      BY <2>1, <3>3
    <3>5. [d \in Calls |-> IF status'[d] \in {"idle", "waiting"} THEN "none" ELSE status'[d]]
            = [[d \in Calls |-> IF status[d] \in {"idle", "waiting"} THEN "none" ELSE status[d]]
                EXCEPT ![c] = r]
      BY <3>1, <3>2
    <3>6. QED
      BY <3>1, <3>4, <3>5 DEF Log!Answer
  <2>4. QED
    BY <1>2, <1>3, <2>2, <2>3 DEF Log!Next
<1>5. CASE AnswersNobody
  <2>1. PICK lost : lost = {c \in Calls : Open(c) /\ status'[c] = "lost"}
    OBVIOUS
  <2>2. lost \in SUBSET Log!Unanswered
    BY <1>1, <2>1
  <2>3. Log!Stop(lost)
    BY <1>5, <2>1 DEF AnswersNobody, Log!Stop, Open
  <2>4. QED
    BY <1>2, <1>3, <2>2, <2>3 DEF Log!Next
<1>6. QED
  BY <1>4, <1>5

LEMMA GrowthIsFromBatch ==
  ASSUME NEW b \in Seq(Cell), NEW part, IsPart(part, b), TypeOK,
         file' = file \o part, checkpointed' = checkpointed,
         NEW c \in Calls, Stored(c)', ~Stored(c)
  PROVE  \E i \in DOMAIN b : b[i].call = c
<1>1. /\ Len(file') = Len(file) + Len(part)
      /\ file' \in Seq(Cell)
      /\ \A i \in 1..Len(file) : file'[i] = file[i]
      /\ \A i \in 1..Len(part) : file'[Len(file) + i] = part[i]
  BY PartConcatenated DEF TypeOK
<1>2. PICK k \in DOMAIN file' : file'[k].call = c /\ file'[k].whole
  BY DEF Stored, InFile
<1>3. k \notin 1..Len(file)
  BY <1>1, <1>2 DEF Stored, InFile, TypeOK
<1>4. k - Len(file) \in 1..Len(part) /\ file'[k] = part[k - Len(file)]
  <2>1. k \in 1..(Len(file) + Len(part)) /\ Len(file) \in Nat /\ Len(part) \in Nat
    BY <1>1, <1>2 DEF TypeOK, IsPart
  <2>2. k - Len(file) \in 1..Len(part) /\ Len(file) + (k - Len(file)) = k
    BY <1>3, <2>1
  <2>3. QED
    BY <1>1, <2>2
<1>5. QED
  BY <1>2, <1>4 DEF IsPart

LEMMA OpenFrames ==
  ASSUME TypeOK, BatchInv, NEW i \in DOMAIN pending
  PROVE  pending[i].call \in Calls /\ Open(pending[i].call)
<1>1. pending[i] \in Cell
  BY DEF TypeOK
<1>2. QED
  BY <1>1 DEF BatchInv, BatchOfWaiters, Waiting, Open, Cell

(* A step that answers call c after it wrote the batch b, all of open      *)
(* calls.                                                                  *)
LEMMA WritingStepIsLogStep ==
  ASSUME TypeOK, TypeOK', AckedInFile', NEW b \in Seq(Cell), NEW part, IsPart(part, b),
         file' = file \o part, checkpointed' = checkpointed,
         \A i \in DOMAIN b : Open(b[i].call),
         NEW c \in Calls, NEW ok \in BOOLEAN, Open(c), Answer(c, ok)
  PROVE  Log!Next
<1>1. \A d \in Calls : Stored(d) => Stored(d)'
  BY GrowingKeepsStored
<1>2. \A d \in Calls : Stored(d)' => Stored(d) \/ Open(d)
  BY GrowthIsFromBatch
<1>3. AnswersOne
  BY DEF AnswersOne, Answer, AckedInFile, TypeOK
<1>4. QED
  BY <1>1, <1>2, <1>3, ShapeOfLogStep

(* A step that leaves the file and the history alone.                      *)
LEMMA SilentStepIsLogStep ==
  ASSUME TypeOK, TypeOK', file' = file, checkpointed' = checkpointed,
         AnswersOne \/ AnswersNobody
  PROVE  Log!Next
<1>1. \A d \in Calls : Stored(d)' <=> Stored(d)
  BY DEF Stored, InFile
<1>2. QED
  BY <1>1, ShapeOfLogStep

LEMMA StopIsLogStep ==
  ASSUME TypeOK, TypeOK', NEW b \in Seq(Cell), NEW cut \in SUBSET Calls, StopDuring(b, cut),
         \A i \in DOMAIN b : Open(b[i].call), \A d \in cut : Open(d)
  PROVE  Log!Next
<1>1. PICK part \in PartialWrites(b) \cup {b} : file' = file \o part
  BY DEF StopDuring
<1>2. IsPart(part, b) /\ checkpointed' = checkpointed
  BY WritesAreParts DEF StopDuring, history
<1>3. \A d \in Calls : Stored(d) => Stored(d)'
  BY <1>1, <1>2, GrowingKeepsStored
<1>4. \A d \in Calls : Stored(d)' => Stored(d) \/ Open(d)
  BY <1>1, <1>2, GrowthIsFromBatch
<1>5. AnswersNobody
  BY DEF AnswersNobody, StopDuring, Open, TypeOK
<1>6. QED
  BY <1>3, <1>4, <1>5, ShapeOfLogStep

LEMMA LogStep ==
  TypeOK /\ TypeOK' /\ BatchInv /\ BatchInv' /\ [Next]_vars => [Log!Next]_(Log!vars)
<1> SUFFICES ASSUME TypeOK, TypeOK', BatchInv, BatchInv', [Next]_vars
             PROVE  [Log!Next]_(Log!vars)
  OBVIOUS
<1>1. AckedInFile'
  BY DEF BatchInv
<1>2. ASSUME NEW c \in Calls, NEW n \in SequencesToUse, Open(c)
      PROVE  /\ <<Frame(c, n)>> \in Seq(Cell)
             /\ Append(pending, Frame(c, n)) \in Seq(Cell)
             /\ pending \o <<Frame(c, n)>> \in Seq(Cell)
             /\ \A i \in DOMAIN <<Frame(c, n)>> : Open(<<Frame(c, n)>>[i].call)
             /\ \A i \in DOMAIN Append(pending, Frame(c, n)) :
                  Open(Append(pending, Frame(c, n))[i].call)
             /\ \A i \in DOMAIN (pending \o <<Frame(c, n)>>) :
                  Open((pending \o <<Frame(c, n)>>)[i].call)
  <2>1. Frame(c, n) \in Cell /\ Frame(c, n).call = c
    BY SequenceTypes, FrameFields
  <2>2. pending \in Seq(Cell)
    BY DEF TypeOK
  <2>3. \A i \in DOMAIN pending : Open(pending[i].call)
    BY OpenFrames
  <2>4. pending \o <<Frame(c, n)>> = Append(pending, Frame(c, n))
    BY <2>1, <2>2
  <2>5. /\ Append(pending, Frame(c, n)) \in Seq(Cell)
        /\ DOMAIN Append(pending, Frame(c, n)) = 1..(Len(pending) + 1)
        /\ \A i \in 1..(Len(pending) + 1) :
             Append(pending, Frame(c, n))[i] = IF i = Len(pending) + 1 THEN Frame(c, n) ELSE pending[i]
    BY <2>1, <2>2
  <2>6. \A i \in 1..(Len(pending) + 1) : Open(Append(pending, Frame(c, n))[i].call)
    BY <1>2, <2>1, <2>2, <2>3, <2>5
  <2>7. QED
    BY <1>2, <2>1, <2>4, <2>5, <2>6
<1>3. ASSUME NEW c \in Calls, AppendRejected(c) PROVE Log!Next
  BY <1>3, SilentStepIsLogStep DEF AppendRejected, AnswersOne, history, Open
<1>4. ASSUME NEW c \in Calls, AppendUnencodable(c) PROVE Log!Next
  BY <1>4, SilentStepIsLogStep DEF AppendUnencodable, TakeSequence, AnswersOne, history, Open
<1>5. ASSUME NEW c \in Calls, Enqueue(c) PROVE Log!Next
  <2>1. file' = file /\ checkpointed' = checkpointed
    BY <1>5 DEF Enqueue, history
  <2>2. AnswersNobody
    BY <1>5 DEF Enqueue, TakeSequence, AnswersNobody, Open, TypeOK
  <2>3. QED
    BY <2>1, <2>2, SilentStepIsLogStep
<1>6. ASSUME NEW c \in Calls, CrashInAppend(c) PROVE Log!Next
  <2>1. PICK n \in SequencesToUse :
          StopDuring((IF policy.mode = "strict" THEN <<>> ELSE pending) \o <<Frame(c, n)>>, {c})
    BY <1>6 DEF CrashInAppend
  <2>2. Open(c)
    BY <1>6 DEF CrashInAppend, Open
  <2>3. <<>> \o <<Frame(c, n)>> = <<Frame(c, n)>>
    OBVIOUS
  <2>4. PICK b \in Seq(Cell) : StopDuring(b, {c}) /\ \A i \in DOMAIN b : Open(b[i].call)
    BY <1>2, <2>1, <2>2, <2>3
  <2>5. QED
    BY <2>2, <2>4, StopIsLogStep
<1>7. ASSUME NEW c \in Calls, NEW ok \in BOOLEAN, AppendStrict(c, ok) PROVE Log!Next
  <2>1. PICK n \in SequencesToUse : TakeSequence(c, n) /\ Written(<<Frame(c, n)>>, ok)
    BY <1>7 DEF AppendStrict
  <2>2. Open(c) /\ Answer(c, ok) /\ checkpointed' = checkpointed
    BY <1>7, <2>1 DEF AppendStrict, TakeSequence, Open
  <2>3. PICK part : IsPart(part, <<Frame(c, n)>>) /\ file' = file \o part
    BY <1>2, <2>1, <2>2, WrittenAppends
  <2>4. QED
    BY <1>1, <1>2, <2>2, <2>3, WritingStepIsLogStep
<1>8. ASSUME NEW c \in Calls, NEW ok \in BOOLEAN, EnqueueAndFlush(c, ok) PROVE Log!Next
  <2>1. PICK n \in SequencesToUse :
          TakeSequence(c, n) /\ Flush(Append(pending, Frame(c, n)), n, ok)
    BY <1>8 DEF EnqueueAndFlush
  <2>2. Open(c) /\ Answer(c, ok) /\ checkpointed' = checkpointed
    BY <1>8, <2>1 DEF EnqueueAndFlush, TakeSequence, Open, history
  <2>3. Written(Append(pending, Frame(c, n)), ok)
    <3>1. pending \in Seq(Cell) /\ Frame(c, n) \in Cell
      BY SequenceTypes, FrameFields DEF TypeOK
    <3>2. Append(pending, Frame(c, n)) # <<>>
      BY <3>1
    <3>3. QED
      BY <2>1, <3>2 DEF Flush
  <2>4. PICK part : IsPart(part, Append(pending, Frame(c, n))) /\ file' = file \o part
    BY <1>2, <2>2, <2>3, WrittenAppends
  <2>5. QED
    BY <1>1, <1>2, <2>2, <2>4, WritingStepIsLogStep
<1>9. ASSUME NEW c \in Calls, NEW ok \in BOOLEAN, Collect(c, ok) PROVE Log!Next
  <2>1. Open(c) /\ Answer(c, ok) /\ file' = file /\ checkpointed' = checkpointed
    BY <1>9 DEF Collect, Open, history
  <2>2. AnswersOne
    BY <1>1, <2>1 DEF AnswersOne, Answer, AckedInFile, TypeOK
  <2>3. QED
    BY <2>1, <2>2, SilentStepIsLogStep
<1>10. ASSUME NEW c \in Calls, NEW ok \in BOOLEAN, Timeout(c, ok) PROVE Log!Next
  <2>1. Open(c) /\ Answer(c, ok) /\ checkpointed' = checkpointed /\ Flush(pending, seqOf[c], ok)
    BY <1>10 DEF Timeout, Open, history
  <2>2. \A i \in DOMAIN pending : Open(pending[i].call)
    BY OpenFrames
  <2>3. pending \in Seq(Cell)
    BY DEF TypeOK
  <2>4. CASE pending = <<>>
    <3>1. file' = file
      BY <2>1, <2>4 DEF Flush
    <3>2. AnswersOne
      BY <1>1, <2>1 DEF AnswersOne, Answer, AckedInFile, TypeOK
    <3>3. QED
      BY <2>1, <3>1, <3>2, SilentStepIsLogStep
  <2>5. CASE pending # <<>>
    <3>1. Written(pending, ok)
      BY <2>1, <2>5 DEF Flush
    <3>2. PICK part : IsPart(part, pending) /\ file' = file \o part
      BY <2>3, <3>1, WrittenAppends
    <3>3. QED
      BY <1>1, <2>1, <2>2, <2>3, <3>2, WritingStepIsLogStep
  <2>6. QED
    BY <2>4, <2>5
<1>11. ASSUME NEW p \in Policies, SetPolicy(p) PROVE Log!Next
  BY <1>11, SilentStepIsLogStep DEF SetPolicy, AnswersNobody, history
<1>12. ASSUME Truncate PROVE Log!Next
  <2>1. \A d \in Calls : Stored(d) => Stored(d)'
    BY <1>12, TruncateKeepsBatchInv
  <2>2. \A d \in Calls : Stored(d)' => Stored(d)
    BY <1>12 DEF Truncate, Stored, InFile
  <2>3. AnswersNobody
    BY <1>12 DEF Truncate, AnswersNobody
  <2>4. QED
    BY <2>1, <2>2, <2>3, ShapeOfLogStep
<1>13. ASSUME Crash PROVE Log!Next
  <2>1. PICK b \in {<<>>, pending} : StopDuring(b, {})
    BY <1>13 DEF Crash
  <2>2. b \in Seq(Cell) /\ \A i \in DOMAIN b : Open(b[i].call)
    <3>1. CASE b = <<>>
      BY <3>1
    <3>2. CASE b = pending
      BY <3>2, OpenFrames DEF TypeOK
    <3>3. QED
      BY <3>1, <3>2
  <2>3. {} \in SUBSET Calls /\ \A d \in {} : Open(d)
    OBVIOUS
  <2>4. QED
    BY <2>1, <2>2, <2>3, StopIsLogStep
<1>14. CASE UNCHANGED vars
  BY <1>14 DEF vars, Log!vars, Stored, InFile
<1>15. QED
  BY <1>3, <1>4, <1>5, <1>6, <1>7, <1>8, <1>9, <1>10, <1>11, <1>12, <1>13, <1>14 DEF Next

(* The journal implements DurableLog: calls are answered once, Ok only     *)
(* after their record is stored, and no record is stored after its call    *)
(* was refused or lost.                                                    *)
THEOREM JournalImplementsDurableLog == Spec => ImplementsDurableLog
<1>1. Init => Log!Init
  BY DEF Init, Log!Init, Stored, InFile
<1>2. QED
  BY <1>1, LogStep, TypeCorrect, BatchInvariant, PTL DEF Spec, Log!Spec, ImplementsDurableLog

---------------------------------------------------------------------------
(* The order of the file.                                                  *)

(* The file is sorted as far as it can be read, the batch is sorted, and   *)
(* the file, the batch and the counter follow each other.                  *)
Sorted(f) == \A i, j \in Readable(f) : i < j => f[i].seq < f[j].seq
Increasing(b) == \A i, j \in DOMAIN b : i < j => b[i].seq < b[j].seq
Below(f, n) == \A i \in Readable(f) : f[i].seq < n
FileThenBatch(f, b) == \A j \in DOMAIN b : Below(f, b[j].seq)

OrderInv ==
  ~overtaken =>
    /\ Sorted(file)
    /\ Increasing(pending)
    /\ FileThenBatch(file, pending)
    /\ nextSeq # 0 => Below(file, nextSeq)

LEMMA GrowthKeepsOrder ==
  ASSUME NEW b \in Seq(Cell), NEW part, IsPart(part, b), NEW f \in Seq(Cell),
         Sorted(f), Increasing(b), FileThenBatch(f, b)
  PROVE  /\ Sorted(f \o part)
         /\ \A n \in Nat : Below(f, n) /\ (\A j \in DOMAIN b : b[j].seq < n)
                             => Below(f \o part, n)
<1> DEFINE g == f \o part
<1>1. /\ g \in Seq(Cell) /\ Len(g) = Len(f) + Len(part)
      /\ \A i \in 1..Len(f) : g[i] = f[i]
      /\ \A i \in 1..Len(part) : g[Len(f) + i] = part[i]
  BY PartConcatenated
<1> HIDE DEF g
<1>2. /\ Len(f) \in Nat /\ Len(part) \in Nat /\ Len(b) \in Nat /\ Len(part) \leq Len(b)
      /\ \A i \in 1..Len(part) : part[i].seq = b[i].seq
  BY DEF IsPart
<1>3. ASSUME NEW i \in Readable(g)
      PROVE  \/ i \in Readable(f) /\ g[i] = f[i]
             \/ i - Len(f) \in DOMAIN b /\ i > Len(f) /\ g[i].seq = b[i - Len(f)].seq
  <2>1. i \in 1..(Len(f) + Len(part)) /\ \A j \in 1..i : g[j].whole
    BY <1>1 DEF Readable
  <2>2. CASE i \leq Len(f)
    <3>1. i \in DOMAIN f /\ \A j \in 1..i : f[j].whole
      BY <1>1, <1>2, <2>1, <2>2
    <3>2. QED
      BY <1>1, <1>2, <2>1, <2>2, <3>1 DEF Readable
  <2>3. CASE i > Len(f)
    <3>1. i - Len(f) \in 1..Len(part) /\ Len(f) + (i - Len(f)) = i
      BY <1>2, <2>1, <2>3
    <3>2. g[i] = part[i - Len(f)]
      BY <1>1, <3>1
    <3>3. QED
      BY <1>2, <2>3, <3>1, <3>2
  <2>4. QED
    BY <1>2, <2>1, <2>2, <2>3
<1>4. Sorted(g)
  <2> SUFFICES ASSUME NEW i \in Readable(g), NEW j \in Readable(g), i < j
               PROVE  g[i].seq < g[j].seq
    BY DEF Sorted
  <2>1. i \in Nat /\ j \in Nat
    BY <1>1 DEF Readable
  <2>2. CASE j \in Readable(f) /\ g[j] = f[j]
    <3>1. i \in Readable(f) /\ g[i] = f[i]
      BY <1>2, <1>3, <2>1, <2>2 DEF Readable
    <3>2. QED
      BY <2>2, <3>1 DEF Sorted
  <2>3. CASE j - Len(f) \in DOMAIN b /\ j > Len(f) /\ g[j].seq = b[j - Len(f)].seq
    <3>1. CASE i \in Readable(f) /\ g[i] = f[i]
      BY <2>3, <3>1 DEF FileThenBatch, Below
    <3>2. CASE i - Len(f) \in DOMAIN b /\ i > Len(f) /\ g[i].seq = b[i - Len(f)].seq
      BY <1>2, <2>1, <2>3, <3>2 DEF Increasing
    <3>3. QED
      BY <1>3, <3>1, <3>2
  <2>4. QED
    BY <1>3, <2>2, <2>3
<1>5. ASSUME NEW n \in Nat, Below(f, n), \A j \in DOMAIN b : b[j].seq < n
      PROVE  Below(g, n)
  BY <1>3, <1>5 DEF Below
<1>6. QED
  BY <1>4, <1>5 DEF g

(* The sequence an append takes is later than every entry that can be      *)
(* read.                                                                   *)
LEMMA SequenceIsAboveFile ==
  ASSUME TypeOK, OrderInv, ~overtaken, NEW n \in SequencesToUse
  PROVE  Below(file, n)
<1>1. CASE nextSeq # 0
  BY <1>1 DEF SequencesToUse, OrderInv
<1>2. CASE nextSeq = 0 /\ Readable(file) = {}
  BY <1>2 DEF Below
<1>3. CASE nextSeq = 0 /\ Readable(file) # {}
  <2>1. PICK k \in Readable(file) : k + 1 \notin Readable(file) /\ n = file[k].seq + 1
    BY <1>3 DEF SequencesToUse
  <2>2. file \in Seq(Cell)
    BY DEF TypeOK
  <2> SUFFICES ASSUME NEW i \in Readable(file) PROVE file[i].seq < n
    BY DEF Below
  <2>3. i \in 1..Len(file) /\ k \in 1..Len(file) /\ \A j \in 1..i : file[j].whole
    BY <2>2 DEF Readable
  <2>4. i \leq k
    <3> SUFFICES ASSUME i > k PROVE FALSE
      BY <2>3
    <3>1. k + 1 \in 1..Len(file) /\ \A j \in 1..(k + 1) : file[j].whole
      BY <2>3
    <3>2. QED
      BY <2>1, <2>2, <3>1 DEF Readable
  <2>5. file[i] \in Cell /\ file[k] \in Cell
    BY <2>2, <2>3
  <2>6. file[i].seq \in Nat /\ file[k].seq \in Nat
    BY <2>5 DEF Cell
  <2>7. CASE i = k
    BY <2>1, <2>6, <2>7
  <2>8. CASE i < k
    <3>1. file[i].seq < file[k].seq
      BY <2>8 DEF OrderInv, Sorted
    <3>2. QED
      BY <2>1, <2>6, <3>1
  <2>9. QED
    BY <2>3, <2>4, <2>7, <2>8
<1>4. QED
  BY <1>1, <1>2, <1>3

LEMMA BatchIsBelowCounter ==
  ASSUME TypeOK, BatchInv
  PROVE  \A i \in DOMAIN pending : pending[i].seq < nextSeq
<1> TAKE i \in DOMAIN pending
<1>1. pending[i] \in Cell
  BY DEF TypeOK
<1>2. pending[i].call \in Calls
  BY <1>1 DEF Cell
<1>3. QED
  BY <1>2 DEF BatchInv, BatchOfWaiters, SequencesSpent

(* The batch with one more entry of a fresh sequence still follows itself  *)
(* and the file.                                                           *)
LEMMA LongerBatchInOrder ==
  ASSUME TypeOK, BatchInv, OrderInv, ~overtaken, NEW c \in Calls, NEW n \in SequencesToUse
  PROVE  /\ Append(pending, Frame(c, n)) \in Seq(Cell)
         /\ Increasing(Append(pending, Frame(c, n)))
         /\ FileThenBatch(file, Append(pending, Frame(c, n)))
         /\ \A j \in DOMAIN Append(pending, Frame(c, n)) : Append(pending, Frame(c, n))[j].seq < n + 1
         /\ pending \o <<Frame(c, n)>> = Append(pending, Frame(c, n))
<1> DEFINE b == Append(pending, Frame(c, n))
<1>1. n \in Nat /\ Frame(c, n) \in Cell /\ Frame(c, n).seq = n
  BY SequenceTypes, FrameFields
<1>2. pending \in Seq(Cell)
  BY DEF TypeOK
<1>3. /\ b \in Seq(Cell) /\ DOMAIN b = 1..(Len(pending) + 1) /\ Len(pending) \in Nat
      /\ \A i \in 1..(Len(pending) + 1) :
           b[i] = IF i = Len(pending) + 1 THEN Frame(c, n) ELSE pending[i]
      /\ pending \o <<Frame(c, n)>> = b
  BY <1>1, <1>2
<1> HIDE DEF b
<1>4. \A i \in 1..Len(pending) : pending[i].seq \in Nat /\ pending[i].seq < n
  <2> TAKE i \in 1..Len(pending)
  <2>1. pending[i] \in Cell /\ i \in DOMAIN pending
    BY <1>2
  <2>2. QED
    BY <2>1, SequenceIsFresh DEF Cell
<1>5. Increasing(b)
  BY <1>1, <1>2, <1>3, <1>4 DEF Increasing, OrderInv
<1>6. FileThenBatch(file, b)
  <2> SUFFICES ASSUME NEW j \in DOMAIN b PROVE Below(file, b[j].seq)
    BY DEF FileThenBatch
  <2>1. CASE j = Len(pending) + 1
    BY <1>1, <1>3, <2>1, SequenceIsAboveFile
  <2>2. CASE j # Len(pending) + 1
    <3>1. j \in DOMAIN pending /\ b[j] = pending[j]
      BY <1>2, <1>3, <2>2
    <3>2. QED
      BY <3>1 DEF OrderInv, FileThenBatch
  <2>3. QED
    BY <2>1, <2>2
<1>7. \A j \in DOMAIN b : b[j].seq < n + 1
  BY <1>1, <1>3, <1>4
<1>8. QED
  BY <1>3, <1>5, <1>6, <1>7 DEF b

(* A step that writes a sorted batch, above the file, and ends with an     *)
(* empty one.                                                              *)
LEMMA WritingKeepsOrder ==
  ASSUME TypeOK, TypeOK', OrderInv, NEW b \in Seq(Cell), NEW part, IsPart(part, b),
         ~overtaken, file' = file \o part, pending' = <<>>,
         Increasing(b), FileThenBatch(file, b),
         nextSeq' # 0 => Below(file, nextSeq') /\ \A j \in DOMAIN b : b[j].seq < nextSeq'
  PROVE  OrderInv'
<1>1. Sorted(file')
  BY GrowthKeepsOrder DEF OrderInv, TypeOK
<1>2. nextSeq' # 0 => Below(file', nextSeq')
  BY GrowthKeepsOrder DEF OrderInv, TypeOK
<1>3. Increasing(pending') /\ FileThenBatch(file', pending')
  BY DEF Increasing, FileThenBatch
<1>4. QED
  BY <1>1, <1>2, <1>3 DEF OrderInv

LEMMA OrderStep ==
  TypeOK /\ TypeOK' /\ BatchInv /\ OrderInv /\ [Next]_vars => OrderInv'
<1> SUFFICES ASSUME TypeOK, TypeOK', BatchInv, OrderInv, [Next]_vars, ~overtaken'
             PROVE  OrderInv'
  BY DEF OrderInv
<1>1. ~overtaken
  BY DEF Next, vars, AppendRejected, AppendUnencodable, Enqueue, CrashInAppend, AppendStrict,
         EnqueueAndFlush, Collect, Timeout, SetPolicy, Truncate, Crash, StopDuring, history, TypeOK
<1>2. ASSUME NEW n \in SequencesToUse
      PROVE  n \in Nat \ {0} /\ Below(file, n) /\ Below(file, n + 1)
  <2>1. n \in Nat \ {0} /\ Below(file, n)
    BY <1>1, SequenceTypes, SequenceIsAboveFile
  <2>2. \A i \in Readable(file) : file[i].seq \in Nat
    <3> TAKE i \in Readable(file)
    <3>1. file[i] \in Cell
      BY DEF Readable, TypeOK
    <3>2. QED
      BY <3>1 DEF Cell
  <2>3. QED
    BY <2>1, <2>2 DEF Below
<1>3. ASSUME file' = file, pending' = pending, nextSeq' = nextSeq PROVE OrderInv'
  BY <1>1, <1>3 DEF OrderInv
<1>4. ASSUME NEW c \in Calls, AppendRejected(c) PROVE OrderInv'
  BY <1>3, <1>4 DEF AppendRejected, state
<1>5. ASSUME NEW c \in Calls, AppendUnencodable(c) PROVE OrderInv'
  <2>1. PICK n \in SequencesToUse : nextSeq' = n + 1
    BY <1>5 DEF AppendUnencodable, TakeSequence
  <2>2. QED
    BY <1>2, <1>1, <1>5, <2>1 DEF AppendUnencodable, OrderInv
<1>6. ASSUME NEW c \in Calls, Enqueue(c) PROVE OrderInv'
  <2>1. PICK n \in SequencesToUse : nextSeq' = n + 1 /\ pending' = Append(pending, Frame(c, n))
    BY <1>6 DEF Enqueue, TakeSequence
  <2>2. file' = file
    BY <1>6 DEF Enqueue
  <2>3. Increasing(pending') /\ FileThenBatch(file', pending')
    BY <1>1, <2>1, <2>2, LongerBatchInOrder
  <2>4. QED
    BY <1>2, <1>1, <2>1, <2>2, <2>3 DEF OrderInv
<1>7. ASSUME NEW c \in Calls, CrashInAppend(c) PROVE OrderInv'
  <2>1. PICK n \in SequencesToUse :
          StopDuring((IF policy.mode = "strict" THEN <<>> ELSE pending) \o <<Frame(c, n)>>, {c})
    BY <1>7 DEF CrashInAppend
  <2>2. Frame(c, n) \in Cell /\ Frame(c, n).seq = n
    BY <1>2, FrameFields
  <2>3. PICK b \in Seq(Cell) : StopDuring(b, {c}) /\ Increasing(b) /\ FileThenBatch(file, b)
    <3>1. CASE policy.mode = "strict"
      <4>1. StopDuring(<<Frame(c, n)>>, {c})
        <5>1. <<>> \o <<Frame(c, n)>> = <<Frame(c, n)>>
          OBVIOUS
        <5>2. QED
          BY <2>1, <3>1, <5>1
      <4>2. <<Frame(c, n)>> \in Seq(Cell)
        BY <2>2
      <4>3. Increasing(<<Frame(c, n)>>) /\ FileThenBatch(file, <<Frame(c, n)>>)
        BY <1>2, <2>2 DEF Increasing, FileThenBatch
      <4>4. QED
        BY <4>1, <4>2, <4>3
    <3>2. CASE policy.mode # "strict"
      <4>1. StopDuring(Append(pending, Frame(c, n)), {c})
        BY <1>1, <2>1, <3>2, LongerBatchInOrder
      <4>2. QED
        BY <1>1, <4>1, LongerBatchInOrder
    <3>3. QED
      BY <3>1, <3>2
  <2>4. PICK part \in PartialWrites(b) \cup {b} : file' = file \o part
    BY <2>3 DEF StopDuring
  <2>5. pending' = <<>> /\ nextSeq' = 0
    BY <2>3 DEF StopDuring
  <2>6. QED
    BY <1>1, <2>3, <2>4, <2>5, WritesAreParts, WritingKeepsOrder
<1>8. ASSUME NEW c \in Calls, NEW ok \in BOOLEAN, AppendStrict(c, ok) PROVE OrderInv'
  <2>1. PICK n \in SequencesToUse : nextSeq' = n + 1 /\ Written(<<Frame(c, n)>>, ok)
    BY <1>8 DEF AppendStrict, TakeSequence
  <2>2. pending = <<>> /\ pending' = <<>>
    BY <1>8 DEF AppendStrict
  <2>3. Frame(c, n) \in Cell /\ Frame(c, n).seq = n
    BY <1>2, FrameFields
  <2>4. <<Frame(c, n)>> \in Seq(Cell)
    BY <2>3
  <2>5. Increasing(<<Frame(c, n)>>) /\ FileThenBatch(file, <<Frame(c, n)>>)
    BY <1>2, <2>3 DEF Increasing, FileThenBatch
  <2>6. PICK part : IsPart(part, <<Frame(c, n)>>) /\ file' = file \o part
    BY <2>1, <2>4, WrittenAppends
  <2>7. \A j \in DOMAIN <<Frame(c, n)>> : <<Frame(c, n)>>[j].seq < nextSeq'
    BY <1>2, <2>1, <2>3
  <2>8. QED
    BY <1>2, <1>1, <2>1, <2>2, <2>4, <2>5, <2>6, <2>7, WritingKeepsOrder
<1>9. ASSUME NEW c \in Calls, NEW ok \in BOOLEAN, EnqueueAndFlush(c, ok) PROVE OrderInv'
  <2>1. PICK n \in SequencesToUse :
          nextSeq' = n + 1 /\ Flush(Append(pending, Frame(c, n)), n, ok)
    BY <1>9 DEF EnqueueAndFlush, TakeSequence
  <2> DEFINE b == Append(pending, Frame(c, n))
  <2>2. /\ b \in Seq(Cell) /\ Increasing(b) /\ FileThenBatch(file, b)
        /\ \A j \in DOMAIN b : b[j].seq < nextSeq'
    BY <1>1, <2>1, LongerBatchInOrder
  <2>3. b # <<>>
    <3>1. pending \in Seq(Cell) /\ Frame(c, n) \in Cell
      BY <1>2, FrameFields DEF TypeOK
    <3>2. QED
      BY <3>1
  <2>4. Written(b, ok) /\ pending' = <<>>
    BY <2>1, <2>3 DEF Flush
  <2> HIDE DEF b
  <2>5. PICK part : IsPart(part, b) /\ file' = file \o part
    BY <2>2, <2>4, WrittenAppends
  <2>6. QED
    BY <1>2, <1>1, <2>1, <2>2, <2>4, <2>5, WritingKeepsOrder
<1>10. ASSUME NEW c \in Calls, NEW ok \in BOOLEAN, Collect(c, ok) PROVE OrderInv'
  BY <1>3, <1>10 DEF Collect
<1>11. ASSUME NEW c \in Calls, NEW ok \in BOOLEAN, Timeout(c, ok) PROVE OrderInv'
  <2>1. Flush(pending, seqOf[c], ok) /\ nextSeq' = nextSeq
    BY <1>11 DEF Timeout
  <2>2. CASE pending = <<>>
    BY <1>3, <2>1, <2>2 DEF Flush
  <2>3. CASE pending # <<>>
    <3>1. Written(pending, ok) /\ pending' = <<>> /\ pending \in Seq(Cell)
      BY <2>1, <2>3 DEF Flush, TypeOK
    <3>2. PICK part : IsPart(part, pending) /\ file' = file \o part
      BY <3>1, WrittenAppends
    <3>3. nextSeq' # 0 => Below(file, nextSeq') /\ \A j \in DOMAIN pending : pending[j].seq < nextSeq'
      BY <1>1, <2>1, BatchIsBelowCounter DEF OrderInv
    <3>4. QED
      BY <1>1, <3>1, <3>2, <3>3, WritingKeepsOrder DEF OrderInv
  <2>4. QED
    BY <2>2, <2>3
<1>12. ASSUME NEW p \in Policies, SetPolicy(p) PROVE OrderInv'
  BY <1>3, <1>12 DEF SetPolicy
<1>13. ASSUME Truncate PROVE OrderInv'
  BY <1>1, <1>13 DEF Truncate, state, OrderInv, Sorted, Below, FileThenBatch, Readable
<1>14. ASSUME Crash PROVE OrderInv'
  <2>1. PICK b \in {<<>>, pending} : StopDuring(b, {})
    BY <1>14 DEF Crash
  <2>2. b \in Seq(Cell) /\ Increasing(b) /\ FileThenBatch(file, b)
    <3>1. CASE b = <<>>
      BY <3>1 DEF Increasing, FileThenBatch
    <3>2. CASE b = pending
      BY <1>1, <3>2 DEF TypeOK, OrderInv
    <3>3. QED
      BY <3>1, <3>2
  <2>3. PICK part \in PartialWrites(b) \cup {b} : file' = file \o part
    BY <2>1 DEF StopDuring
  <2>4. pending' = <<>> /\ nextSeq' = 0
    BY <2>1 DEF StopDuring
  <2>5. QED
    BY <1>1, <2>2, <2>3, <2>4, WritesAreParts, WritingKeepsOrder
<1>15. CASE UNCHANGED vars
  BY <1>3, <1>15 DEF vars
<1>16. QED
  BY <1>4, <1>5, <1>6, <1>7, <1>8, <1>9, <1>10, <1>11, <1>12, <1>13, <1>14, <1>15 DEF Next

(* The entries a reader returns have increasing sequences, unless a strict *)
(* append was written ahead of a pending batch.                            *)
THEOREM FileIsOrdered == Spec => []FileOrdered
<1>1. Init => OrderInv
  BY DEF Init, OrderInv, Sorted, Increasing, FileThenBatch, Readable
<1>2. OrderInv => FileOrdered
  BY DEF OrderInv, Sorted, FileOrdered
<1>3. QED
  BY <1>1, <1>2, OrderStep, TypeCorrect, BatchInvariant, PTL DEF Spec
===========================================================================
