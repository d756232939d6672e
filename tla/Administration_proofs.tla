------------------------- MODULE Administration_proofs -------------------------
(***************************************************************************)
(* Proofs about Administration: one process holds a storage root, and no   *)
(* acknowledged change of its users is lost, for any number of processes,  *)
(* starts, reboots, users and threads, but for the windows that the        *)
(* history variables exposed and overlapped set apart; and the profiles    *)
(* that were issued connect, whatever certificate commands ran or stopped. *)
(***************************************************************************)
EXTENDS Administration, FiniteSetTheorems, TLAPS

---------------------------------------------------------------------------
(* The invariants.                                                         *)

Ids == Pids \X Nat \X Nat
Kinds == {"none", "server", "admin", "tool", "other"}
Tellings == {"nothing", "owner", "pid", "boot"}

(* Where a process that made the lock file is in its acquisition.          *)
Made == {"nothing", "owner", "pid", "held"}
ToldIn(phase) == IF phase = "held" THEN "boot" ELSE phase

LockTypes ==
  /\ boot \in Nat \ {0}
  /\ ticks \in [Pids -> Nat]
  /\ life \in [Pids -> [kind : Kinds, ticks : Nat]]
  /\ lock \in [Pids ->
       [phase : {"none", "ask", "judge", "refused"} \cup Made]
         \cup [phase : {"remove"}, judged : Ids, told : Tellings]]
  /\ marker \in {NoMarker} \cup
       [by : Ids, owner : Kinds, told : Tellings, aged : BOOLEAN]
  /\ exposed \in BOOLEAN

(* A pid's ticks grow within a boot, so that no identity comes back.       *)
LifeInv ==
  /\ \A p \in Pids : life[p] # NoProcess =>
       life[p].ticks = ticks[p] /\ ticks[p] > 0
  /\ \A p \in Pids : lock[p].phase # "none" => life[p] # NoProcess

Known(id) == id[2] <= boot /\ (id[2] = boot => id[3] > 0 /\ id[3] <= ticks[id[1]])

(* Who made the file and still runs is writing it or holds the lock; who   *)
(* does finds its own file at the path.  A process whose file was judged   *)
(* stale, because of the pid it names, does not run again.                 *)
MarkerInv ==
  /\ marker # NoMarker =>
       /\ Known(marker.by)
       /\ Running(marker.by) =>
            /\ lock[marker.by[1]].phase \in Made
            /\ life[marker.by[1]].kind = marker.owner
  /\ \A p \in Pids : lock[p].phase \in Made =>
       /\ marker.by = Identity(p)
       /\ marker.told = ToldIn(lock[p].phase)
  /\ \A p \in Pids : lock[p].phase = "remove" =>
       /\ Known(lock[p].judged)
       /\ lock[p].told \in {"pid", "boot"} => ~Running(lock[p].judged)

(* Certificate commands and processes that lock are not run together, and  *)
(* only a server has loaded certificates.                                  *)
MixInv ==
  /\ mix \in Mixes
  /\ command.op # "none" =>
       /\ DOMAIN command = {"op", "todo", "ok", "by", "issues"}
       /\ command.by \in Pids /\ life[command.by].kind = "tool"
       /\ "tool" \in mix.kinds
  /\ \A p \in Pids : lock[p].phase # "none" => "tool" \notin mix.kinds
  /\ DOMAIN tls = Pids
  /\ \A p \in Pids : tls[p] # NoTls => life[p].kind = "server"

LockInv == LockTypes /\ LifeInv /\ (~exposed => MarkerInv)

(* A change is made by one thread at a time, under the lock, from what the *)
(* acknowledged changes left.                                              *)
UnderWay(p, h) == job[p][h].phase \in {"read", "write"}
JobInv ==
  /\ \A p \in Pids, h \in Handlers : job[p][h] # NoJob => lock[p].phase = "held"
  /\ \A p \in Pids, h \in Handlers : UnderWay(p, h) => job[p][h].copy = expected
  /\ \A p \in Pids, g, h \in Handlers :
       UnderWay(p, g) /\ UnderWay(p, h) => g = h
  /\ ~torn => users = expected

JobTypes ==
  /\ DOMAIN job = Pids /\ \A p \in Pids : DOMAIN job[p] = Handlers
  /\ \A p \in Pids, h \in Handlers : UnderWay(p, h) =>
       job[p][h] = [phase |-> job[p][h].phase, change |-> job[p][h].change,
                    copy |-> job[p][h].copy]

Inv ==
  /\ LockInv /\ MixInv /\ JobTypes
  /\ ~exposed /\ ~overlapped => JobInv

---------------------------------------------------------------------------
(* Identities and lock files.                                              *)

LEMMA MarkerIsRecord ==
  ASSUME LockTypes
  PROVE  /\ marker # NoMarker <=> marker.by # <<>>
         /\ marker # NoMarker => marker.by \in Ids /\ marker.told \in Tellings
         /\ \A id \in Ids : id # <<>>
<1>1. \A id \in Ids : id # <<>>
  BY DEF Ids
<1>2. NoMarker.by = <<>>
  BY DEF NoMarker
<1>3. marker # NoMarker =>
        marker \in [by : Ids, owner : Kinds, told : Tellings, aged : BOOLEAN]
  BY DEF LockTypes
<1>4. QED
  BY <1>1, <1>2, <1>3

LEMMA RunningIsIdentity ==
  ASSUME LockTypes, LifeInv, NEW id \in Ids, Known(id), Running(id)
  PROVE  id[1] \in Pids /\ life[id[1]] # NoProcess /\ id = Identity(id[1])
<1>1. id[1] \in Pids /\ id[2] = boot /\ id[3] = life[id[1]].ticks /\ id[3] > 0
  BY DEF Ids, Known, Running, LockTypes
<1>2. id = <<id[1], id[2], id[3]>>
  BY DEF Ids
<1>3. life[id[1]] # NoProcess
  BY <1>1 DEF NoProcess
<1>4. QED
  BY <1>1, <1>2, <1>3 DEF Identity

LEMMA IdentityIs ==
  ASSUME LockTypes, LifeInv, NEW p \in Pids, life[p] # NoProcess
  PROVE  /\ Identity(p) \in Ids /\ Identity(p)[1] = p
         /\ Known(Identity(p)) /\ Running(Identity(p))
<1>1. /\ Identity(p) = <<p, boot, life[p].ticks>>
      /\ boot \in Nat
      /\ life[p].ticks \in Nat
  BY DEF Identity, LockTypes
<1>2. life[p].ticks = ticks[p] /\ ticks[p] > 0
  BY DEF LifeInv
<1>3. QED
  BY <1>1, <1>2 DEF Ids, Known, Running, LockTypes

(* Two processes do not both find their own file.                          *)
LEMMA OneMaker ==
  ASSUME LockTypes, MarkerInv, NEW p \in Pids, NEW q \in Pids,
         lock[p].phase \in Made, lock[q].phase \in Made
  PROVE  p = q
<1>1. Identity(p) = Identity(q)
  BY DEF MarkerInv
<1>2. QED
  BY <1>1 DEF Identity

---------------------------------------------------------------------------
(* Processes start and end.                                                *)

LEMMA StartKeepsLock ==
  ASSUME LockInv, NEW p \in Pids, NEW kind \in Kinds, Start(p, kind)
  PROVE  LockInv'
<1>1. LockTypes /\ LifeInv /\ life[p] = NoProcess
      /\ UNCHANGED <<boot, marker, exposed>>
  BY DEF LockInv, Start
<1>2. /\ \A q \in Pids : ticks'[q] = IF q = p THEN ticks[p] + 1 ELSE ticks[q]
      /\ \A q \in Pids : life'[q] =
           IF q = p THEN [kind |-> kind, ticks |-> ticks[p] + 1] ELSE life[q]
      /\ \A q \in Pids : lock'[q] = IF q = p THEN Waiting ELSE lock[q]
  BY <1>1 DEF Start, LockTypes
<1>3. \A q \in Pids : ticks[q] \in Nat
  BY <1>1 DEF LockTypes
<1>4. LockTypes'
  <2>1. ticks' \in [Pids -> Nat] /\ life' \in [Pids -> [kind : Kinds, ticks : Nat]]
    BY <1>1, <1>3 DEF Start, LockTypes
  <2>2. lock' \in [Pids ->
          [phase : {"none", "ask", "judge", "refused"} \cup Made]
            \cup [phase : {"remove"}, judged : Ids, told : Tellings]]
    BY <1>1 DEF Start, LockTypes, Waiting
  <2>3. QED
    BY <1>1, <2>1, <2>2 DEF LockTypes
<1>5. LifeInv'
  BY <1>1, <1>2, <1>3 DEF LifeInv, Waiting, NoProcess
<1>6. ASSUME NEW id \in Ids, Known(id)
      PROVE  Known(id)' /\ (Running(id)' => Running(id) /\ id[1] # p)
  <2>1. id[1] \in Pids /\ id[2] \in Nat /\ id[3] \in Nat
    BY DEF Ids
  <2>2. QED
    BY <1>1, <1>2, <1>3, <1>6, <2>1 DEF Known, Running
<1>7. ASSUME ~exposed'
      PROVE  MarkerInv'
  <2>1. MarkerInv
    BY <1>1, <1>7 DEF LockInv
  <2>2. marker # NoMarker => marker.by \in Ids /\ marker.by[1] \in Pids
    BY <1>1, MarkerIsRecord DEF Ids
  <2>3. \A q \in Pids : lock'[q].phase # "none" =>
          q # p /\ lock'[q] = lock[q] /\ Identity(q)' = Identity(q)
    BY <1>1, <1>2 DEF Waiting, Identity
  <2>4. \A q \in Pids : lock[q].phase = "remove" => lock[q].judged \in Ids
    BY <1>1 DEF LockTypes, Made
  <2>5. QED
    BY <1>1, <1>2, <1>6, <2>1, <2>2, <2>3, <2>4 DEF MarkerInv, Made
<1>8. QED
  BY <1>4, <1>5, <1>7 DEF LockInv

LEMMA EndKeepsLock ==
  ASSUME LockInv, NEW p \in Pids, End(p)
  PROVE  LockInv'
<1>1. LockTypes /\ LifeInv /\ UNCHANGED <<boot, ticks, marker, exposed>>
  BY DEF LockInv, End
<1>2. /\ \A q \in Pids : life'[q] = IF q = p THEN NoProcess ELSE life[q]
      /\ \A q \in Pids : lock'[q] = IF q = p THEN Waiting ELSE lock[q]
  BY <1>1 DEF End, LockTypes
<1>3. LockTypes'
  BY <1>1 DEF End, LockTypes, Waiting, NoProcess, Kinds
<1>4. LifeInv'
  BY <1>1, <1>2 DEF LifeInv, Waiting
<1>5. ASSUME NEW id \in Ids, Known(id)
      PROVE  Known(id)' /\ (Running(id)' => Running(id) /\ id[1] # p)
  <2>1. id[1] \in Pids /\ id[2] \in Nat /\ id[3] \in Nat
    BY DEF Ids
  <2>2. QED
    BY <1>1, <1>2, <1>5, <2>1 DEF Known, Running, NoProcess
<1>6. ASSUME ~exposed'
      PROVE  MarkerInv'
  <2>1. MarkerInv
    BY <1>1, <1>6 DEF LockInv
  <2>2. marker # NoMarker => marker.by \in Ids /\ marker.by[1] \in Pids
    BY <1>1, MarkerIsRecord DEF Ids
  <2>3. \A q \in Pids : lock'[q].phase # "none" =>
          q # p /\ lock'[q] = lock[q] /\ Identity(q)' = Identity(q)
    BY <1>1, <1>2 DEF Waiting, Identity
  <2>4. \A q \in Pids : lock[q].phase = "remove" => lock[q].judged \in Ids
    BY <1>1 DEF LockTypes, Made
  <2>5. QED
    BY <1>1, <1>2, <1>5, <2>1, <2>2, <2>3, <2>4 DEF MarkerInv, Made
<1>7. QED
  BY <1>3, <1>4, <1>6 DEF LockInv

LEMMA RebootKeepsLock ==
  ASSUME LockInv, Reboot
  PROVE  LockInv'
<1>1. LockTypes /\ LifeInv /\ boot' = boot + 1 /\ UNCHANGED <<marker, exposed>>
  BY DEF LockInv, Reboot
<1>2. \A p \in Pids : ticks'[p] = 0 /\ life'[p] = NoProcess /\ lock'[p] = Waiting
  BY DEF Reboot
<1>3. LockTypes'
  BY <1>1 DEF Reboot, LockTypes, Waiting, NoProcess, Kinds
<1>4. LifeInv'
  BY <1>2 DEF LifeInv, Waiting
<1>5. ASSUME NEW id \in Ids, Known(id)
      PROVE  Known(id)' /\ ~Running(id)'
  <2>1. id[2] \in Nat /\ boot \in Nat
    BY <1>1 DEF Ids, LockTypes
  <2>2. QED
    BY <1>1, <1>5, <2>1 DEF Known, Running
<1>6. ASSUME ~exposed'
      PROVE  MarkerInv'
  <2>1. MarkerInv
    BY <1>1, <1>6 DEF LockInv
  <2>2. marker # NoMarker => marker.by \in Ids
    BY <1>1, MarkerIsRecord
  <2>3. \A q \in Pids : lock'[q].phase = "none"
    BY <1>2 DEF Waiting
  <2>4. QED
    BY <1>1, <1>5, <2>1, <2>2, <2>3 DEF MarkerInv, Made
<1>7. QED
  BY <1>3, <1>4, <1>6 DEF LockInv

---------------------------------------------------------------------------
(* The file is made, told, judged, removed and given up.                   *)

LEMMA PhaseTypes ==
  ASSUME LockTypes, NEW p \in Pids,
         NEW x \in {"none", "ask", "judge", "refused"} \cup Made, To(p, x)
  PROVE  /\ lock' \in [Pids ->
              [phase : {"none", "ask", "judge", "refused"} \cup Made]
                \cup [phase : {"remove"}, judged : Ids, told : Tellings]]
         /\ \A q \in Pids : lock'[q] = IF q = p THEN [phase |-> x] ELSE lock[q]
BY DEF To, LockTypes

(* A step of a live process that has no file and gets none.                *)
LEMMA WithoutFile ==
  ASSUME LockInv, NEW p \in Pids, NEW x \in {"ask", "judge", "refused"},
         life[p] # NoProcess, lock[p].phase \notin Made, To(p, x),
         UNCHANGED <<boot, ticks, life, marker, exposed>>
  PROVE  LockInv'
<1>1. LockTypes /\ LifeInv
  BY DEF LockInv
<1>2. \A q \in Pids : lock'[q] = IF q = p THEN [phase |-> x] ELSE lock[q]
  BY <1>1, PhaseTypes
<1>3. LockTypes'
  BY <1>1, PhaseTypes DEF LockTypes
<1>4. LifeInv'
  BY <1>1, <1>2 DEF LifeInv
<1>5. ASSUME ~exposed'
      PROVE  MarkerInv'
  <2>1. MarkerInv
    BY <1>5 DEF LockInv
  <2>2. \A id : (Known(id)' <=> Known(id)) /\ (Running(id)' <=> Running(id))
    BY DEF Known, Running
  <2>3. \A q \in Pids : Identity(q)' = Identity(q)
    BY DEF Identity
  <2>4. marker # NoMarker => marker.by[1] \in Pids
    BY <1>1, MarkerIsRecord DEF Ids
  <2>5. QED
    BY <1>2, <2>1, <2>2, <2>3, <2>4 DEF MarkerInv, Made
<1>6. QED
  BY <1>3, <1>4, <1>5 DEF LockInv

LEMMA CreateKeepsLock ==
  ASSUME LockInv, NEW p \in Pids, CreateMarker(p)
  PROVE  LockInv'
<1>1. LockTypes /\ LifeInv /\ lock[p].phase = "ask" /\ life[p] # NoProcess
      /\ UNCHANGED <<boot, ticks, life, exposed>>
  BY DEF LockInv, LifeInv, CreateMarker
<1>2. CASE marker # NoMarker
  BY <1>1, <1>2, WithoutFile DEF CreateMarker, Made
<1>3. CASE marker = NoMarker
  <2>1. marker' = Marker(p, "nothing") /\ To(p, "nothing")
    BY <1>3 DEF CreateMarker
  <2>2. /\ Identity(p) \in Ids /\ Identity(p)[1] = p
        /\ Known(Identity(p)) /\ Running(Identity(p))
    BY <1>1, IdentityIs
  <2>3. /\ marker'.by = Identity(p) /\ marker'.told = "nothing"
        /\ marker'.owner = life[p].kind
        /\ marker' \in [by : Ids, owner : Kinds, told : Tellings, aged : BOOLEAN]
    BY <1>1, <2>1, <2>2 DEF Marker, LockTypes, Tellings
  <2>4. \A q \in Pids :
          lock'[q] = IF q = p THEN [phase |-> "nothing"] ELSE lock[q]
    BY <1>1, <2>1, PhaseTypes DEF Made
  <2>5. LockTypes'
    BY <1>1, <2>1, <2>3, PhaseTypes DEF LockTypes, Made
  <2>6. LifeInv'
    BY <1>1, <2>4 DEF LifeInv
  <2>7. ASSUME ~exposed'
        PROVE  MarkerInv'
    <3>1. MarkerInv
      BY <1>1, <2>7 DEF LockInv
    <3>2. \A id : (Known(id)' <=> Known(id)) /\ (Running(id)' <=> Running(id))
      BY <1>1 DEF Known, Running
    <3>3. \A q \in Pids : Identity(q)' = Identity(q)
      BY <1>1 DEF Identity
    <3>4. \A q \in Pids : lock[q].phase \notin Made
      <4>1. \A q \in Pids : lock[q].phase \in Made =>
              life[q] # NoProcess /\ marker.by = Identity(q)
        BY <1>1, <3>1 DEF LifeInv, MarkerInv, Made
      <4>2. \A q \in Pids : life[q] # NoProcess => Identity(q) # <<>>
        BY DEF Identity
      <4>3. marker.by = <<>>
        BY <1>3 DEF NoMarker
      <4>4. QED
        BY <4>1, <4>2, <4>3
    <3>5. \A q \in Pids : lock'[q].phase \in Made =>
            q = p /\ lock'[q].phase = "nothing"
      BY <2>4, <3>4
    <3>6. lock'[p].phase = "nothing"
      BY <2>4
    <3>7. /\ Known(marker.by)'
          /\ lock'[marker'.by[1]].phase \in Made
          /\ life'[marker'.by[1]].kind = marker'.owner
      BY <1>1, <2>2, <2>3, <3>6 DEF Made, Known
    <3>8. ASSUME NEW q \in Pids, lock'[q].phase \in Made
          PROVE  marker'.by = Identity(q)' /\ marker'.told = ToldIn(lock'[q].phase)
      BY <2>3, <3>3, <3>5, <3>8 DEF ToldIn
    <3>9. ASSUME NEW q \in Pids, lock'[q].phase = "remove"
          PROVE  /\ Known(lock[q].judged)'
                 /\ lock'[q].told \in {"pid", "boot"} => ~Running(lock[q].judged)'
      <4>1. lock'[q] = lock[q]
        BY <2>4, <3>9
      <4>2. QED
        BY <1>1, <3>1, <3>9, <4>1 DEF MarkerInv, Known, Running
    <3>10. QED
      BY <3>7, <3>8, <3>9 DEF MarkerInv
  <2>8. QED
    BY <2>5, <2>6, <2>7 DEF LockInv
<1>4. QED
  BY <1>2, <1>3

(* The file at the path goes, and with it no other running process's.      *)
LEMMA UnlinkKeepsLock ==
  ASSUME LockInv, NEW p \in Pids, NEW x \in {"ask", "refused"},
         life[p] # NoProcess, To(p, x), marker' = NoMarker,
         UNCHANGED <<boot, ticks, life>>, exposed' \in BOOLEAN,
         ~exposed' => ~exposed /\ \A q \in Pids \ {p} : lock[q].phase \notin Made
  PROVE  LockInv'
<1>1. LockTypes /\ LifeInv
  BY DEF LockInv
<1>2. \A q \in Pids : lock'[q] = IF q = p THEN [phase |-> x] ELSE lock[q]
  BY <1>1, PhaseTypes
<1>3. LockTypes'
  BY <1>1, PhaseTypes DEF LockTypes
<1>4. LifeInv'
  BY <1>1, <1>2 DEF LifeInv
<1>5. ASSUME ~exposed'
      PROVE  MarkerInv'
  <2>1. MarkerInv
    BY <1>5 DEF LockInv
  <2>2. \A q \in Pids : lock'[q].phase \notin Made
    BY <1>2, <1>5 DEF Made
  <2>3. ASSUME NEW q \in Pids, lock'[q].phase = "remove"
        PROVE  /\ Known(lock[q].judged)'
               /\ lock'[q].told \in {"pid", "boot"} => ~Running(lock[q].judged)'
    <3>1. lock'[q] = lock[q]
      BY <1>2, <2>3
    <3>2. QED
      BY <2>1, <2>3, <3>1 DEF MarkerInv, Known, Running
  <2>4. QED
    BY <2>2, <2>3 DEF MarkerInv
<1>6. QED
  BY <1>3, <1>4, <1>5 DEF LockInv

LEMMA OthersHaveNoFile ==
  ASSUME LockTypes, MarkerInv, NEW p \in Pids, lock[p].phase \in Made
  PROVE  \A q \in Pids \ {p} : lock[q].phase \notin Made
BY OneMaker

LEMMA WriteOwnerKeepsLock ==
  ASSUME LockInv, NEW p \in Pids, WriteLockOwner(p)
  PROVE  LockInv'
<1>1. LockTypes /\ LifeInv /\ lock[p].phase \in {"nothing", "owner", "pid"}
      /\ UNCHANGED <<boot, ticks, life, exposed>>
  BY DEF LockInv, WriteLockOwner, Told
<1>2. life[p] # NoProcess /\ lock[p].phase \in Made
  BY <1>1 DEF LifeInv, Made
<1>3. CASE Unlink(p) /\ To(p, "refused")
  <2>1. ~exposed' => ~exposed /\ \A q \in Pids \ {p} : lock[q].phase \notin Made
    BY <1>1, <1>2, OthersHaveNoFile DEF LockInv
  <2>2. exposed' \in BOOLEAN
    BY <1>1 DEF LockTypes
  <2>3. QED
    BY <1>1, <1>2, <1>3, <2>1, <2>2, UnlinkKeepsLock DEF Unlink
<1>4. CASE ~(Unlink(p) /\ To(p, "refused"))
  <2> DEFINE told == Told[lock[p].phase]
             x == IF told = "boot" THEN "held" ELSE told
  <2>1. To(p, x) /\ marker' = IF marker.by = Identity(p)
                              THEN [marker EXCEPT !.told = told] ELSE marker
    BY <1>4 DEF WriteLockOwner
  <2>2. x \in Made /\ told \in Tellings /\ told = ToldIn(x)
    BY <1>1 DEF Told, Made, Tellings, ToldIn
  <2> HIDE DEF told, x
  <2>3. \A q \in Pids : lock'[q] = IF q = p THEN [phase |-> x] ELSE lock[q]
    BY <1>1, <2>1, <2>2, PhaseTypes
  <2>4. Identity(p) # <<>>
    BY DEF Identity
  <2>5. marker.by = Identity(p) =>
          marker \in [by : Ids, owner : Kinds, told : Tellings, aged : BOOLEAN]
    BY <1>1, <2>4, MarkerIsRecord DEF LockTypes, NoMarker
  <2>6. /\ marker'.by = marker.by
        /\ marker.by # <<>> => marker'.owner = marker.owner
        /\ marker.by = Identity(p) => marker'.told = told
        /\ marker.by # Identity(p) => marker' = marker
        /\ marker' \in {NoMarker} \cup
             [by : Ids, owner : Kinds, told : Tellings, aged : BOOLEAN]
    BY <1>1, <2>1, <2>2, <2>5 DEF LockTypes
  <2>7. LockTypes'
    BY <1>1, <2>1, <2>2, <2>6, PhaseTypes DEF LockTypes
  <2>8. LifeInv'
    BY <1>1, <1>2, <2>3 DEF LifeInv
  <2>9. ASSUME ~exposed'
        PROVE  MarkerInv'
    <3>1. MarkerInv
      BY <1>1, <2>9 DEF LockInv
    <3>2. marker.by = Identity(p) /\ marker # NoMarker
      BY <1>1, <1>2, <2>4, <3>1, MarkerIsRecord DEF MarkerInv
    <3>3. /\ Identity(p) \in Ids /\ Identity(p)[1] = p
          /\ Known(Identity(p)) /\ life[p].kind = marker.owner
      BY <1>1, <1>2, <3>1, <3>2, IdentityIs DEF MarkerInv
    <3>4. \A q \in Pids : lock'[q].phase \in Made => q = p
      BY <1>1, <1>2, <2>3, <3>1, OthersHaveNoFile
    <3>5. lock'[p].phase = x
      BY <2>3
    <3>6. /\ Known(marker.by)'
          /\ lock'[marker'.by[1]].phase \in Made
          /\ life'[marker'.by[1]].kind = marker'.owner
      BY <1>1, <2>2, <2>4, <2>6, <3>2, <3>3, <3>5 DEF Known
    <3>7. ASSUME NEW q \in Pids, lock'[q].phase \in Made
          PROVE  marker'.by = Identity(q)' /\ marker'.told = ToldIn(lock'[q].phase)
      BY <1>1, <2>2, <2>6, <3>2, <3>4, <3>5, <3>7 DEF Identity
    <3>8. ASSUME NEW q \in Pids, lock'[q].phase = "remove"
          PROVE  /\ Known(lock[q].judged)'
                 /\ lock'[q].told \in {"pid", "boot"} => ~Running(lock[q].judged)'
      <4>1. lock'[q] = lock[q]
        BY <2>2, <2>3, <3>8 DEF Made
      <4>2. QED
        BY <1>1, <3>1, <3>8, <4>1 DEF MarkerInv, Known, Running
    <3>9. QED
      BY <3>6, <3>7, <3>8 DEF MarkerInv
  <2>10. QED
    BY <2>7, <2>8, <2>9 DEF LockInv
<1>5. QED
  BY <1>3, <1>4

(* A running process's file is not judged stale by what it says of the pid. *)
LEMMA JudgedIsDead ==
  ASSUME LockTypes, LifeInv, MarkerInv, NEW p \in Pids, lock[p].phase = "judge",
         marker # NoMarker, ShouldReclaim(marker, p), marker.told \in {"pid", "boot"}
  PROVE  ~Running(marker.by)
<1> SUFFICES ASSUME Running(marker.by)
             PROVE  FALSE
  OBVIOUS
<1> DEFINE q == marker.by[1]
<1>1. marker.by \in Ids /\ Known(marker.by)
  BY MarkerIsRecord DEF MarkerInv
<1>2. q \in Pids /\ life[q] # NoProcess
  BY <1>1, RunningIsIdentity
<1>3. life[q].kind = marker.owner /\ lock[q].phase \in Made
  BY DEF MarkerInv
<1>4. marker.by[2] = boot /\ life[q].ticks = marker.by[3]
  BY DEF Running
<1>5. marker.told = "pid" /\ LegacyServerMarkerReclaimable(marker, p)
  BY <1>2, <1>4 DEF ShouldReclaim
<1>6. q = p
  BY <1>3, <1>5 DEF LegacyServerMarkerReclaimable, CmdlineMatchesOwner
<1>7. QED
  BY <1>3, <1>6 DEF Made

LEMMA JudgeKeepsLock ==
  ASSUME LockInv, NEW p \in Pids, JudgeMarker(p)
  PROVE  LockInv'
<1>1. LockTypes /\ LifeInv /\ lock[p].phase = "judge" /\ life[p] # NoProcess
      /\ UNCHANGED <<boot, ticks, life, marker, exposed>>
  BY DEF LockInv, LifeInv, JudgeMarker
<1>2. CASE ~(marker # NoMarker /\ ShouldReclaim(marker, p))
  BY <1>1, <1>2, WithoutFile DEF JudgeMarker, Made
<1>3. CASE marker # NoMarker /\ ShouldReclaim(marker, p)
  <2> DEFINE r == [phase |-> "remove", judged |-> marker.by, told |-> marker.told]
  <2>1. lock' = [lock EXCEPT ![p] = r]
    BY <1>3 DEF JudgeMarker
  <2>2. marker.by \in Ids /\ marker.told \in Tellings
    BY <1>1, <1>3, MarkerIsRecord
  <2>3. r \in [phase : {"remove"}, judged : Ids, told : Tellings]
    BY <2>2
  <2>4. r.phase = "remove" /\ r.judged = marker.by /\ r.told = marker.told
    OBVIOUS
  <2> HIDE DEF r
  <2>5. \A q \in Pids : lock'[q] = IF q = p THEN r ELSE lock[q]
    BY <1>1, <2>1 DEF LockTypes
  <2>6. LockTypes'
    BY <1>1, <2>1, <2>3 DEF LockTypes
  <2>7. LifeInv'
    BY <1>1, <2>5 DEF LifeInv
  <2>8. ASSUME ~exposed'
        PROVE  MarkerInv'
    <3>1. MarkerInv
      BY <1>1, <2>8 DEF LockInv
    <3>2. /\ Known(marker.by)'
          /\ Running(marker.by)' =>
               /\ lock'[marker'.by[1]].phase \in Made
               /\ life'[marker'.by[1]].kind = marker'.owner
      <4>1. marker.by[1] \in Pids
        BY <2>2 DEF Ids
      <4>2. QED
        BY <1>1, <1>3, <2>5, <3>1, <4>1 DEF MarkerInv, Known, Running, Made
    <3>3. ASSUME NEW q \in Pids, lock'[q].phase \in Made
          PROVE  marker'.by = Identity(q)' /\ marker'.told = ToldIn(lock'[q].phase)
      <4>1. lock'[q] = lock[q]
        BY <2>4, <2>5, <3>3 DEF Made
      <4>2. QED
        BY <1>1, <3>1, <3>3, <4>1 DEF MarkerInv, Identity
    <3>4. ASSUME NEW q \in Pids, lock'[q].phase = "remove"
          PROVE  /\ Known(lock[q].judged)'
                 /\ lock'[q].told \in {"pid", "boot"} => ~Running(lock[q].judged)'
      <4>1. CASE q = p
        <5>1. lock'[q].judged = marker.by /\ lock'[q].told = marker.told
          BY <2>4, <2>5, <4>1
        <5>2. marker.told \in {"pid", "boot"} => ~Running(marker.by)
          BY <1>1, <1>3, <3>1, JudgedIsDead
        <5>3. QED
          BY <1>1, <1>3, <3>1, <5>1, <5>2 DEF MarkerInv, Known, Running
      <4>2. CASE q # p
        <5>1. lock'[q] = lock[q]
          BY <2>5, <4>2
        <5>2. QED
          BY <1>1, <3>1, <3>4, <5>1 DEF MarkerInv, Known, Running
      <4>3. QED
        BY <4>1, <4>2
    <3>5. QED
      BY <3>2, <3>3, <3>4 DEF MarkerInv
  <2>9. QED
    BY <2>6, <2>7, <2>8 DEF LockInv
<1>4. QED
  BY <1>2, <1>3

LEMMA RemoveKeepsLock ==
  ASSUME LockInv, NEW p \in Pids, RemoveStale(p)
  PROVE  LockInv'
<1>1. LockTypes /\ LifeInv /\ lock[p].phase = "remove" /\ life[p] # NoProcess
  BY DEF LockInv, LifeInv, RemoveStale
<1>2. ASSUME ~exposed', NEW q \in Pids, lock[q].phase \in Made
      PROVE  FALSE
  <2>1. /\ ~exposed /\ MarkerInv
        /\ ~(/\ marker # NoMarker /\ Running(marker.by)
             /\ \/ marker.by # lock[p].judged
                \/ lock[p].told \notin {"pid", "boot"})
    BY <1>2 DEF RemoveStale, LockInv
  <2>2. life[q] # NoProcess /\ marker.by = Identity(q)
    BY <1>1, <1>2, <2>1 DEF LifeInv, MarkerInv, Made
  <2>3. Running(marker.by) /\ marker # NoMarker
    BY <1>1, <2>2, IdentityIs, MarkerIsRecord
  <2>4. marker.by = lock[p].judged /\ lock[p].told \in {"pid", "boot"}
    BY <2>1, <2>3
  <2>5. QED
    BY <1>1, <2>1, <2>3, <2>4 DEF MarkerInv
<1>3. exposed' \in BOOLEAN /\ (~exposed' => ~exposed)
  BY <1>1 DEF RemoveStale, LockTypes
<1>4. To(p, "ask") /\ marker' = NoMarker /\ UNCHANGED <<boot, ticks, life>>
  BY DEF RemoveStale, Unlink
<1>5. QED
  BY <1>1, <1>2, <1>3, <1>4, UnlinkKeepsLock

LEMMA ReleaseKeepsLock ==
  ASSUME LockInv, NEW p \in Pids, lock[p].phase = "held", Release(p),
         UNCHANGED <<boot, ticks, life, exposed>>
  PROVE  LockInv'
<1>1. LockTypes /\ LifeInv /\ life[p] # NoProcess /\ lock[p].phase \in Made
  BY DEF LockInv, LifeInv, Made
<1>2. ~exposed' => ~exposed /\ \A q \in Pids \ {p} : lock[q].phase \notin Made
  BY <1>1, OthersHaveNoFile DEF LockInv
<1>3. exposed' \in BOOLEAN
  BY <1>1 DEF LockTypes
<1>4. To(p, "refused") /\ marker' = NoMarker
  BY DEF Release, Unlink, To
<1>5. QED
  BY <1>1, <1>2, <1>3, <1>4, UnlinkKeepsLock

LEMMA AgeKeepsLock ==
  ASSUME LockInv, Age
  PROVE  LockInv'
<1>1. LockTypes /\ LifeInv /\ marker # NoMarker
      /\ UNCHANGED <<boot, ticks, life, lock, exposed>>
  BY DEF LockInv, Age
<1>2. /\ marker' \in [by : Ids, owner : Kinds, told : Tellings, aged : BOOLEAN]
      /\ marker'.by = marker.by /\ marker'.owner = marker.owner
      /\ marker'.told = marker.told
  BY <1>1 DEF Age, LockTypes
<1>3. LockTypes' /\ LifeInv'
  BY <1>1, <1>2 DEF LockTypes, LifeInv
<1>4. MarkerInv => MarkerInv'
  <2>1. \A q \in Pids : Identity(q)' = Identity(q)
    BY <1>1 DEF Identity
  <2>2. QED
    BY <1>1, <1>2, <2>1 DEF MarkerInv, Known, Running
<1>5. QED
  BY <1>1, <1>3, <1>4 DEF LockInv

LEMMA LockSame ==
  ASSUME LockInv, UNCHANGED lockVars
  PROVE  LockInv'
<1>1. UNCHANGED <<boot, ticks, life, lock, marker, exposed>>
  BY DEF lockVars
<1>2. \A q \in Pids : Identity(q)' = Identity(q)
  BY <1>1 DEF Identity
<1>3. MarkerInv => MarkerInv'
  BY <1>1, <1>2 DEF MarkerInv, Known, Running
<1>4. QED
  BY <1>1, <1>3 DEF LockInv, LockTypes, LifeInv

LEMMA LockStep ==
  ASSUME LockInv, MixInv, [Next]_vars
  PROVE  LockInv'
<1>1. \A kind \in mix.kinds : kind \in Kinds
  BY MixesAssumption DEF MixInv, Kinds
<1>2. ASSUME NEW p \in Pids, StartProcess(p) \/ BeginCommand(p)
      PROVE  LockInv'
  <2>1. PICK kind \in Kinds : Start(p, kind)
    BY <1>1, <1>2 DEF StartProcess, BeginCommand, Kinds
  <2>2. QED
    BY <2>1, StartKeepsLock
<1>3. ASSUME NEW p \in Pids, EndProcess(p) \/ EndCommand(p)
      PROVE  LockInv'
  BY <1>3, EndKeepsLock DEF EndProcess, EndCommand
<1>4. ASSUME NEW p \in Pids, AskForLock(p)
      PROVE  LockInv'
  <2>1. life[p] # NoProcess
    BY <1>4 DEF AskForLock, MixInv, NoProcess
  <2>2. lock[p].phase = "none" /\ To(p, "ask")
    BY <1>4 DEF AskForLock, Ask, Waiting
  <2>3. UNCHANGED <<boot, ticks, life, marker, exposed>>
    BY <1>4 DEF AskForLock
  <2>4. QED
    BY <2>1, <2>2, <2>3, WithoutFile DEF Made
<1>5. ASSUME NEW p \in Pids, AcquireLock(p)
      PROVE  LockInv'
  BY <1>5, CreateKeepsLock, WriteOwnerKeepsLock, JudgeKeepsLock, RemoveKeepsLock
  DEF AcquireLock, Acquire
<1>6. ASSUME NEW p \in Pids, ReleaseLock(p)
      PROVE  LockInv'
  BY <1>6, ReleaseKeepsLock DEF ReleaseLock
<1>7. CASE RebootAll
  BY <1>7, RebootKeepsLock DEF RebootAll
<1>8. CASE AgeMarker
  BY <1>8, AgeKeepsLock DEF AgeMarker
<1>9. ASSUME NEW p \in Pids, LoadTls(p) \/ WriteFile(p)
      PROVE  LockInv'
  BY <1>9, LockSame DEF LoadTls, WriteFile
<1>10. ASSUME NEW p \in Pids, NEW h \in Handlers,
              \/ TruncateRegistry(p, h) \/ WriteRegistry(p, h)
              \/ \E c \in Changes : ReadRegistry(p, h, c)
       PROVE  LockInv'
  BY <1>10, LockSame DEF TruncateRegistry, WriteRegistry, ReadRegistry
<1>11. CASE UNCHANGED vars
  BY <1>11, LockSame DEF vars
<1>12. QED
  BY <1>2, <1>3, <1>4, <1>5, <1>6, <1>7, <1>8, <1>9, <1>10, <1>11 DEF Next

---------------------------------------------------------------------------
(* What runs together.                                                     *)

LEMMA MixSame ==
  ASSUME MixInv, UNCHANGED <<mix, tls, command, life>>,
         \A p \in Pids : lock'[p].phase # "none" => lock[p].phase # "none"
  PROVE  MixInv'
BY DEF MixInv

LEMMA AcquireKeepsWaiting ==
  ASSUME LockTypes, NEW p \in Pids, Acquire(p)
  PROVE  /\ UNCHANGED life
         /\ lock[p].phase \notin {"none", "held", "refused"}
         /\ \A q \in Pids \ {p} : lock'[q] = lock[q]
<1>1. UNCHANGED life /\ lock[p].phase \notin {"none", "held", "refused"}
  BY DEF Acquire, CreateMarker, WriteLockOwner, JudgeMarker, RemoveStale, Told
<1>2. \A x : To(p, x) => \A q \in Pids \ {p} : lock'[q] = lock[q]
  BY DEF To, LockTypes
<1>3. CASE \E x : To(p, x)
  BY <1>1, <1>2, <1>3
<1>4. CASE ~\E x : To(p, x)
  <2>1. lock' = [lock EXCEPT ![p] = [phase |-> "remove", judged |-> marker.by,
                                     told |-> marker.told]]
    BY <1>4 DEF Acquire, CreateMarker, WriteLockOwner, JudgeMarker, RemoveStale
  <2>2. QED
    BY <1>1, <2>1 DEF LockTypes
<1>5. QED
  BY <1>3, <1>4

LEMMA MixStep ==
  ASSUME LockInv, MixInv, [Next]_vars
  PROVE  MixInv'
<1>1. LockTypes /\ LifeInv
  BY DEF LockInv
<1>2. ASSUME NEW p \in Pids, NEW kind, Start(p, kind)
      PROVE  /\ tls[p] = NoTls /\ (command.op # "none" => command.by # p)
             /\ \A q \in Pids : /\ life'[q].kind = IF q = p THEN kind ELSE life[q].kind
                                /\ lock'[q].phase # "none" => lock[q].phase # "none"
  <2>1. life[p] = NoProcess /\ life[p].kind = "none"
    BY <1>2 DEF Start, NoProcess
  <2>2. QED
    BY <1>1, <1>2, <2>1 DEF Start, MixInv, LockTypes, Waiting
<1>3. ASSUME NEW p \in Pids, StartProcess(p)
      PROVE  MixInv'
  <2>1. PICK kind : Start(p, kind)
    BY <1>3 DEF StartProcess
  <2>2. UNCHANGED <<tls, mix, command>>
    BY <1>3 DEF StartProcess, secVars
  <2>3. QED
    BY <1>2, <2>1, <2>2 DEF MixInv
<1>4. ASSUME NEW p \in Pids, BeginCommand(p)
      PROVE  MixInv'
  <2>1. Start(p, "tool") /\ UNCHANGED <<tls, mix>> /\ "tool" \in mix.kinds
    BY <1>4 DEF BeginCommand
  <2>2. DOMAIN command' = {"op", "todo", "ok", "by", "issues"} /\ command'.by = p
    BY <1>4 DEF BeginCommand
  <2>3. QED
    BY <1>2, <2>1, <2>2 DEF MixInv
<1>5. ASSUME NEW p \in Pids, EndProcess(p)
      PROVE  MixInv'
  <2>1. /\ \A q \in Pids : tls'[q] = IF q = p THEN NoTls ELSE tls[q]
        /\ DOMAIN tls' = Pids /\ mix' = mix
        /\ \A q \in Pids : life'[q] = IF q = p THEN NoProcess ELSE life[q]
        /\ \A q \in Pids : lock'[q] = IF q = p THEN Waiting ELSE lock[q]
    BY <1>1, <1>5 DEF EndProcess, End, Gone, LockTypes
  <2>2. IF command.op # "none" /\ command.by = p
        THEN command' = NoCommand ELSE command' = command
    BY <1>5 DEF EndProcess, Gone, Abandon
  <2>3. QED
    BY <2>1, <2>2 DEF MixInv, NoCommand, Waiting
<1>6. ASSUME NEW p \in Pids, EndCommand(p)
      PROVE  MixInv'
  <2>1. /\ \A q \in Pids : life'[q] = IF q = p THEN NoProcess ELSE life[q]
        /\ \A q \in Pids : lock'[q] = IF q = p THEN Waiting ELSE lock[q]
    BY <1>1, <1>6 DEF EndCommand, End, LockTypes
  <2>2. command.op # "none" /\ command.by = p /\ command' = NoCommand
        /\ UNCHANGED <<mix, tls>>
    BY <1>6 DEF EndCommand
  <2>3. tls[p] = NoTls
    BY <2>2 DEF MixInv
  <2>4. QED
    BY <2>1, <2>2, <2>3 DEF MixInv, NoCommand, Waiting
<1>7. CASE RebootAll
  <2>1. /\ \A q \in Pids : tls'[q] = NoTls /\ lock'[q] = Waiting
        /\ DOMAIN tls' = Pids /\ mix' = mix
    BY <1>7 DEF RebootAll, Reboot, Gone
  <2>2. command'.op = "none"
    <3>1. CASE command.op # "none"
      BY <1>7, <3>1 DEF RebootAll, Gone, Abandon, MixInv, NoCommand
    <3>2. CASE command.op = "none"
      BY <1>7, <3>2 DEF RebootAll, Gone, Abandon
    <3>3. QED
      BY <3>1, <3>2
  <2>3. QED
    BY <2>1, <2>2 DEF MixInv, Waiting
<1>8. ASSUME NEW p \in Pids, AskForLock(p)
      PROVE  MixInv'
  <2>1. \A q \in Pids \ {p} : lock'[q] = lock[q]
    BY <1>1, <1>8 DEF AskForLock, Ask, To, LockTypes
  <2>2. "tool" \notin mix.kinds /\ UNCHANGED <<mix, tls, command, life>>
    BY <1>8 DEF AskForLock, secVars
  <2>3. QED
    BY <2>1, <2>2 DEF MixInv
<1>9. ASSUME NEW p \in Pids, AcquireLock(p)
      PROVE  MixInv'
  <2>1. UNCHANGED <<mix, tls, command>> /\ Acquire(p)
    BY <1>9 DEF AcquireLock, secVars
  <2>2. QED
    BY <1>1, <2>1, AcquireKeepsWaiting, MixSame
<1>10. ASSUME NEW p \in Pids, ReleaseLock(p)
       PROVE  MixInv'
  <2>1. lock[p].phase = "held" /\ \A q \in Pids \ {p} : lock'[q] = lock[q]
    BY <1>1, <1>10 DEF ReleaseLock, Release, LockTypes
  <2>2. UNCHANGED <<mix, tls, command, life>>
    BY <1>10 DEF ReleaseLock, secVars
  <2>3. QED
    BY <2>1, <2>2, MixSame
<1>11. ASSUME NEW p \in Pids, LoadTls(p)
       PROVE  MixInv'
  <2>1. life[p].kind = "server" /\ UNCHANGED <<mix, command, life, lock>>
    BY <1>11 DEF LoadTls, lockVars, secVars
  <2>2. DOMAIN tls' = Pids /\ \A q \in Pids \ {p} : tls'[q] = tls[q]
    BY <1>11 DEF LoadTls, MixInv
  <2>3. QED
    BY <2>1, <2>2 DEF MixInv
<1>12. ASSUME NEW p \in Pids, WriteFile(p)
       PROVE  MixInv'
  <2>1. command.op # "none" /\ UNCHANGED <<mix, tls, life, lock>>
    BY <1>12 DEF WriteFile, lockVars
  <2>2. DOMAIN command' = DOMAIN command
        /\ command'.op = command.op /\ command'.by = command.by
    BY <1>12, <2>1 DEF WriteFile, MixInv
  <2>3. QED
    BY <2>1, <2>2 DEF MixInv
<1>13. ASSUME NEW p \in Pids, NEW h \in Handlers,
              \/ TruncateRegistry(p, h) \/ WriteRegistry(p, h)
              \/ \E c \in Changes : ReadRegistry(p, h, c)
       PROVE  MixInv'
  BY <1>13, MixSame
  DEF TruncateRegistry, WriteRegistry, ReadRegistry, lockVars, secVars
<1>14. CASE AgeMarker
  BY <1>14, MixSame DEF AgeMarker, Age, secVars
<1>15. CASE UNCHANGED vars
  BY <1>15, MixSame DEF vars, lockVars
<1>16. QED
  BY <1>3, <1>4, <1>5, <1>6, <1>7, <1>8, <1>9, <1>10, <1>11, <1>12, <1>13,
     <1>14, <1>15 DEF Next

---------------------------------------------------------------------------
(* Changes of the users.                                                   *)

LEMMA SetJobIs ==
  ASSUME JobTypes, NEW p \in Pids, NEW h \in Handlers, NEW j, SetJob(p, h, j)
  PROVE  /\ DOMAIN job' = Pids /\ \A q \in Pids : DOMAIN job'[q] = Handlers
         /\ \A q \in Pids, g \in Handlers :
              job'[q][g] = IF q = p /\ g = h THEN j ELSE job[q][g]
BY DEF SetJob, JobTypes

LEMMA ForgetIs ==
  ASSUME JobTypes, NEW P, Forget(P)
  PROVE  /\ DOMAIN job' = Pids /\ \A q \in Pids : DOMAIN job'[q] = Handlers
         /\ \A q \in Pids, g \in Handlers :
              job'[q][g] = IF q \in P THEN NoJob ELSE job[q][g]
BY DEF Forget, JobTypes

(* Jobs are forgotten where they are not under the lock any more.          *)
LEMMA ForgetKeepsJobs ==
  ASSUME JobTypes, NEW P, Forget(P), UNCHANGED <<users, torn, expected>>,
         \A q \in Pids \ P : lock[q].phase = "held" => lock'[q].phase = "held"
  PROVE  JobTypes' /\ (JobInv => JobInv')
<1>1. /\ DOMAIN job' = Pids /\ \A q \in Pids : DOMAIN job'[q] = Handlers
      /\ \A q \in Pids, g \in Handlers :
           job'[q][g] = IF q \in P THEN NoJob ELSE job[q][g]
  BY ForgetIs
<1>2. NoJob.phase = "none"
  BY DEF NoJob
<1>3. JobTypes'
  BY <1>1, <1>2 DEF JobTypes, UnderWay
<1>4. JobInv => JobInv'
  BY <1>1, <1>2 DEF JobInv, UnderWay
<1>5. QED
  BY <1>3, <1>4

LEMMA JobsSame ==
  ASSUME UNCHANGED <<job, users, torn, expected>>
  PROVE  /\ JobTypes => JobTypes'
         /\ JobInv /\ (\A q \in Pids : \A g \in Handlers : job[q][g] # NoJob =>
                         (lock[q].phase = "held" => lock'[q].phase = "held"))
              => JobInv'
BY DEF JobTypes, JobInv, UnderWay

LEMMA ReadKeepsJobs ==
  ASSUME JobTypes, NEW p \in Pids, NEW h \in Handlers, NEW c, ReadRegistry(p, h, c)
  PROVE  JobTypes' /\ (JobInv /\ ~overlapped' => JobInv')
<1> DEFINE j == [phase |-> "read", change |-> c, copy |-> users]
<1>1. /\ DOMAIN job' = Pids /\ \A q \in Pids : DOMAIN job'[q] = Handlers
      /\ \A q \in Pids, g \in Handlers :
           job'[q][g] = IF q = p /\ g = h THEN j ELSE job[q][g]
  BY SetJobIs DEF ReadRegistry
<1>2. /\ lock[p].phase = "held" /\ ~torn
      /\ UNCHANGED <<lock, users, torn, expected>>
  BY DEF ReadRegistry, MayChange, lockVars
<1>3. /\ j = [phase |-> j.phase, change |-> j.change, copy |-> j.copy]
      /\ j.phase = "read" /\ j.copy = users
  OBVIOUS
<1> HIDE DEF j
<1>4. JobTypes'
  BY <1>1, <1>3 DEF JobTypes, UnderWay
<1>5. ASSUME JobInv, ~overlapped'
      PROVE  JobInv'
  <2>1. \A g \in Handlers : job[p][g] = NoJob
    <3> SUFFICES ASSUME NEW g \in Handlers, job[p][g] # NoJob
                 PROVE  FALSE
      OBVIOUS
    <3>1. <<p, g>> \in Changing /\ <<p, g>>[1] = p
      BY DEF Changing
    <3>2. QED
      BY <1>5, <3>1 DEF ReadRegistry
  <2>2. NoJob.phase = "none"
    BY DEF NoJob
  <2>3. users = expected
    BY <1>2, <1>5 DEF JobInv
  <2>4. \A q \in Pids, g \in Handlers : job'[q][g] # NoJob => lock'[q].phase = "held"
    BY <1>1, <1>2, <1>5 DEF JobInv
  <2>5. \A q \in Pids, g \in Handlers : UnderWay(q, g)' => job'[q][g].copy = expected'
    BY <1>1, <1>2, <1>3, <1>5, <2>3 DEF JobInv, UnderWay
  <2>6. \A q \in Pids, f, g \in Handlers :
          UnderWay(q, f)' /\ UnderWay(q, g)' => f = g
    BY <1>1, <1>5, <2>1, <2>2 DEF JobInv, UnderWay
  <2>7. QED
    BY <1>2, <2>3, <2>4, <2>5, <2>6 DEF JobInv
<1>6. QED
  BY <1>4, <1>5

LEMMA TruncateKeepsJobs ==
  ASSUME JobTypes, NEW p \in Pids, NEW h \in Handlers, TruncateRegistry(p, h)
  PROVE  JobTypes' /\ (JobInv => JobInv')
<1> DEFINE j == [job[p][h] EXCEPT !.phase = "write"]
<1>1. /\ DOMAIN job' = Pids /\ \A q \in Pids : DOMAIN job'[q] = Handlers
      /\ \A q \in Pids, g \in Handlers :
           job'[q][g] = IF q = p /\ g = h THEN j ELSE job[q][g]
  BY SetJobIs DEF TruncateRegistry
<1>2. UnderWay(p, h) /\ torn' = TRUE /\ UNCHANGED <<lock, users, expected>>
  BY DEF TruncateRegistry, UnderWay, lockVars
<1>3. job[p][h] = [phase |-> job[p][h].phase, change |-> job[p][h].change,
                   copy |-> job[p][h].copy]
  BY <1>2 DEF JobTypes
<1>4. /\ j = [phase |-> j.phase, change |-> j.change, copy |-> j.copy]
      /\ j.phase = "write" /\ j.copy = job[p][h].copy
  BY <1>3
<1> HIDE DEF j
<1>5. JobTypes'
  BY <1>1, <1>4 DEF JobTypes, UnderWay
<1>6. ASSUME JobInv
      PROVE  JobInv'
  <2>1. job[p][h] # NoJob
    BY <1>2 DEF UnderWay, NoJob
  <2>2. \A q \in Pids, g \in Handlers : UnderWay(q, g)' <=> UnderWay(q, g)
    BY <1>1, <1>2, <1>4 DEF UnderWay
  <2>3. QED
    BY <1>1, <1>2, <1>4, <1>6, <2>1, <2>2 DEF JobInv
<1>7. QED
  BY <1>5, <1>6

LEMMA WriteKeepsJobs ==
  ASSUME LockTypes, JobTypes, NEW p \in Pids, NEW h \in Handlers, WriteRegistry(p, h)
  PROVE  JobTypes' /\ (MarkerInv /\ JobInv => JobInv')
<1> DEFINE j == IF life[p].kind = "admin" THEN Done ELSE NoJob
<1>1. /\ DOMAIN job' = Pids /\ \A q \in Pids : DOMAIN job'[q] = Handlers
      /\ \A q \in Pids, g \in Handlers :
           job'[q][g] = IF q = p /\ g = h THEN j ELSE job[q][g]
  BY SetJobIs DEF WriteRegistry
<1>2. UnderWay(p, h) /\ torn' = FALSE /\ UNCHANGED lock
  BY DEF WriteRegistry, UnderWay, lockVars
<1>3. /\ users' = Changed(job[p][h].copy, job[p][h].change)
      /\ expected' = Changed(expected, job[p][h].change)
  BY DEF WriteRegistry
<1>4. j.phase \notin {"read", "write"}
  BY DEF NoJob, Done
<1> HIDE DEF j
<1>5. JobTypes'
  BY <1>1, <1>4 DEF JobTypes, UnderWay
<1>6. ASSUME MarkerInv, JobInv
      PROVE  JobInv'
  <2>1. job[p][h] # NoJob /\ lock[p].phase = "held"
    BY <1>2, <1>6 DEF UnderWay, NoJob, JobInv
  <2>2. users' = expected'
    BY <1>2, <1>3, <1>6 DEF JobInv
  <2>3. ASSUME NEW q \in Pids, NEW g \in Handlers, UnderWay(q, g)'
        PROVE  FALSE
    <3>1. ~(q = p /\ g = h) /\ job'[q][g] = job[q][g] /\ UnderWay(q, g)
      BY <1>1, <1>4, <2>3 DEF UnderWay
    <3>2. lock[q].phase = "held"
      BY <1>6, <3>1 DEF UnderWay, NoJob, JobInv
    <3>3. q = p
      BY <1>6, <2>1, <3>2, OneMaker DEF Made
    <3>4. QED
      BY <1>2, <1>6, <3>1, <3>3 DEF JobInv
  <2>4. \A q \in Pids, g \in Handlers : job'[q][g] # NoJob => lock'[q].phase = "held"
    BY <1>1, <1>2, <1>6, <2>1 DEF JobInv
  <2>5. QED
    BY <2>2, <2>3, <2>4 DEF JobInv
<1>7. QED
  BY <1>5, <1>6

LEMMA JobStep ==
  ASSUME Inv, [Next]_vars
  PROVE  JobTypes' /\ (~exposed' /\ ~overlapped' => JobInv')
<1> DEFINE Kept == JobTypes' /\ (~exposed' /\ ~overlapped' => JobInv')
<1>1. LockTypes /\ LifeInv /\ MixInv /\ JobTypes
      /\ (~exposed => MarkerInv) /\ (~exposed /\ ~overlapped => JobInv)
  BY DEF Inv, LockInv
<1>2. ASSUME NEW p \in Pids, StartProcess(p) \/ BeginCommand(p)
      PROVE  Kept
  <2>1. PICK kind : Start(p, kind)
    BY <1>2 DEF StartProcess, BeginCommand
  <2>2. life[p] = NoProcess /\ UNCHANGED exposed
        /\ \A q \in Pids \ {p} : lock'[q] = lock[q]
    BY <1>1, <2>1 DEF Start, LockTypes
  <2>3. UNCHANGED usersVars
    BY <1>2 DEF StartProcess, BeginCommand
  <2>4. lock[p].phase # "held"
    BY <1>1, <2>2 DEF LifeInv
  <2>5. QED
    BY <1>1, <2>2, <2>3, <2>4, JobsSame DEF usersVars
<1>3. ASSUME NEW p \in Pids, EndProcess(p)
      PROVE  Kept
  <2>1. Forget({p}) /\ UNCHANGED <<users, torn, expected, overlapped, exposed>>
        /\ \A q \in Pids \ {p} : lock'[q] = lock[q]
    BY <1>1, <1>3 DEF EndProcess, End, Gone, LockTypes
  <2>2. QED
    BY <1>1, <2>1, ForgetKeepsJobs
<1>4. ASSUME NEW p \in Pids, EndCommand(p)
      PROVE  Kept
  <2>1. UNCHANGED usersVars /\ UNCHANGED exposed
        /\ \A q \in Pids \ {p} : lock'[q] = lock[q]
    BY <1>1, <1>4 DEF EndCommand, End, LockTypes
  <2>2. lock[p].phase # "held"
    BY <1>1, <1>4 DEF EndCommand, MixInv
  <2>3. QED
    BY <1>1, <2>1, <2>2, JobsSame DEF usersVars
<1>5. CASE RebootAll
  <2>1. Forget(Pids) /\ UNCHANGED <<users, torn, expected, overlapped, exposed>>
    BY <1>5 DEF RebootAll, Reboot, Gone
  <2>2. QED
    BY <1>1, <2>1, ForgetKeepsJobs
<1>6. ASSUME NEW p \in Pids, AskForLock(p)
      PROVE  Kept
  <2>1. lock[p].phase # "held" /\ \A q \in Pids \ {p} : lock'[q] = lock[q]
    BY <1>1, <1>6 DEF AskForLock, Ask, To, Waiting, LockTypes
  <2>2. UNCHANGED usersVars /\ UNCHANGED exposed
    BY <1>6 DEF AskForLock
  <2>3. QED
    BY <1>1, <2>1, <2>2, JobsSame DEF usersVars
<1>7. ASSUME NEW p \in Pids, AcquireLock(p)
      PROVE  Kept
  <2>1. Acquire(p) /\ UNCHANGED usersVars
    BY <1>7 DEF AcquireLock
  <2>2. lock[p].phase # "held" /\ \A q \in Pids \ {p} : lock'[q] = lock[q]
    BY <1>1, <2>1, AcquireKeepsWaiting
  <2>3. ~exposed' => ~exposed
    BY <2>1 DEF Acquire, CreateMarker, WriteLockOwner, JudgeMarker, RemoveStale
  <2>4. QED
    BY <1>1, <2>1, <2>2, <2>3, JobsSame DEF usersVars
<1>8. ASSUME NEW p \in Pids, ReleaseLock(p)
      PROVE  Kept
  <2>1. Forget({p}) /\ UNCHANGED <<users, torn, expected, overlapped, exposed>>
        /\ \A q \in Pids \ {p} : lock'[q] = lock[q]
    BY <1>1, <1>8 DEF ReleaseLock, Release, LockTypes
  <2>2. QED
    BY <1>1, <2>1, ForgetKeepsJobs
<1>9. ASSUME NEW p \in Pids, LoadTls(p) \/ WriteFile(p)
      PROVE  Kept
  <2>1. UNCHANGED usersVars /\ UNCHANGED <<exposed, lock>>
    BY <1>9 DEF LoadTls, WriteFile, lockVars
  <2>2. QED
    BY <1>1, <2>1, JobsSame DEF usersVars
<1>10. CASE AgeMarker
  <2>1. UNCHANGED usersVars /\ UNCHANGED <<exposed, lock>>
    BY <1>10 DEF AgeMarker, Age
  <2>2. QED
    BY <1>1, <2>1, JobsSame DEF usersVars
<1>11. ASSUME NEW p \in Pids, NEW h \in Handlers, NEW c, ReadRegistry(p, h, c)
       PROVE  Kept
  <2>1. UNCHANGED exposed /\ (~overlapped' => ~overlapped)
    BY <1>11 DEF ReadRegistry, lockVars
  <2>2. QED
    BY <1>1, <1>11, <2>1, ReadKeepsJobs
<1>12. ASSUME NEW p \in Pids, NEW h \in Handlers, TruncateRegistry(p, h)
       PROVE  Kept
  <2>1. UNCHANGED <<exposed, overlapped>>
    BY <1>12 DEF TruncateRegistry, lockVars
  <2>2. QED
    BY <1>1, <1>12, <2>1, TruncateKeepsJobs
<1>13. ASSUME NEW p \in Pids, NEW h \in Handlers, WriteRegistry(p, h)
       PROVE  Kept
  <2>1. UNCHANGED <<exposed, overlapped>>
    BY <1>13 DEF WriteRegistry, lockVars
  <2>2. QED
    BY <1>1, <1>13, <2>1, WriteKeepsJobs
<1>14. CASE UNCHANGED vars
  <2>1. UNCHANGED usersVars /\ UNCHANGED <<exposed, lock>>
    BY <1>14 DEF vars, lockVars, usersVars
  <2>2. QED
    BY <1>1, <2>1, JobsSame DEF usersVars
<1>15. QED
  BY <1>2, <1>3, <1>4, <1>5, <1>6, <1>7, <1>8, <1>9, <1>10, <1>11, <1>12,
     <1>13, <1>14 DEF Next

---------------------------------------------------------------------------
LEMMA InvInit ==
  ASSUME Init
  PROVE  Inv
<1>1. LockTypes
  <2>1. \A p \in Pids :
          LegacyMarker(p) \in [by : Ids, owner : Kinds, told : Tellings, aged : BOOLEAN]
    BY DEF LegacyMarker, Ids, Kinds, Tellings
  <2>2. marker \in {NoMarker} \cup
          [by : Ids, owner : Kinds, told : Tellings, aged : BOOLEAN]
    BY <2>1 DEF Init, LockInit
  <2>3. life \in [Pids -> [kind : Kinds, ticks : Nat]]
    BY DEF Init, LockInit, NoProcess, Kinds
  <2>4. lock \in [Pids ->
          [phase : {"none", "ask", "judge", "refused"} \cup Made]
            \cup [phase : {"remove"}, judged : Ids, told : Tellings]]
    BY DEF Init, LockInit, Waiting
  <2>5. boot \in Nat \ {0} /\ ticks \in [Pids -> Nat]
    BY DEF Init, LockInit
  <2>6. exposed \in BOOLEAN
    BY DEF Init, LockInit
  <2>7. QED
    BY <2>2, <2>3, <2>4, <2>5, <2>6 DEF LockTypes
<1>2. \A p \in Pids : life[p] = NoProcess /\ lock[p].phase = "none"
  BY DEF Init, LockInit, Waiting
<1>3. LifeInv
  BY <1>2 DEF LifeInv
<1>4. MarkerInv
  <2>1. marker # NoMarker => /\ Known(marker.by) /\ ~Running(marker.by)
    BY DEF Init, LockInit, LegacyMarker, Known, Running
  <2>2. QED
    BY <1>2, <2>1 DEF MarkerInv, Made
<1>5. MixInv
  BY <1>2 DEF Init, MixInv, NoCommand
<1>6. \A p \in Pids, h \in Handlers : job[p][h] = NoJob /\ job[p][h].phase = "none"
  BY DEF Init, NoJob
<1>7. JobTypes
  BY <1>6 DEF Init, JobTypes, UnderWay
<1>8. JobInv
  BY <1>6 DEF Init, JobInv, UnderWay
<1>9. QED
  BY <1>1, <1>3, <1>4, <1>5, <1>7, <1>8 DEF Inv, LockInv

LEMMA InvAlways == Spec => []Inv
<1>1. Init => Inv
  BY InvInit
<1>2. Inv /\ [Next]_vars => Inv'
  BY LockStep, MixStep, JobStep DEF Inv
<1>3. QED
  BY <1>1, <1>2, PTL DEF Spec

(* Two processes never hold the lock of a storage root, across stops,      *)
(* reboots, process ids given again and lock files of older versions,      *)
(* unless a running process lost its file to one of the two windows        *)
(* between judging a file and removing the path.                           *)
THEOREM OneProcessHolds == Spec => []OneHolder
<1>1. Inv => OneHolder
  <2> SUFFICES ASSUME Inv, ~exposed
               PROVE  Cardinality(Holders) <= 1
    BY DEF OneHolder
  <2>1. \A p, q \in Holders : p = q
    BY OneMaker DEF Inv, LockInv, Holders, Made
  <2>2. CASE Holders = {}
    BY <2>2, FS_EmptySet
  <2>3. CASE Holders # {}
    <3>1. PICK p : Holders = {p}
      BY <2>1, <2>3
    <3>2. Cardinality({p}) = 1
      BY FS_Singleton
    <3>3. QED
      BY <3>1, <3>2
  <2>4. QED
    BY <2>2, <2>3
<1>2. QED
  BY <1>1, InvAlways, PTL

(* The users file, when it is whole, holds every acknowledged change,      *)
(* whatever servers and administrators start, stop and change users; the   *)
(* windows of the lock and two threads of one server are set apart.        *)
THEOREM NoUserChangeLost == Spec => []UserChangesKept
<1>1. Inv => UserChangesKept
  BY DEF Inv, JobInv, UserChangesKept
<1>2. QED
  BY <1>1, InvAlways, PTL

---------------------------------------------------------------------------
(* The security directory.  What holds of it between commands is broken    *)
(* and restored by a command, file by file: each part of the invariant     *)
(* says which write that is still to come makes it true again.             *)

(* A command's writes come in one order, whatever the command.             *)
Rank(what) ==
  CASE what = "archive" -> 1
    [] what = "ca_certificate" -> 2
    [] what = "ca_key" -> 3
    [] what = "bundle" -> 4
    [] what = "server_certificate" -> 5
    [] what = "server_key" -> 6
    [] what = "no_revocations" -> 7
    [] what = "no_records" -> 8
    [] what = "revoke" -> 9
    [] what = "client_certificate" -> 10
    [] what = "client_key" -> 11
    [] what = "client_ca" -> 12
    [] what = "record" -> 13
    [] what = "refresh" -> 14

Plain == AuthorityFiles \cup ServerFiles
OfClient == {"client_certificate", "client_key", "client_ca", "record"}
Steps ==
  [what : Plain] \cup [what : {"revoke"}, serial : Nat]
    \cup [what : OfClient, identity : Identities, device : Devices,
          profile : Profiles]
    \cup [what : {"refresh"}, profile : Profiles]

Ordered(todo) ==
  \A i, j \in DOMAIN todo : i < j =>
    \/ Rank(todo[i].what) < Rank(todo[j].what)
    \/ todo[i].what = todo[j].what /\ todo[i].what \in {"revoke", "refresh"}

Has(todo, what) == \E i \in DOMAIN todo : todo[i].what = what
HasRefresh(todo, d) ==
  \E i \in DOMAIN todo : todo[i].what = "refresh" /\ todo[i].profile = d

Records == [serial : Nat, identity : Identities, device : Devices,
            profile : Profiles]
Certificates ==
  [crt : Nat, signer : Nat, identity : Identities \cup {<<>>}, key : Nat,
   ca : SUBSET Nat]
Directories ==
  [caCrt : Nat, caKey : Nat, archive : SUBSET Nat, bundle : SUBSET Nat,
   serverCrt : [signer : Nat, key : Nat], serverKey : Nat,
   revoked : SUBSET Nat, registry : SUBSET Records,
   profile : [Profiles -> Certificates], cas : Nat, serials : Nat]
IsDirectory(s) == s \in Directories /\ IsFiniteSet(s.registry)

(* The authorities whose key may have signed anything.                     *)
Authorities(s) == ({s.caCrt} \cup s.archive) \ {None}
Issued(s) == {r.profile : r \in s.registry}

(* Only an authority whose certificate is kept has signed.                 *)
DirectoryInv(s) ==
  /\ IsDirectory(s)
  /\ s.cas = s.caCrt
  /\ s.caKey \in Authorities(s) \cup {None}
  /\ s.caCrt = None => s.bundle = {} /\ s.archive = {}
  /\ None \notin s.archive /\ None \notin s.bundle
  /\ s.registry # {} => HasAuthority(s)
  /\ s.serverCrt.key # None => s.serverCrt.signer \in Authorities(s)
  /\ \A d \in Profiles :
       s.profile[d].crt # None => s.profile[d].signer \in Authorities(s)

(* So has the certificate every running server loaded.                     *)
TlsInv(s, t) ==
  /\ DOMAIN t = Pids
  /\ \A p \in Pids :
       t[p] \in {NoTls, Unmanaged} \/ t[p].signer \in Authorities(s)

(* A command under way: which files its remaining writes bring with them.  *)
Ops == {"init", "rotate", "reissue", "issue", "renew", "revoke", "remove"}
ShapeInv(c) ==
  /\ c \in [op : Ops, todo : Seq(Steps), ok : BOOLEAN, by : Pids,
            issues : SUBSET Profiles]
  /\ Ordered(c.todo)
  /\ Has(c.todo, "client_certificate") => Has(c.todo, "client_key")
  /\ Has(c.todo, "server_certificate") => Has(c.todo, "server_key")
  /\ c.op = "init" /\ Has(c.todo, "ca_key") => Has(c.todo, "server_key")
  /\ Has(c.todo, "archive") \/ Has(c.todo, "ca_certificate") =>
       Has(c.todo, "bundle")
  /\ c.op # "rotate" => ~Has(c.todo, "archive") /\ ~Has(c.todo, "refresh")
  /\ c.op \notin {"rotate", "init"} =>
       /\ ~Has(c.todo, "ca_certificate") /\ ~Has(c.todo, "ca_key")
       /\ ~Has(c.todo, "bundle") /\ ~Has(c.todo, "no_records")
  /\ c.op = "rotate" => ~Has(c.todo, "no_records")
  /\ \A i \in DOMAIN c.todo :
       c.todo[i].what \in OfClient => c.todo[i].profile \in c.issues
  /\ \A d, e \in c.issues : d = e
  /\ c.op \in {"rotate", "init"} => c.issues = {}

(* A command under way has an authority, or is still to write it; the old  *)
(* one is set aside before it is written over.                             *)
AuthorityInv(s, c) ==
  /\ Has(c.todo, "ca_certificate") \/ s.caCrt # None
  /\ Has(c.todo, "ca_key") \/ s.caKey # None
  /\ Has(c.todo, "ca_certificate") =>
       Has(c.todo, "archive") \/ s.caCrt = None \/ s.caCrt \in s.archive
  /\ c.op = "rotate" => HasAuthority(s)
  /\ c.op = "init" =>
       /\ s.registry = {}
       /\ Has(c.todo, "ca_certificate") => s.caCrt = None

(* What is trusted is every authority there was, but in a rotation and     *)
(* after one that was stopped or refused.                                  *)
Current(s) == Trusted(s) = {s.caCrt} \cup s.archive
Bundled(s) == s.bundle = {s.caCrt} \cup s.archive
BundleInv(s, c, late) ==
  /\ c.op # "rotate" /\ "profiles" \notin late => Current(s)
  /\ c.op = "rotate" /\ ~Has(c.todo, "bundle") => Bundled(s)

(* The server's certificate fits its key, but between the two writes.      *)
ServerPair(s) == s.serverCrt.key # None /\ s.serverKey = s.serverCrt.key
ForServer(c) == c.op \in {"init", "reissue"} \/ (c.op = "rotate" /\ c.ok)
ServerInv(s, c, late) ==
  /\ ~Has(c.todo, "server_key") =>
       /\ ForServer(c) => ServerPair(s)
       /\ "server" \notin late /\ HasAuthority(s) => ServerPair(s)
  /\ Has(c.todo, "server_key") /\ ~Has(c.todo, "server_certificate")
       => s.serverCrt.key # None

(* A profile whose issuing was acknowledged is whole; it trusts what the   *)
(* directory does, or the rotation under way is still to refresh it.       *)
ReadyInv(s, c, done, late) ==
  \A d \in done :
    /\ d \in Issued(s) /\ s.profile[d].crt # None
    /\ s.profile[d].key = s.profile[d].crt
    /\ c.op # "rotate" /\ "profiles" \notin late =>
         s.profile[d].ca = Trusted(s)
    /\ c.op = "rotate" /\ c.ok =>
         \/ HasRefresh(c.todo, d)
         \/ ~Has(c.todo, "bundle") /\ s.profile[d].ca = Trusted(s)

(* The profile a command is issuing, file by file.                         *)
IssueInv(s, c, done) ==
  \A d \in c.issues :
    /\ d \notin done
    /\ ~Has(c.todo, "client_certificate") => s.profile[d].crt # None
    /\ ~Has(c.todo, "client_key") => s.profile[d].key = s.profile[d].crt
    /\ ~Has(c.todo, "client_ca") => s.profile[d].ca = Trusted(s)
    /\ ~Has(c.todo, "record") => d \in Issued(s)

(* Between commands, and while one writes.                                 *)
AtRest(s, c, done, late, t) ==
  /\ DirectoryInv(s) /\ TlsInv(s, t) /\ done \subseteq Profiles
  /\ BundleInv(s, c, late) /\ ServerInv(s, c, late)
  /\ ReadyInv(s, c, done, late)
AtWork(s, c, done) ==
  ShapeInv(c) /\ AuthorityInv(s, c) /\ IssueInv(s, c, done)

CertInv ==
  /\ AtRest(sec, command, ready, interrupted, tls)
  /\ IF command.op = "none" THEN command = NoCommand
     ELSE AtWork(sec, command, ready)

---------------------------------------------------------------------------
LEMMA StepKinds ==
  ASSUME NEW x \in Steps
  PROVE  /\ x.what \in Plain \cup OfClient \cup {"revoke", "refresh"}
         /\ x.what = "revoke" => x.serial \in Nat
         /\ x.what = "refresh" => x.profile \in Profiles
         /\ x.what \in OfClient =>
              /\ x.identity \in Identities /\ x.device \in Devices
              /\ x.profile \in Profiles
  BY DEF Steps, Plain, OfClient, AuthorityFiles, ServerFiles

LEMMA RankIs ==
  /\ Rank("archive") = 1 /\ Rank("ca_certificate") = 2
  /\ Rank("ca_key") = 3 /\ Rank("bundle") = 4
  /\ Rank("server_certificate") = 5 /\ Rank("server_key") = 6
  /\ Rank("no_revocations") = 7 /\ Rank("no_records") = 8
  /\ Rank("revoke") = 9 /\ Rank("client_certificate") = 10
  /\ Rank("client_key") = 11 /\ Rank("client_ca") = 12
  /\ Rank("record") = 13 /\ Rank("refresh") = 14
  BY DEF Rank

LEMMA NextTodo ==
  ASSUME NEW t \in Seq(Steps), t # <<>>
  PROVE  /\ Head(t) \in Steps /\ Tail(t) \in Seq(Steps)
         /\ \A w : Has(t, w) <=> Head(t).what = w \/ Has(Tail(t), w)
         /\ \A d : HasRefresh(t, d) <=>
              \/ Head(t).what = "refresh" /\ Head(t).profile = d
              \/ HasRefresh(Tail(t), d)
<1>1. /\ Head(t) = t[1] /\ Head(t) \in Steps /\ Tail(t) \in Seq(Steps)
      /\ DOMAIN t = 1 .. Len(t) /\ DOMAIN Tail(t) = 1 .. Len(t) - 1
      /\ Len(t) \in Nat \ {0}
      /\ \A i \in 1 .. Len(t) - 1 : Tail(t)[i] = t[i + 1]
  OBVIOUS
<1>2. 1 \in DOMAIN t /\ \A i \in DOMAIN Tail(t) : i + 1 \in DOMAIN t
  BY <1>1
<1>3. \A i \in DOMAIN t : i = 1 \/ (i - 1 \in DOMAIN Tail(t) /\ Tail(t)[i - 1] = t[i])
  BY <1>1
<1>4. \A w : Has(t, w) <=> Head(t).what = w \/ Has(Tail(t), w)
  BY <1>1, <1>2, <1>3 DEF Has
<1>5. \A d : HasRefresh(t, d) <=>
              \/ Head(t).what = "refresh" /\ Head(t).profile = d
              \/ HasRefresh(Tail(t), d)
  BY <1>1, <1>2, <1>3 DEF HasRefresh
<1>6. QED
  BY <1>1, <1>4, <1>5

LEMMA NextOrdered ==
  ASSUME NEW t \in Seq(Steps), t # <<>>, Ordered(t)
  PROVE  /\ Ordered(Tail(t))
         /\ \A w : Has(Tail(t), w) =>
              \/ Rank(Head(t).what) < Rank(w)
              \/ w = Head(t).what /\ w \in {"revoke", "refresh"}
<1>1. /\ Head(t) = t[1] /\ 1 \in DOMAIN t
      /\ DOMAIN t = 1 .. Len(t) /\ DOMAIN Tail(t) = 1 .. Len(t) - 1
      /\ Len(t) \in Nat \ {0}
      /\ \A i \in 1 .. Len(t) - 1 : Tail(t)[i] = t[i + 1]
  OBVIOUS
<1>2. Ordered(Tail(t))
  <2> SUFFICES ASSUME NEW i \in DOMAIN Tail(t), NEW j \in DOMAIN Tail(t), i < j
               PROVE  \/ Rank(Tail(t)[i].what) < Rank(Tail(t)[j].what)
                      \/ /\ Tail(t)[i].what = Tail(t)[j].what
                         /\ Tail(t)[i].what \in {"revoke", "refresh"}
    BY DEF Ordered
  <2>1. i + 1 \in DOMAIN t /\ j + 1 \in DOMAIN t /\ i + 1 < j + 1
    BY <1>1
  <2>2. Tail(t)[i] = t[i + 1] /\ Tail(t)[j] = t[j + 1]
    BY <1>1
  <2>3. \/ Rank(t[i + 1].what) < Rank(t[j + 1].what)
        \/ t[i + 1].what = t[j + 1].what /\ t[i + 1].what \in {"revoke", "refresh"}
    BY <2>1 DEF Ordered
  <2>4. QED
    BY <2>2, <2>3
<1>3. ASSUME NEW w, Has(Tail(t), w)
      PROVE  \/ Rank(Head(t).what) < Rank(w)
             \/ w = Head(t).what /\ w \in {"revoke", "refresh"}
  <2>1. PICK i \in DOMAIN Tail(t) : Tail(t)[i].what = w
    BY <1>3 DEF Has
  <2>2. i + 1 \in DOMAIN t /\ 1 < i + 1 /\ t[i + 1].what = w
    BY <1>1, <2>1
  <2>3. \/ Rank(t[1].what) < Rank(t[i + 1].what)
        \/ t[1].what = t[i + 1].what /\ t[1].what \in {"revoke", "refresh"}
    BY <1>1, <2>2 DEF Ordered
  <2>4. QED
    BY <1>1, <2>2, <2>3
<1>4. QED
  BY <1>2, <1>3

LEMMA NextShape ==
  ASSUME NEW c, ShapeInv(c), c.todo # <<>>
  PROVE  ShapeInv([c EXCEPT !.todo = Tail(@)])
<1> DEFINE t == c.todo
           n == [c EXCEPT !.todo = Tail(@)]
           h == Head(t)
<1>1. /\ t \in Seq(Steps) /\ t # <<>>
      /\ c \in [op : Ops, todo : Seq(Steps), ok : BOOLEAN, by : Pids,
                issues : SUBSET Profiles]
  BY DEF ShapeInv
<1>2. /\ n.todo = Tail(t) /\ n.op = c.op /\ n.issues = c.issues
      /\ n \in [op : Ops, todo : Seq(Steps), ok : BOOLEAN, by : Pids,
                issues : SUBSET Profiles]
  BY <1>1, NextTodo
<1>3. \A w : Has(t, w) <=> h.what = w \/ Has(Tail(t), w)
  BY <1>1, NextTodo
<1>4. \A w : Has(Tail(t), w) => \/ Rank(h.what) < Rank(w)
                                \/ w = h.what /\ w \in {"revoke", "refresh"}
  BY <1>1, NextOrdered DEF ShapeInv
<1>5. Ordered(Tail(t))
  BY <1>1, NextOrdered DEF ShapeInv
<1>6. h.what \in Plain \cup OfClient \cup {"revoke", "refresh"}
  BY <1>1, NextTodo, StepKinds
<1>7. \A i \in DOMAIN Tail(t) :
        Tail(t)[i].what \in OfClient => Tail(t)[i].profile \in c.issues
  <2>1. \A i \in DOMAIN Tail(t) : i + 1 \in DOMAIN t /\ Tail(t)[i] = t[i + 1]
    BY <1>1
  <2>2. QED
    BY <2>1 DEF ShapeInv
<1> HIDE DEF t, n, h
<1>8. /\ h.what = "client_key" => ~Has(Tail(t), "client_certificate")
      /\ h.what = "server_key" => ~Has(Tail(t), "server_certificate")
      /\ h.what = "server_key" => ~Has(Tail(t), "ca_key")
      /\ h.what = "bundle" => ~Has(Tail(t), "archive")
      /\ h.what = "bundle" => ~Has(Tail(t), "ca_certificate")
  BY <1>4, RankIs
<1>9. /\ Has(Tail(t), "client_certificate") => Has(Tail(t), "client_key")
      /\ Has(Tail(t), "server_certificate") => Has(Tail(t), "server_key")
      /\ c.op = "init" /\ Has(Tail(t), "ca_key") => Has(Tail(t), "server_key")
      /\ Has(Tail(t), "archive") \/ Has(Tail(t), "ca_certificate") =>
           Has(Tail(t), "bundle")
  BY <1>3, <1>8, RankIs DEF ShapeInv, t
<1>12. QED
  BY <1>2, <1>3, <1>5, <1>7, <1>9 DEF ShapeInv, t

---------------------------------------------------------------------------
(* One write: what it changes.                                             *)
Same(s, n, F) ==
  /\ "caCrt" \in F \/ n.caCrt = s.caCrt
  /\ "caKey" \in F \/ n.caKey = s.caKey
  /\ "archive" \in F \/ n.archive = s.archive
  /\ "bundle" \in F \/ n.bundle = s.bundle
  /\ "serverCrt" \in F \/ n.serverCrt = s.serverCrt
  /\ "serverKey" \in F \/ n.serverKey = s.serverKey
  /\ "revoked" \in F \/ n.revoked = s.revoked
  /\ "registry" \in F \/ n.registry = s.registry
  /\ "profile" \in F \/ n.profile = s.profile
  /\ "cas" \in F \/ n.cas = s.cas
  /\ "serials" \in F \/ n.serials = s.serials

LEMMA AuthorityIsWritten ==
  ASSUME NEW s, NEW x, x.what \in AuthorityFiles
  PROVE  Written(s, x) = AuthorityWritten(s, x.what)
BY Zenon DEF Written

LEMMA ServerIsWritten ==
  ASSUME NEW s, NEW x, x.what \in ServerFiles
  PROVE  Written(s, x) = ServerWritten(s, x.what)
<1>1. x.what \notin AuthorityFiles
  BY DEF AuthorityFiles, ServerFiles
<1>2. QED
  BY <1>1, Zenon DEF Written

LEMMA ClientIsWritten ==
  ASSUME NEW s, NEW x, x.what \in OfClient \cup {"refresh", "revoke"}
  PROVE  Written(s, x) = ClientWritten(s, x)
<1>1. x.what \notin AuthorityFiles /\ x.what \notin ServerFiles
  BY DEF AuthorityFiles, ServerFiles, OfClient
<1>2. QED
  BY <1>1, Zenon DEF Written

LEMMA ArchiveWritten ==
  ASSUME NEW s, IsDirectory(s), NEW x, x.what = "archive",
         NEW n, n = Written(s, x)
  PROVE  /\ IsDirectory(n) /\ Same(s, n, {"archive"})
         /\ n.archive = s.archive \cup {s.caCrt}
<1>1. n = AuthorityWritten(s, "archive")
  BY AuthorityIsWritten DEF AuthorityFiles
<1>2. n = [s EXCEPT !.archive = s.archive \cup {s.caCrt}]
  BY <1>1 DEF AuthorityWritten, Serial
<1>3. /\ s.cas \in Nat /\ s.serials \in Nat /\ s.caCrt \in Nat
      /\ s.archive \subseteq Nat /\ s.caKey \in Nat
      /\ s.serverCrt.key \in Nat /\ s.serverCrt.signer \in Nat
  BY DEF IsDirectory, Directories
<1>4. n \in Directories
  BY <1>2, <1>3 DEF IsDirectory, Directories
<1>5. Same(s, n, {"archive"})
  BY <1>2 DEF Same, IsDirectory, Directories
<1>6. n.archive = s.archive \cup {s.caCrt}
  BY <1>2 DEF IsDirectory, Directories
<1>7. IsFiniteSet(n.registry)
  BY <1>5, <1>6, FS_EmptySet DEF Same, IsDirectory
<1>8. QED
  BY <1>4, <1>5, <1>6, <1>7 DEF IsDirectory

LEMMA CaCertificateWritten ==
  ASSUME NEW s, IsDirectory(s), NEW x, x.what = "ca_certificate",
         NEW n, n = Written(s, x)
  PROVE  /\ IsDirectory(n) /\ Same(s, n, {"caCrt", "cas"})
         /\ n.caCrt = s.cas + 1
         /\ n.cas = s.cas + 1
<1>1. n = AuthorityWritten(s, "ca_certificate")
  BY AuthorityIsWritten DEF AuthorityFiles
<1>2. n = [s EXCEPT !.caCrt = s.cas + 1, !.cas = s.cas + 1]
  BY <1>1 DEF AuthorityWritten, Serial
<1>3. /\ s.cas \in Nat /\ s.serials \in Nat /\ s.caCrt \in Nat
      /\ s.archive \subseteq Nat /\ s.caKey \in Nat
      /\ s.serverCrt.key \in Nat /\ s.serverCrt.signer \in Nat
  BY DEF IsDirectory, Directories
<1>4. n \in Directories
  <2>1. s.cas + 1 \in Nat /\ s.cas + 1 \in Nat
    BY <1>3
  <2>2. [s EXCEPT !.caCrt = s.cas + 1] \in Directories
    BY <2>1 DEF IsDirectory, Directories
  <2>3. n = [[s EXCEPT !.caCrt = s.cas + 1] EXCEPT !.cas = s.cas + 1]
    BY <1>2 DEF IsDirectory, Directories
  <2>4. QED
    BY <2>1, <2>2, <2>3 DEF Directories
<1>5. Same(s, n, {"caCrt", "cas"})
  BY <1>2 DEF Same, IsDirectory, Directories
<1>6. n.caCrt = s.cas + 1 /\ n.cas = s.cas + 1
  BY <1>2 DEF IsDirectory, Directories
<1>7. IsFiniteSet(n.registry)
  BY <1>5, <1>6, FS_EmptySet DEF Same, IsDirectory
<1>8. QED
  BY <1>4, <1>5, <1>6, <1>7 DEF IsDirectory

LEMMA CaKeyWritten ==
  ASSUME NEW s, IsDirectory(s), NEW x, x.what = "ca_key",
         NEW n, n = Written(s, x)
  PROVE  /\ IsDirectory(n) /\ Same(s, n, {"caKey"})
         /\ n.caKey = s.cas
<1>1. n = AuthorityWritten(s, "ca_key")
  BY AuthorityIsWritten DEF AuthorityFiles
<1>2. n = [s EXCEPT !.caKey = s.cas]
  BY <1>1 DEF AuthorityWritten, Serial
<1>3. /\ s.cas \in Nat /\ s.serials \in Nat /\ s.caCrt \in Nat
      /\ s.archive \subseteq Nat /\ s.caKey \in Nat
      /\ s.serverCrt.key \in Nat /\ s.serverCrt.signer \in Nat
  BY DEF IsDirectory, Directories
<1>4. n \in Directories
  BY <1>2, <1>3 DEF IsDirectory, Directories
<1>5. Same(s, n, {"caKey"})
  BY <1>2 DEF Same, IsDirectory, Directories
<1>6. n.caKey = s.cas
  BY <1>2 DEF IsDirectory, Directories
<1>7. IsFiniteSet(n.registry)
  BY <1>5, <1>6, FS_EmptySet DEF Same, IsDirectory
<1>8. QED
  BY <1>4, <1>5, <1>6, <1>7 DEF IsDirectory

LEMMA BundleWritten ==
  ASSUME NEW s, IsDirectory(s), NEW x, x.what = "bundle",
         NEW n, n = Written(s, x)
  PROVE  /\ IsDirectory(n) /\ Same(s, n, {"bundle"})
         /\ n.bundle = {s.caCrt} \cup s.archive
<1>1. n = AuthorityWritten(s, "bundle")
  BY AuthorityIsWritten DEF AuthorityFiles
<1>2. n = [s EXCEPT !.bundle = {s.caCrt} \cup s.archive]
  BY <1>1 DEF AuthorityWritten, Serial
<1>3. /\ s.cas \in Nat /\ s.serials \in Nat /\ s.caCrt \in Nat
      /\ s.archive \subseteq Nat /\ s.caKey \in Nat
      /\ s.serverCrt.key \in Nat /\ s.serverCrt.signer \in Nat
  BY DEF IsDirectory, Directories
<1>4. n \in Directories
  BY <1>2, <1>3 DEF IsDirectory, Directories
<1>5. Same(s, n, {"bundle"})
  BY <1>2 DEF Same, IsDirectory, Directories
<1>6. n.bundle = {s.caCrt} \cup s.archive
  BY <1>2 DEF IsDirectory, Directories
<1>7. IsFiniteSet(n.registry)
  BY <1>5, <1>6, FS_EmptySet DEF Same, IsDirectory
<1>8. QED
  BY <1>4, <1>5, <1>6, <1>7 DEF IsDirectory

LEMMA ServerCertificateWritten ==
  ASSUME NEW s, IsDirectory(s), NEW x, x.what = "server_certificate",
         NEW n, n = Written(s, x)
  PROVE  /\ IsDirectory(n) /\ Same(s, n, {"serverCrt", "serials"})
         /\ n.serverCrt = [signer |-> s.caKey, key |-> s.serials + 1]
         /\ n.serials = s.serials + 1
<1>1. n = ServerWritten(s, "server_certificate")
  BY ServerIsWritten DEF ServerFiles
<1>2. n = [s EXCEPT !.serverCrt = [signer |-> s.caKey, key |-> s.serials + 1],
                    !.serials = s.serials + 1]
  BY <1>1 DEF ServerWritten, Serial
<1>3. /\ s.cas \in Nat /\ s.serials \in Nat /\ s.caCrt \in Nat
      /\ s.archive \subseteq Nat /\ s.caKey \in Nat
      /\ s.serverCrt.key \in Nat /\ s.serverCrt.signer \in Nat
  BY DEF IsDirectory, Directories
<1>4. n \in Directories
  <2>1. /\ [signer |-> s.caKey, key |-> s.serials + 1] \in [signer : Nat, key : Nat]
        /\ s.serials + 1 \in Nat
    BY <1>3
  <2>2. [s EXCEPT !.serverCrt = [signer |-> s.caKey, key |-> s.serials + 1]]
          \in Directories
    BY <2>1 DEF IsDirectory, Directories
  <2>3. n = [[s EXCEPT !.serverCrt = [signer |-> s.caKey, key |-> s.serials + 1]]
               EXCEPT !.serials = s.serials + 1]
    BY <1>2 DEF IsDirectory, Directories
  <2>4. QED
    BY <2>1, <2>2, <2>3 DEF Directories
<1>5. Same(s, n, {"serverCrt", "serials"})
  BY <1>2 DEF Same, IsDirectory, Directories
<1>6. /\ n.serverCrt = [signer |-> s.caKey, key |-> s.serials + 1]
      /\ n.serials = s.serials + 1
  BY <1>2 DEF IsDirectory, Directories
<1>7. IsFiniteSet(n.registry)
  BY <1>5, <1>6, FS_EmptySet DEF Same, IsDirectory
<1>8. QED
  BY <1>4, <1>5, <1>6, <1>7 DEF IsDirectory

LEMMA ServerKeyWritten ==
  ASSUME NEW s, IsDirectory(s), NEW x, x.what = "server_key",
         NEW n, n = Written(s, x)
  PROVE  /\ IsDirectory(n) /\ Same(s, n, {"serverKey"})
         /\ n.serverKey = s.serverCrt.key
<1>1. n = ServerWritten(s, "server_key")
  BY ServerIsWritten DEF ServerFiles
<1>2. n = [s EXCEPT !.serverKey = s.serverCrt.key]
  BY <1>1 DEF ServerWritten, Serial
<1>3. /\ s.cas \in Nat /\ s.serials \in Nat /\ s.caCrt \in Nat
      /\ s.archive \subseteq Nat /\ s.caKey \in Nat
      /\ s.serverCrt.key \in Nat /\ s.serverCrt.signer \in Nat
  BY DEF IsDirectory, Directories
<1>4. n \in Directories
  BY <1>2, <1>3 DEF IsDirectory, Directories
<1>5. Same(s, n, {"serverKey"})
  BY <1>2 DEF Same, IsDirectory, Directories
<1>6. n.serverKey = s.serverCrt.key
  BY <1>2 DEF IsDirectory, Directories
<1>7. IsFiniteSet(n.registry)
  BY <1>5, <1>6, FS_EmptySet DEF Same, IsDirectory
<1>8. QED
  BY <1>4, <1>5, <1>6, <1>7 DEF IsDirectory

LEMMA NoRevocationsWritten ==
  ASSUME NEW s, IsDirectory(s), NEW x, x.what = "no_revocations",
         NEW n, n = Written(s, x)
  PROVE  /\ IsDirectory(n) /\ Same(s, n, {"revoked"})
         /\ n.revoked = {}
<1>1. n = ServerWritten(s, "no_revocations")
  BY ServerIsWritten DEF ServerFiles
<1>2. n = [s EXCEPT !.revoked = {}]
  BY <1>1 DEF ServerWritten, Serial
<1>3. /\ s.cas \in Nat /\ s.serials \in Nat /\ s.caCrt \in Nat
      /\ s.archive \subseteq Nat /\ s.caKey \in Nat
      /\ s.serverCrt.key \in Nat /\ s.serverCrt.signer \in Nat
  BY DEF IsDirectory, Directories
<1>4. n \in Directories
  BY <1>2, <1>3 DEF IsDirectory, Directories
<1>5. Same(s, n, {"revoked"})
  BY <1>2 DEF Same, IsDirectory, Directories
<1>6. n.revoked = {}
  BY <1>2 DEF IsDirectory, Directories
<1>7. IsFiniteSet(n.registry)
  BY <1>5, <1>6, FS_EmptySet DEF Same, IsDirectory
<1>8. QED
  BY <1>4, <1>5, <1>6, <1>7 DEF IsDirectory

LEMMA NoRecordsWritten ==
  ASSUME NEW s, IsDirectory(s), NEW x, x.what = "no_records",
         NEW n, n = Written(s, x)
  PROVE  /\ IsDirectory(n) /\ Same(s, n, {"registry"})
         /\ n.registry = {}
<1>1. n = ServerWritten(s, "no_records")
  BY ServerIsWritten DEF ServerFiles
<1>2. n = [s EXCEPT !.registry = {}]
  BY <1>1 DEF ServerWritten, Serial
<1>3. /\ s.cas \in Nat /\ s.serials \in Nat /\ s.caCrt \in Nat
      /\ s.archive \subseteq Nat /\ s.caKey \in Nat
      /\ s.serverCrt.key \in Nat /\ s.serverCrt.signer \in Nat
  BY DEF IsDirectory, Directories
<1>4. n \in Directories
  BY <1>2, <1>3 DEF IsDirectory, Directories
<1>5. Same(s, n, {"registry"})
  BY <1>2 DEF Same, IsDirectory, Directories
<1>6. n.registry = {}
  BY <1>2 DEF IsDirectory, Directories
<1>7. IsFiniteSet(n.registry)
  BY <1>5, <1>6, FS_EmptySet DEF Same, IsDirectory
<1>8. QED
  BY <1>4, <1>5, <1>6, <1>7 DEF IsDirectory

PutProfile(s, n, d, q) == n = [s EXCEPT !.profile[d] = q]

LEMMA ProfileChanges ==
  ASSUME NEW s, IsDirectory(s), NEW d \in Profiles, NEW q \in Certificates,
         NEW n, PutProfile(s, n, d, q)
  PROVE  /\ IsDirectory(n) /\ Same(s, n, {"profile"})
         /\ n.profile[d] = q
         /\ \A e \in Profiles \ {d} : n.profile[e] = s.profile[e]
<1>1. s.profile \in [Profiles -> Certificates] /\ s \in Directories
  BY DEF IsDirectory, Directories
<1> DEFINE f == [s.profile EXCEPT ![d] = q]
<1>2. f \in [Profiles -> Certificates]
  BY <1>1
<1>3. n = [s EXCEPT !.profile = f]
  BY <1>1 DEF Directories, PutProfile
<1>4. f[d] = q /\ \A e \in Profiles \ {d} : f[e] = s.profile[e]
  BY <1>1
<1> HIDE DEF f
<1>5. n \in Directories /\ n.profile = f
  BY <1>1, <1>2, <1>3 DEF Directories
<1>6. Same(s, n, {"profile"})
  BY <1>1, <1>3 DEF Same, Directories
<1>7. QED
  BY <1>4, <1>5, <1>6 DEF IsDirectory, Same

LEMMA TrustedIsNat ==
  ASSUME NEW s, IsDirectory(s)
  PROVE  Trusted(s) \subseteq Nat
BY DEF IsDirectory, Directories, Trusted

LEMMA ClientCertificateWritten ==
  ASSUME NEW s, IsDirectory(s), NEW d \in Profiles,
         NEW x, x.what = "client_certificate", x.profile = d, x.identity \in Identities,
         NEW n, n = Written(s, x)
  PROVE  /\ IsDirectory(n) /\ Same(s, n, {"profile", "serials"})
         /\ n.profile[d].crt = s.serials + 1
         /\ n.profile[d].signer = s.caKey
         /\ n.profile[d].key = s.profile[d].key
         /\ n.profile[d].ca = s.profile[d].ca
         /\ \A e \in Profiles \ {d} : n.profile[e] = s.profile[e]
<1> DEFINE q == ProfileWritten(s, s.profile[d], x)
<1>1. q = [s.profile[d] EXCEPT !.crt = s.serials + 1, !.signer = s.caKey,
                               !.identity = x.identity]
  BY DEF ProfileWritten, Serial
<1>2. /\ s.profile[d] \in Certificates
      /\ s.serials + 1 \in Nat
      /\ s.caKey \in Nat
      /\ x.identity \in Identities
  BY TrustedIsNat DEF IsDirectory, Directories, Certificates
<1>3. /\ q.crt = s.serials + 1
      /\ q.signer = s.caKey
      /\ q.key = s.profile[d].key
      /\ q.ca = s.profile[d].ca
  BY <1>1, <1>2 DEF Certificates
<1>4. q \in Certificates
  BY <1>1, <1>2 DEF Certificates
<1>5. n = ClientWritten(s, x)
  BY ClientIsWritten DEF OfClient
<1> HIDE DEF q
<1>6. n = [s EXCEPT !.profile[d] = q, !.serials = s.serials + 1]
  BY <1>5 DEF ClientWritten, Serial, q
<1> DEFINE m == [s EXCEPT !.profile[d] = q]
<1> HIDE DEF m
<1>7. /\ IsDirectory(m) /\ Same(s, m, {"profile"}) /\ m.profile[d] = q
      /\ \A e \in Profiles \ {d} : m.profile[e] = s.profile[e]
  <2>1. PutProfile(s, m, d, q)
    BY DEF PutProfile, m
  <2>2. QED
    BY <1>4, <2>1, ProfileChanges
<1>8. n = [m EXCEPT !.serials = s.serials + 1]
  BY <1>6 DEF m, IsDirectory, Directories
<1>9. s.serials + 1 \in Nat
  BY DEF IsDirectory, Directories
<1>10. /\ n \in Directories /\ n.serials = s.serials + 1
       /\ Same(m, n, {"serials"})
  BY <1>7, <1>8, <1>9 DEF IsDirectory, Directories, Same
<1>11. IsDirectory(n) /\ Same(s, n, {"profile", "serials"}) /\ n.profile = m.profile
  BY <1>7, <1>10 DEF Same, IsDirectory
<1>12. QED
  BY <1>3, <1>7, <1>11

LEMMA ClientKeyWritten ==
  ASSUME NEW s, IsDirectory(s), NEW d \in Profiles,
         NEW x, x.what = "client_key", x.profile = d, NEW n, n = Written(s, x)
  PROVE  /\ IsDirectory(n) /\ Same(s, n, {"profile"})
         /\ n.profile[d].crt = s.profile[d].crt
         /\ n.profile[d].signer = s.profile[d].signer
         /\ n.profile[d].key = s.profile[d].crt
         /\ n.profile[d].ca = s.profile[d].ca
         /\ \A e \in Profiles \ {d} : n.profile[e] = s.profile[e]
<1> DEFINE q == ProfileWritten(s, s.profile[d], x)
<1>1. q = [s.profile[d] EXCEPT !.key = s.profile[d].crt]
  BY DEF ProfileWritten, Serial
<1>2. /\ s.profile[d] \in Certificates /\ s.profile[d].crt \in Nat
  BY TrustedIsNat DEF IsDirectory, Directories, Certificates
<1>3. /\ q.crt = s.profile[d].crt
      /\ q.signer = s.profile[d].signer
      /\ q.key = s.profile[d].crt
      /\ q.ca = s.profile[d].ca
  BY <1>1, <1>2 DEF Certificates
<1>4. q \in Certificates
  BY <1>1, <1>2 DEF Certificates
<1>5. n = ClientWritten(s, x)
  BY ClientIsWritten DEF OfClient
<1> HIDE DEF q
<1>6. PutProfile(s, n, d, q)
  BY <1>5 DEF ClientWritten, PutProfile, q
<1>7. QED
  BY <1>3, <1>4, <1>6, ProfileChanges

LEMMA ClientCaWritten ==
  ASSUME NEW s, IsDirectory(s), NEW d \in Profiles,
         NEW x, x.what = "client_ca", x.profile = d, NEW n, n = Written(s, x)
  PROVE  /\ IsDirectory(n) /\ Same(s, n, {"profile"})
         /\ n.profile[d].crt = s.profile[d].crt
         /\ n.profile[d].signer = s.profile[d].signer
         /\ n.profile[d].key = s.profile[d].key
         /\ n.profile[d].ca = Trusted(s)
         /\ \A e \in Profiles \ {d} : n.profile[e] = s.profile[e]
<1> DEFINE q == ProfileWritten(s, s.profile[d], x)
<1>1. q = [s.profile[d] EXCEPT !.ca = Trusted(s)]
  BY DEF ProfileWritten, Serial
<1>2. /\ s.profile[d] \in Certificates /\ Trusted(s) \in SUBSET Nat
  BY TrustedIsNat DEF IsDirectory, Directories, Certificates
<1>3. /\ q.crt = s.profile[d].crt
      /\ q.signer = s.profile[d].signer
      /\ q.key = s.profile[d].key
      /\ q.ca = Trusted(s)
  BY <1>1, <1>2 DEF Certificates
<1>4. q \in Certificates
  BY <1>1, <1>2 DEF Certificates
<1>5. n = ClientWritten(s, x)
  BY ClientIsWritten DEF OfClient
<1> HIDE DEF q
<1>6. PutProfile(s, n, d, q)
  BY <1>5 DEF ClientWritten, PutProfile, q
<1>7. QED
  BY <1>3, <1>4, <1>6, ProfileChanges

LEMMA RefreshWritten ==
  ASSUME NEW s, IsDirectory(s), NEW d \in Profiles,
         NEW x, x.what = "refresh", x.profile = d, NEW n, n = Written(s, x)
  PROVE  /\ IsDirectory(n) /\ Same(s, n, {"profile"})
         /\ n.profile[d].crt = s.profile[d].crt
         /\ n.profile[d].signer = s.profile[d].signer
         /\ n.profile[d].key = s.profile[d].key
         /\ n.profile[d].ca = s.bundle
         /\ \A e \in Profiles \ {d} : n.profile[e] = s.profile[e]
<1> DEFINE q == ProfileWritten(s, s.profile[d], x)
<1>1. q = [s.profile[d] EXCEPT !.ca = s.bundle]
  BY DEF ProfileWritten, Serial
<1>2. /\ s.profile[d] \in Certificates /\ s.bundle \in SUBSET Nat
  BY TrustedIsNat DEF IsDirectory, Directories, Certificates
<1>3. /\ q.crt = s.profile[d].crt
      /\ q.signer = s.profile[d].signer
      /\ q.key = s.profile[d].key
      /\ q.ca = s.bundle
  BY <1>1, <1>2 DEF Certificates
<1>4. q \in Certificates
  BY <1>1, <1>2 DEF Certificates
<1>5. n = ClientWritten(s, x)
  BY ClientIsWritten DEF OfClient
<1> HIDE DEF q
<1>6. PutProfile(s, n, d, q)
  BY <1>5 DEF ClientWritten, PutProfile, q
<1>7. QED
  BY <1>3, <1>4, <1>6, ProfileChanges

LEMMA RecordIsWritten ==
  ASSUME NEW s, IsDirectory(s), NEW x \in Steps, x.what = "record",
         NEW n, n = Written(s, x)
  PROVE  /\ IsDirectory(n) /\ Same(s, n, {"registry"})
         /\ Issued(n) = Issued(s) \cup {x.profile}
<1> DEFINE r == [serial |-> s.profile[x.profile].crt, identity |-> x.identity,
                 device |-> x.device, profile |-> x.profile]
<1>1. n = ClientWritten(s, x)
  BY ClientIsWritten DEF OfClient
<1>2. n = [s EXCEPT !.registry = s.registry \cup {r}]
  BY <1>1 DEF ClientWritten
<1>3. /\ x.identity \in Identities /\ x.device \in Devices
      /\ x.profile \in Profiles
  BY StepKinds DEF OfClient
<1>4. s.profile[x.profile].crt \in Nat
  BY <1>3 DEF IsDirectory, Directories, Certificates
<1>5. r \in Records /\ r.profile = x.profile
  BY <1>3, <1>4 DEF Records
<1> HIDE DEF r
<1>6. s.registry \cup {r} \subseteq Records /\ IsFiniteSet(s.registry \cup {r})
  BY <1>5, FS_AddElement DEF IsDirectory, Directories
<1>7. /\ n \in Directories /\ n.registry = s.registry \cup {r}
      /\ Same(s, n, {"registry"})
  BY <1>2, <1>6 DEF IsDirectory, Directories, Same
<1>8. Issued(n) = Issued(s) \cup {x.profile}
  BY <1>5, <1>7 DEF Issued
<1>9. QED
  BY <1>6, <1>7, <1>8 DEF IsDirectory

LEMMA RevokeIsWritten ==
  ASSUME NEW s, IsDirectory(s), NEW x \in Steps, x.what = "revoke",
         NEW n, n = Written(s, x)
  PROVE  IsDirectory(n) /\ Same(s, n, {"revoked"})
<1>1. n = ClientWritten(s, x)
  BY ClientIsWritten
<1>2. n = [s EXCEPT !.revoked = s.revoked \cup {x.serial}]
  BY <1>1 DEF ClientWritten
<1>3. s.revoked \cup {x.serial} \subseteq Nat
  BY StepKinds DEF IsDirectory, Directories
<1>4. n \in Directories /\ Same(s, n, {"revoked"})
  BY <1>2, <1>3 DEF IsDirectory, Directories, Same
<1>5. QED
  BY <1>4 DEF IsDirectory, Same

---------------------------------------------------------------------------
(* One write keeps the invariants.                                        *)
Wrote(s, n, c, k) ==
  /\ c.todo # <<>>
  /\ n = Written(s, Head(c.todo))
  /\ k = [c EXCEPT !.todo = Tail(@)]

LEMMA NextFacts ==
  ASSUME NEW c, ShapeInv(c), NEW k, NEW s, NEW n, Wrote(s, n, c, k)
  PROVE  /\ Head(c.todo) \in Steps /\ ShapeInv(k)
         /\ k.op = c.op /\ k.ok = c.ok /\ k.issues = c.issues
         /\ \A w : Has(c.todo, w) <=> Head(c.todo).what = w \/ Has(k.todo, w)
         /\ \A w : Has(k.todo, w) =>
              \/ Rank(Head(c.todo).what) < Rank(w)
              \/ w = Head(c.todo).what /\ w \in {"revoke", "refresh"}
         /\ \A d : HasRefresh(c.todo, d) <=>
              \/ Head(c.todo).what = "refresh" /\ Head(c.todo).profile = d
              \/ HasRefresh(k.todo, d)
         /\ Head(c.todo).what \in OfClient => Head(c.todo).profile \in c.issues
         /\ c.op \in {"rotate", "init"} => c.issues = {}
<1>1. /\ c.todo \in Seq(Steps) /\ c.todo # <<>> /\ Ordered(c.todo)
      /\ c \in [op : Ops, todo : Seq(Steps), ok : BOOLEAN, by : Pids,
                issues : SUBSET Profiles]
  BY DEF ShapeInv, Wrote
<1>2. /\ k.op = c.op /\ k.ok = c.ok /\ k.issues = c.issues
      /\ k.todo = Tail(c.todo)
  BY <1>1 DEF Wrote
<1>3. ShapeInv(k)
  BY NextShape DEF Wrote
<1>4. Head(c.todo) = c.todo[1] /\ 1 \in DOMAIN c.todo
  BY <1>1
<1>5. Head(c.todo).what \in OfClient => Head(c.todo).profile \in c.issues
  BY <1>4 DEF ShapeInv
<1>6. c.op \in {"rotate", "init"} => c.issues = {}
  BY DEF ShapeInv
<1>7. QED
  BY <1>1, <1>2, <1>3, <1>5, <1>6, NextTodo, NextOrdered

(* What a head of the writes says of the command and the rest.             *)
LEMMA HeadSays ==
  ASSUME NEW c, ShapeInv(c), NEW k, NEW s, NEW n, Wrote(s, n, c, k)
  PROVE  /\ Head(c.todo).what = "archive" =>
              c.op = "rotate" /\ Has(k.todo, "bundle")
         /\ Head(c.todo).what = "ca_certificate" =>
              /\ c.op \in {"rotate", "init"}
              /\ ~Has(k.todo, "archive") /\ ~Has(k.todo, "ca_certificate")
              /\ Has(k.todo, "bundle")
         /\ Head(c.todo).what = "ca_key" =>
              /\ c.op \in {"rotate", "init"}
              /\ ~Has(k.todo, "archive") /\ ~Has(k.todo, "ca_certificate")
              /\ ~Has(k.todo, "ca_key")
              /\ c.op = "init" => Has(k.todo, "server_key")
         /\ Head(c.todo).what = "bundle" =>
              /\ c.op \in {"rotate", "init"}
              /\ ~Has(k.todo, "archive") /\ ~Has(k.todo, "ca_certificate")
              /\ ~Has(k.todo, "ca_key") /\ ~Has(k.todo, "bundle")
         /\ Head(c.todo).what = "server_certificate" =>
              /\ ~Has(k.todo, "ca_certificate") /\ ~Has(k.todo, "ca_key")
              /\ Has(k.todo, "server_key") /\ ~Has(k.todo, "server_certificate")
         /\ Head(c.todo).what = "server_key" =>
              ~Has(k.todo, "server_key") /\ ~Has(k.todo, "server_certificate")
         /\ Head(c.todo).what = "no_records" => c.op = "init"
         /\ Head(c.todo).what \in OfClient =>
              /\ c.op \notin {"rotate", "init"}
              /\ Head(c.todo).profile \in c.issues
              /\ \A d \in c.issues : d = Head(c.todo).profile
         /\ Head(c.todo).what = "client_certificate" => Has(k.todo, "client_key")
         /\ Head(c.todo).what = "client_key" => ~Has(k.todo, "client_certificate")
         /\ Head(c.todo).what = "refresh" =>
              /\ c.op = "rotate"
              /\ ~Has(k.todo, "archive") /\ ~Has(k.todo, "ca_certificate")
              /\ ~Has(k.todo, "bundle")
<1> DEFINE h == Head(c.todo).what
<1>1. \A w : Has(c.todo, w) <=> h = w \/ Has(k.todo, w)
  BY NextFacts
<1>2. \A w : Has(k.todo, w) => \/ Rank(h) < Rank(w)
                               \/ w = h /\ w \in {"revoke", "refresh"}
  BY NextFacts
<1>3. h \in OfClient =>
        Head(c.todo).profile \in c.issues /\ \A d \in c.issues : d = Head(c.todo).profile
  BY NextFacts DEF ShapeInv
<1>4. c.op \in {"rotate", "init"} => c.issues = {}
  BY NextFacts
<1>5. /\ Has(c.todo, "client_certificate") => Has(c.todo, "client_key")
      /\ Has(c.todo, "server_certificate") => Has(c.todo, "server_key")
      /\ c.op = "init" /\ Has(c.todo, "ca_key") => Has(c.todo, "server_key")
      /\ Has(c.todo, "archive") \/ Has(c.todo, "ca_certificate") =>
           Has(c.todo, "bundle")
      /\ c.op # "rotate" => ~Has(c.todo, "archive") /\ ~Has(c.todo, "refresh")
      /\ c.op \notin {"rotate", "init"} =>
           /\ ~Has(c.todo, "ca_certificate") /\ ~Has(c.todo, "ca_key")
           /\ ~Has(c.todo, "bundle") /\ ~Has(c.todo, "no_records")
      /\ c.op = "rotate" => ~Has(c.todo, "no_records")
  BY DEF ShapeInv
<1>6. Has(c.todo, "refresh") => c.op = "rotate"
  BY <1>5
<1> HIDE DEF h
<1>10. h = "archive" =>
          c.op = "rotate" /\ Has(k.todo, "bundle")
  BY <1>1, <1>2, <1>3, <1>4, <1>5, RankIs DEF OfClient
<1>11. h = "ca_certificate" =>
          /\ c.op \in {"rotate", "init"}
          /\ ~Has(k.todo, "archive") /\ ~Has(k.todo, "ca_certificate")
          /\ Has(k.todo, "bundle")
  BY <1>1, <1>2, <1>3, <1>4, <1>5, RankIs DEF OfClient
<1>12. h = "ca_key" =>
          /\ c.op \in {"rotate", "init"}
          /\ ~Has(k.todo, "archive") /\ ~Has(k.todo, "ca_certificate")
          /\ ~Has(k.todo, "ca_key")
          /\ c.op = "init" => Has(k.todo, "server_key")
  BY <1>1, <1>2, <1>3, <1>4, <1>5, RankIs DEF OfClient
<1>13. h = "bundle" =>
          /\ c.op \in {"rotate", "init"}
          /\ ~Has(k.todo, "archive") /\ ~Has(k.todo, "ca_certificate")
          /\ ~Has(k.todo, "ca_key") /\ ~Has(k.todo, "bundle")
  BY <1>1, <1>2, <1>3, <1>4, <1>5, RankIs DEF OfClient
<1>14. h = "server_certificate" =>
          /\ ~Has(k.todo, "ca_certificate") /\ ~Has(k.todo, "ca_key")
          /\ Has(k.todo, "server_key") /\ ~Has(k.todo, "server_certificate")
  BY <1>1, <1>2, <1>3, <1>4, <1>5, RankIs DEF OfClient
<1>15. h = "server_key" =>
          ~Has(k.todo, "server_key") /\ ~Has(k.todo, "server_certificate")
  BY <1>1, <1>2, <1>3, <1>4, <1>5, RankIs DEF OfClient
<1>16. h = "no_records" => c.op = "init"
  BY <1>1, <1>2, <1>3, <1>4, <1>5, RankIs DEF OfClient
<1>17. h \in OfClient =>
          /\ c.op \notin {"rotate", "init"}
          /\ Head(c.todo).profile \in c.issues
          /\ \A d \in c.issues : d = Head(c.todo).profile
  BY <1>1, <1>2, <1>3, <1>4, <1>5, RankIs DEF OfClient
<1>18. h = "client_certificate" => Has(k.todo, "client_key")
  BY <1>1, <1>2, <1>3, <1>4, <1>5, RankIs DEF OfClient
<1>19. h = "client_key" => ~Has(k.todo, "client_certificate")
  BY <1>1, <1>2, <1>3, <1>4, <1>5, RankIs DEF OfClient
<1>20. h = "refresh" =>
          /\ c.op = "rotate"
          /\ ~Has(k.todo, "archive") /\ ~Has(k.todo, "ca_certificate")
          /\ ~Has(k.todo, "bundle")
  BY <1>1, <1>2, <1>3, <1>4, <1>5, RankIs DEF OfClient
<1>21. QED
  BY <1>10, <1>11, <1>12, <1>13, <1>14, <1>15, <1>16, <1>17, <1>18, <1>19,
     <1>20
     DEF h

Working(s, c, done, late, t) ==
  AtRest(s, c, done, late, t) /\ AtWork(s, c, done)

LEMMA ArchiveKeeps ==
  ASSUME NEW s, NEW c, NEW done, NEW late, NEW t, Working(s, c, done, late, t),
         NEW n, NEW k, Wrote(s, n, c, k), Head(c.todo).what = "archive"
  PROVE  Working(n, k, done, late, t)
<1> DEFINE x == Head(c.todo)
<1>1. /\ ShapeInv(c) /\ DirectoryInv(s) /\ IsDirectory(s) /\ n = Written(s, x)
      /\ TlsInv(s, t) /\ done \subseteq Profiles /\ BundleInv(s, c, late)
      /\ ServerInv(s, c, late) /\ ReadyInv(s, c, done, late)
      /\ AuthorityInv(s, c) /\ IssueInv(s, c, done)
  BY DEF Working, AtRest, AtWork, DirectoryInv, Wrote
<1>2. /\ x \in Steps /\ ShapeInv(k)
      /\ k.op = c.op /\ k.ok = c.ok /\ k.issues = c.issues
      /\ \A d : HasRefresh(k.todo, d) <=> HasRefresh(c.todo, d)
  BY <1>1, NextFacts
<1>3. /\ (Has(k.todo, "ca_certificate") <=> Has(c.todo, "ca_certificate"))
      /\ (Has(k.todo, "ca_key") <=> Has(c.todo, "ca_key"))
      /\ (Has(k.todo, "bundle") <=> Has(c.todo, "bundle"))
      /\ (Has(k.todo, "server_certificate") <=> Has(c.todo, "server_certificate"))
      /\ (Has(k.todo, "server_key") <=> Has(c.todo, "server_key"))
      /\ (Has(k.todo, "client_certificate") <=> Has(c.todo, "client_certificate"))
      /\ (Has(k.todo, "client_key") <=> Has(c.todo, "client_key"))
      /\ (Has(k.todo, "client_ca") <=> Has(c.todo, "client_ca"))
      /\ (Has(k.todo, "record") <=> Has(c.todo, "record"))
      /\ Has(c.todo, "archive")
  <2>1. \A w : Has(c.todo, w) <=> x.what = w \/ Has(k.todo, w)
    BY <1>1, NextFacts
  <2>2. x.what = "archive"
    OBVIOUS
  <2> HIDE DEF x
  <2>3. QED
    BY <2>1, <2>2
<1>4. /\ c.op = "rotate" /\ Has(k.todo, "bundle")
      /\ c.issues = {}
  BY <1>1, HeadSays, NextFacts
<1>5. /\ IsDirectory(n)
      /\ n.archive = s.archive \cup {s.caCrt}
      /\ n.caCrt = s.caCrt
      /\ n.caKey = s.caKey
      /\ n.bundle = s.bundle
      /\ n.serverCrt = s.serverCrt
      /\ n.serverKey = s.serverKey
      /\ n.revoked = s.revoked /\ n.registry = s.registry /\ n.profile = s.profile
      /\ n.cas = s.cas /\ n.serials = s.serials
  <2>1. /\ IsDirectory(n) /\ Same(s, n, {"archive"})
         /\ n.archive = s.archive \cup {s.caCrt}
    BY <1>1, <1>2, ArchiveWritten
  <2>2. QED
    BY <2>1 DEF Same
<1>6. /\ s.caCrt \in Nat /\ s.caKey \in Nat /\ s.cas \in Nat
      /\ s.serials \in Nat /\ s.archive \subseteq Nat
      /\ s.bundle \subseteq Nat /\ s.serverCrt.key \in Nat /\ None = 0
  BY <1>1 DEF IsDirectory, Directories, None
<1> HIDE DEF x
<1>7. /\ s.caKey # None /\ s.caCrt # None
  BY <1>1, <1>4 DEF AuthorityInv, HasAuthority
<1>8. /\ Trusted(n) = Trusted(s)
      /\ Issued(n) = Issued(s)
      /\ (HasAuthority(n) <=> HasAuthority(s))
  BY <1>5 DEF Trusted, Issued, HasAuthority
<1>9. DirectoryInv(n)
  BY <1>1, <1>5, <1>7 DEF DirectoryInv, Authorities, HasAuthority
<1>10. Authorities(s) \subseteq Authorities(n)
  BY <1>5 DEF Authorities
<1>11. TlsInv(n, t)
  BY <1>1, <1>10 DEF TlsInv
<1>12. AuthorityInv(n, k)
  BY <1>2, <1>4, <1>5, <1>7 DEF AuthorityInv, HasAuthority
<1>13. BundleInv(n, k, late)
  BY <1>2, <1>4 DEF BundleInv
<1>14. ServerInv(n, k, late)
  BY <1>1, <1>2, <1>3, <1>5 DEF ServerInv, ServerPair, ForServer, HasAuthority
<1>15. ReadyInv(n, k, done, late)
  BY <1>1, <1>2, <1>3, <1>4, <1>5 DEF ReadyInv, Issued
<1>16. IssueInv(n, k, done)
  BY <1>2, <1>4 DEF IssueInv
<1>17. QED
  BY <1>1, <1>2, <1>9, <1>11, <1>12, <1>13, <1>14, <1>15, <1>16
     DEF Working, AtRest, AtWork

LEMMA CaCertificateKeeps ==
  ASSUME NEW s, NEW c, NEW done, NEW late, NEW t, Working(s, c, done, late, t),
         NEW n, NEW k, Wrote(s, n, c, k), Head(c.todo).what = "ca_certificate"
  PROVE  Working(n, k, done, late, t)
<1> DEFINE x == Head(c.todo)
<1>1. /\ ShapeInv(c) /\ DirectoryInv(s) /\ IsDirectory(s) /\ n = Written(s, x)
      /\ TlsInv(s, t) /\ done \subseteq Profiles /\ BundleInv(s, c, late)
      /\ ServerInv(s, c, late) /\ ReadyInv(s, c, done, late)
      /\ AuthorityInv(s, c) /\ IssueInv(s, c, done)
  BY DEF Working, AtRest, AtWork, DirectoryInv, Wrote
<1>2. /\ x \in Steps /\ ShapeInv(k)
      /\ k.op = c.op /\ k.ok = c.ok /\ k.issues = c.issues
      /\ \A d : HasRefresh(k.todo, d) <=> HasRefresh(c.todo, d)
  BY <1>1, NextFacts
<1>3. /\ (Has(k.todo, "archive") <=> Has(c.todo, "archive"))
      /\ (Has(k.todo, "ca_key") <=> Has(c.todo, "ca_key"))
      /\ (Has(k.todo, "bundle") <=> Has(c.todo, "bundle"))
      /\ (Has(k.todo, "server_certificate") <=> Has(c.todo, "server_certificate"))
      /\ (Has(k.todo, "server_key") <=> Has(c.todo, "server_key"))
      /\ (Has(k.todo, "client_certificate") <=> Has(c.todo, "client_certificate"))
      /\ (Has(k.todo, "client_key") <=> Has(c.todo, "client_key"))
      /\ (Has(k.todo, "client_ca") <=> Has(c.todo, "client_ca"))
      /\ (Has(k.todo, "record") <=> Has(c.todo, "record"))
      /\ Has(c.todo, "ca_certificate")
  <2>1. \A w : Has(c.todo, w) <=> x.what = w \/ Has(k.todo, w)
    BY <1>1, NextFacts
  <2>2. x.what = "ca_certificate"
    OBVIOUS
  <2> HIDE DEF x
  <2>3. QED
    BY <2>1, <2>2
<1>4. /\ c.op \in {"rotate", "init"} /\ ~Has(k.todo, "archive")
      /\ ~Has(k.todo, "ca_certificate") /\ Has(k.todo, "bundle")
      /\ c.issues = {}
  BY <1>1, HeadSays, NextFacts
<1>5. /\ IsDirectory(n)
      /\ n.caCrt = s.cas + 1 /\ n.cas = s.cas + 1 /\ n.caKey = s.caKey
      /\ n.archive = s.archive /\ n.bundle = s.bundle /\ n.serverCrt = s.serverCrt
      /\ n.serverKey = s.serverKey
      /\ n.revoked = s.revoked
      /\ n.registry = s.registry
      /\ n.profile = s.profile /\ n.serials = s.serials
  <2>1. /\ IsDirectory(n) /\ Same(s, n, {"caCrt", "cas"})
         /\ n.caCrt = s.cas + 1
         /\ n.cas = s.cas + 1
    BY <1>1, <1>2, CaCertificateWritten
  <2>2. QED
    BY <2>1 DEF Same
<1>6. /\ s.caCrt \in Nat /\ s.caKey \in Nat /\ s.cas \in Nat
      /\ s.serials \in Nat /\ s.archive \subseteq Nat
      /\ s.bundle \subseteq Nat /\ s.serverCrt.key \in Nat /\ None = 0
  BY <1>1 DEF IsDirectory, Directories, None
<1> HIDE DEF x
<1>7. /\ (s.caCrt = None \/ s.caCrt \in s.archive)
      /\ (c.op = "init" => s.caCrt = None)
      /\ (c.op = "init" => s.registry = {})
      /\ (c.op = "rotate" => s.caKey # None)
  BY <1>1, <1>3, <1>4 DEF AuthorityInv, HasAuthority
<1>8. /\ Issued(n) = Issued(s)
  BY <1>5 DEF Trusted, Issued, HasAuthority
<1>9. DirectoryInv(n)
  BY <1>1, <1>5, <1>6, <1>7 DEF DirectoryInv, Authorities, HasAuthority
<1>10. Authorities(s) \subseteq Authorities(n)
  BY <1>5, <1>7 DEF Authorities
<1>11. TlsInv(n, t)
  BY <1>1, <1>10 DEF TlsInv
<1>12. AuthorityInv(n, k)
  BY <1>1, <1>2, <1>3, <1>4, <1>5, <1>6 DEF AuthorityInv, HasAuthority
<1>13. BundleInv(n, k, late)
  BY <1>1, <1>2, <1>4, <1>5, <1>7 DEF BundleInv, DirectoryInv, Current, Trusted
<1>14. ServerInv(n, k, late)
  BY <1>1, <1>2, <1>3, <1>4, <1>5
     DEF ServerInv, ServerPair, ForServer, AuthorityInv
<1>15. ReadyInv(n, k, done, late)
  BY <1>1, <1>2, <1>3, <1>4, <1>5, <1>7 DEF ReadyInv, Issued
<1>16. IssueInv(n, k, done)
  BY <1>2, <1>4 DEF IssueInv
<1>17. QED
  BY <1>1, <1>2, <1>9, <1>11, <1>12, <1>13, <1>14, <1>15, <1>16
     DEF Working, AtRest, AtWork

LEMMA CaKeyKeeps ==
  ASSUME NEW s, NEW c, NEW done, NEW late, NEW t, Working(s, c, done, late, t),
         NEW n, NEW k, Wrote(s, n, c, k), Head(c.todo).what = "ca_key"
  PROVE  Working(n, k, done, late, t)
<1> DEFINE x == Head(c.todo)
<1>1. /\ ShapeInv(c) /\ DirectoryInv(s) /\ IsDirectory(s) /\ n = Written(s, x)
      /\ TlsInv(s, t) /\ done \subseteq Profiles /\ BundleInv(s, c, late)
      /\ ServerInv(s, c, late) /\ ReadyInv(s, c, done, late)
      /\ AuthorityInv(s, c) /\ IssueInv(s, c, done)
  BY DEF Working, AtRest, AtWork, DirectoryInv, Wrote
<1>2. /\ x \in Steps /\ ShapeInv(k)
      /\ k.op = c.op /\ k.ok = c.ok /\ k.issues = c.issues
      /\ \A d : HasRefresh(k.todo, d) <=> HasRefresh(c.todo, d)
  BY <1>1, NextFacts
<1>3. /\ (Has(k.todo, "archive") <=> Has(c.todo, "archive"))
      /\ (Has(k.todo, "ca_certificate") <=> Has(c.todo, "ca_certificate"))
      /\ (Has(k.todo, "bundle") <=> Has(c.todo, "bundle"))
      /\ (Has(k.todo, "server_certificate") <=> Has(c.todo, "server_certificate"))
      /\ (Has(k.todo, "server_key") <=> Has(c.todo, "server_key"))
      /\ (Has(k.todo, "client_certificate") <=> Has(c.todo, "client_certificate"))
      /\ (Has(k.todo, "client_key") <=> Has(c.todo, "client_key"))
      /\ (Has(k.todo, "client_ca") <=> Has(c.todo, "client_ca"))
      /\ (Has(k.todo, "record") <=> Has(c.todo, "record"))
      /\ Has(c.todo, "ca_key")
  <2>1. \A w : Has(c.todo, w) <=> x.what = w \/ Has(k.todo, w)
    BY <1>1, NextFacts
  <2>2. x.what = "ca_key"
    OBVIOUS
  <2> HIDE DEF x
  <2>3. QED
    BY <2>1, <2>2
<1>4. /\ c.op \in {"rotate", "init"} /\ ~Has(k.todo, "archive")
      /\ ~Has(k.todo, "ca_certificate") /\ ~Has(k.todo, "ca_key")
      /\ (c.op = "init" => Has(k.todo, "server_key")) /\ c.issues = {}
  BY <1>1, HeadSays, NextFacts
<1>5. /\ IsDirectory(n)
      /\ n.caKey = s.cas /\ n.caCrt = s.caCrt /\ n.archive = s.archive
      /\ n.bundle = s.bundle
      /\ n.serverCrt = s.serverCrt
      /\ n.serverKey = s.serverKey
      /\ n.revoked = s.revoked /\ n.registry = s.registry /\ n.profile = s.profile
      /\ n.cas = s.cas /\ n.serials = s.serials
  <2>1. /\ IsDirectory(n) /\ Same(s, n, {"caKey"})
         /\ n.caKey = s.cas
    BY <1>1, <1>2, CaKeyWritten
  <2>2. QED
    BY <2>1 DEF Same
<1>6. /\ s.caCrt \in Nat /\ s.caKey \in Nat /\ s.cas \in Nat
      /\ s.serials \in Nat /\ s.archive \subseteq Nat
      /\ s.bundle \subseteq Nat /\ s.serverCrt.key \in Nat /\ None = 0
  BY <1>1 DEF IsDirectory, Directories, None
<1> HIDE DEF x
<1>7. /\ s.caCrt # None
  BY <1>1, <1>3, <1>4 DEF AuthorityInv
<1>8. /\ Trusted(n) = Trusted(s)
      /\ Issued(n) = Issued(s)
  BY <1>5 DEF Trusted, Issued, HasAuthority
<1>9. DirectoryInv(n)
  BY <1>1, <1>5 DEF DirectoryInv, Authorities, HasAuthority
<1>10. Authorities(s) \subseteq Authorities(n)
  BY <1>5 DEF Authorities
<1>11. TlsInv(n, t)
  BY <1>1, <1>10 DEF TlsInv
<1>12. AuthorityInv(n, k)
  BY <1>1, <1>2, <1>4, <1>5, <1>7 DEF AuthorityInv, DirectoryInv, HasAuthority
<1>13. BundleInv(n, k, late)
  BY <1>1, <1>2, <1>3, <1>5 DEF BundleInv, Current, Bundled, Trusted
<1>14. ServerInv(n, k, late)
  BY <1>1, <1>2, <1>3, <1>4, <1>5
     DEF ServerInv, ServerPair, ForServer, AuthorityInv
<1>15. ReadyInv(n, k, done, late)
  BY <1>1, <1>2, <1>3, <1>4, <1>5, <1>6, <1>7 DEF ReadyInv, Issued, Trusted
<1>16. IssueInv(n, k, done)
  BY <1>2, <1>4 DEF IssueInv
<1>17. QED
  BY <1>1, <1>2, <1>9, <1>11, <1>12, <1>13, <1>14, <1>15, <1>16
     DEF Working, AtRest, AtWork

LEMMA BundleKeeps ==
  ASSUME NEW s, NEW c, NEW done, NEW late, NEW t, Working(s, c, done, late, t),
         NEW n, NEW k, Wrote(s, n, c, k), Head(c.todo).what = "bundle"
  PROVE  Working(n, k, done, late, t)
<1> DEFINE x == Head(c.todo)
<1>1. /\ ShapeInv(c) /\ DirectoryInv(s) /\ IsDirectory(s) /\ n = Written(s, x)
      /\ TlsInv(s, t) /\ done \subseteq Profiles /\ BundleInv(s, c, late)
      /\ ServerInv(s, c, late) /\ ReadyInv(s, c, done, late)
      /\ AuthorityInv(s, c) /\ IssueInv(s, c, done)
  BY DEF Working, AtRest, AtWork, DirectoryInv, Wrote
<1>2. /\ x \in Steps /\ ShapeInv(k)
      /\ k.op = c.op /\ k.ok = c.ok /\ k.issues = c.issues
      /\ \A d : HasRefresh(k.todo, d) <=> HasRefresh(c.todo, d)
  BY <1>1, NextFacts
<1>3. /\ (Has(k.todo, "archive") <=> Has(c.todo, "archive"))
      /\ (Has(k.todo, "ca_certificate") <=> Has(c.todo, "ca_certificate"))
      /\ (Has(k.todo, "ca_key") <=> Has(c.todo, "ca_key"))
      /\ (Has(k.todo, "server_certificate") <=> Has(c.todo, "server_certificate"))
      /\ (Has(k.todo, "server_key") <=> Has(c.todo, "server_key"))
      /\ (Has(k.todo, "client_certificate") <=> Has(c.todo, "client_certificate"))
      /\ (Has(k.todo, "client_key") <=> Has(c.todo, "client_key"))
      /\ (Has(k.todo, "client_ca") <=> Has(c.todo, "client_ca"))
      /\ (Has(k.todo, "record") <=> Has(c.todo, "record"))
      /\ Has(c.todo, "bundle")
  <2>1. \A w : Has(c.todo, w) <=> x.what = w \/ Has(k.todo, w)
    BY <1>1, NextFacts
  <2>2. x.what = "bundle"
    OBVIOUS
  <2> HIDE DEF x
  <2>3. QED
    BY <2>1, <2>2
<1>4. /\ c.op \in {"rotate", "init"} /\ ~Has(k.todo, "archive")
      /\ ~Has(k.todo, "ca_certificate") /\ ~Has(k.todo, "ca_key")
      /\ ~Has(k.todo, "bundle") /\ c.issues = {}
  BY <1>1, HeadSays, NextFacts
<1>5. /\ IsDirectory(n)
      /\ n.bundle = {s.caCrt} \cup s.archive
      /\ n.caCrt = s.caCrt
      /\ n.caKey = s.caKey
      /\ n.archive = s.archive
      /\ n.serverCrt = s.serverCrt
      /\ n.serverKey = s.serverKey
      /\ n.revoked = s.revoked /\ n.registry = s.registry /\ n.profile = s.profile
      /\ n.cas = s.cas /\ n.serials = s.serials
  <2>1. /\ IsDirectory(n) /\ Same(s, n, {"bundle"})
         /\ n.bundle = {s.caCrt} \cup s.archive
    BY <1>1, <1>2, BundleWritten
  <2>2. QED
    BY <2>1 DEF Same
<1>6. /\ s.caCrt \in Nat /\ s.caKey \in Nat /\ s.cas \in Nat
      /\ s.serials \in Nat /\ s.archive \subseteq Nat
      /\ s.bundle \subseteq Nat /\ s.serverCrt.key \in Nat /\ None = 0
  BY <1>1 DEF IsDirectory, Directories, None
<1> HIDE DEF x
<1>7. /\ s.caCrt # None
  BY <1>1, <1>3, <1>4 DEF AuthorityInv
<1>8. /\ Issued(n) = Issued(s)
      /\ (HasAuthority(n) <=> HasAuthority(s))
  BY <1>5 DEF Trusted, Issued, HasAuthority
<1>9. DirectoryInv(n)
  BY <1>1, <1>5, <1>7 DEF DirectoryInv, Authorities, HasAuthority
<1>10. Authorities(s) \subseteq Authorities(n)
  BY <1>5 DEF Authorities
<1>11. TlsInv(n, t)
  BY <1>1, <1>10 DEF TlsInv
<1>12. AuthorityInv(n, k)
  BY <1>1, <1>2, <1>3, <1>5 DEF AuthorityInv, HasAuthority
<1>13. BundleInv(n, k, late)
  BY <1>5 DEF BundleInv, Current, Bundled, Trusted
<1>14. ServerInv(n, k, late)
  BY <1>1, <1>2, <1>3, <1>5 DEF ServerInv, ServerPair, ForServer, HasAuthority
<1>15. ReadyInv(n, k, done, late)
  BY <1>1, <1>2, <1>3, <1>5, <1>6, <1>7
     DEF ReadyInv, BundleInv, Issued, Trusted, Current
<1>16. IssueInv(n, k, done)
  BY <1>2, <1>4 DEF IssueInv
<1>17. QED
  BY <1>1, <1>2, <1>9, <1>11, <1>12, <1>13, <1>14, <1>15, <1>16
     DEF Working, AtRest, AtWork

LEMMA ServerCertificateKeeps ==
  ASSUME NEW s, NEW c, NEW done, NEW late, NEW t, Working(s, c, done, late, t),
         NEW n, NEW k, Wrote(s, n, c, k), Head(c.todo).what = "server_certificate"
  PROVE  Working(n, k, done, late, t)
<1> DEFINE x == Head(c.todo)
<1>1. /\ ShapeInv(c) /\ DirectoryInv(s) /\ IsDirectory(s) /\ n = Written(s, x)
      /\ TlsInv(s, t) /\ done \subseteq Profiles /\ BundleInv(s, c, late)
      /\ ServerInv(s, c, late) /\ ReadyInv(s, c, done, late)
      /\ AuthorityInv(s, c) /\ IssueInv(s, c, done)
  BY DEF Working, AtRest, AtWork, DirectoryInv, Wrote
<1>2. /\ x \in Steps /\ ShapeInv(k)
      /\ k.op = c.op /\ k.ok = c.ok /\ k.issues = c.issues
      /\ \A d : HasRefresh(k.todo, d) <=> HasRefresh(c.todo, d)
  BY <1>1, NextFacts
<1>3. /\ (Has(k.todo, "archive") <=> Has(c.todo, "archive"))
      /\ (Has(k.todo, "ca_certificate") <=> Has(c.todo, "ca_certificate"))
      /\ (Has(k.todo, "ca_key") <=> Has(c.todo, "ca_key"))
      /\ (Has(k.todo, "bundle") <=> Has(c.todo, "bundle"))
      /\ (Has(k.todo, "server_key") <=> Has(c.todo, "server_key"))
      /\ (Has(k.todo, "client_certificate") <=> Has(c.todo, "client_certificate"))
      /\ (Has(k.todo, "client_key") <=> Has(c.todo, "client_key"))
      /\ (Has(k.todo, "client_ca") <=> Has(c.todo, "client_ca"))
      /\ (Has(k.todo, "record") <=> Has(c.todo, "record"))
      /\ Has(c.todo, "server_certificate")
  <2>1. \A w : Has(c.todo, w) <=> x.what = w \/ Has(k.todo, w)
    BY <1>1, NextFacts
  <2>2. x.what = "server_certificate"
    OBVIOUS
  <2> HIDE DEF x
  <2>3. QED
    BY <2>1, <2>2
<1>4. /\ ~Has(k.todo, "ca_certificate") /\ ~Has(k.todo, "ca_key")
      /\ Has(k.todo, "server_key") /\ ~Has(k.todo, "server_certificate")
  BY <1>1, HeadSays, NextFacts
<1>5. /\ IsDirectory(n)
      /\ n.serverCrt = [signer |-> s.caKey, key |-> s.serials + 1]
      /\ n.serials = s.serials + 1
      /\ n.caCrt = s.caCrt
      /\ n.caKey = s.caKey /\ n.archive = s.archive /\ n.bundle = s.bundle
      /\ n.serverKey = s.serverKey
      /\ n.revoked = s.revoked
      /\ n.registry = s.registry
      /\ n.profile = s.profile /\ n.cas = s.cas
  <2>1. /\ IsDirectory(n) /\ Same(s, n, {"serverCrt", "serials"})
         /\ n.serverCrt = [signer |-> s.caKey, key |-> s.serials + 1]
         /\ n.serials = s.serials + 1
    BY <1>1, <1>2, ServerCertificateWritten
  <2>2. QED
    BY <2>1 DEF Same
<1>6. /\ s.caCrt \in Nat /\ s.caKey \in Nat /\ s.cas \in Nat
      /\ s.serials \in Nat /\ s.archive \subseteq Nat
      /\ s.bundle \subseteq Nat /\ s.serverCrt.key \in Nat /\ None = 0
  BY <1>1 DEF IsDirectory, Directories, None
<1> HIDE DEF x
<1>7. /\ s.caCrt # None /\ s.caKey # None
  BY <1>1, <1>3, <1>4 DEF AuthorityInv
<1>8. /\ Trusted(n) = Trusted(s)
      /\ Issued(n) = Issued(s)
      /\ (HasAuthority(n) <=> HasAuthority(s))
  BY <1>5 DEF Trusted, Issued, HasAuthority
<1>9. DirectoryInv(n)
  BY <1>1, <1>5, <1>7 DEF DirectoryInv, Authorities, HasAuthority
<1>10. Authorities(s) \subseteq Authorities(n)
  BY <1>5 DEF Authorities
<1>11. TlsInv(n, t)
  BY <1>1, <1>10 DEF TlsInv
<1>12. AuthorityInv(n, k)
  BY <1>1, <1>2, <1>4, <1>5, <1>7 DEF AuthorityInv, HasAuthority
<1>13. BundleInv(n, k, late)
  BY <1>1, <1>2, <1>3, <1>5 DEF BundleInv, Current, Bundled, Trusted
<1>14. ServerInv(n, k, late)
  BY <1>4, <1>5, <1>6 DEF ServerInv
<1>15. ReadyInv(n, k, done, late)
  BY <1>1, <1>2, <1>3, <1>4, <1>5, <1>6, <1>7
     DEF ReadyInv, BundleInv, Issued, Trusted, Bundled, Current
<1>16. IssueInv(n, k, done)
  BY <1>1, <1>2, <1>3, <1>5, <1>8 DEF IssueInv
<1>17. QED
  BY <1>1, <1>2, <1>9, <1>11, <1>12, <1>13, <1>14, <1>15, <1>16
     DEF Working, AtRest, AtWork

LEMMA ServerKeyKeeps ==
  ASSUME NEW s, NEW c, NEW done, NEW late, NEW t, Working(s, c, done, late, t),
         NEW n, NEW k, Wrote(s, n, c, k), Head(c.todo).what = "server_key"
  PROVE  Working(n, k, done, late, t)
<1> DEFINE x == Head(c.todo)
<1>1. /\ ShapeInv(c) /\ DirectoryInv(s) /\ IsDirectory(s) /\ n = Written(s, x)
      /\ TlsInv(s, t) /\ done \subseteq Profiles /\ BundleInv(s, c, late)
      /\ ServerInv(s, c, late) /\ ReadyInv(s, c, done, late)
      /\ AuthorityInv(s, c) /\ IssueInv(s, c, done)
  BY DEF Working, AtRest, AtWork, DirectoryInv, Wrote
<1>2. /\ x \in Steps /\ ShapeInv(k)
      /\ k.op = c.op /\ k.ok = c.ok /\ k.issues = c.issues
      /\ \A d : HasRefresh(k.todo, d) <=> HasRefresh(c.todo, d)
  BY <1>1, NextFacts
<1>3. /\ (Has(k.todo, "archive") <=> Has(c.todo, "archive"))
      /\ (Has(k.todo, "ca_certificate") <=> Has(c.todo, "ca_certificate"))
      /\ (Has(k.todo, "ca_key") <=> Has(c.todo, "ca_key"))
      /\ (Has(k.todo, "bundle") <=> Has(c.todo, "bundle"))
      /\ (Has(k.todo, "server_certificate") <=> Has(c.todo, "server_certificate"))
      /\ (Has(k.todo, "client_certificate") <=> Has(c.todo, "client_certificate"))
      /\ (Has(k.todo, "client_key") <=> Has(c.todo, "client_key"))
      /\ (Has(k.todo, "client_ca") <=> Has(c.todo, "client_ca"))
      /\ (Has(k.todo, "record") <=> Has(c.todo, "record"))
      /\ Has(c.todo, "server_key")
  <2>1. \A w : Has(c.todo, w) <=> x.what = w \/ Has(k.todo, w)
    BY <1>1, NextFacts
  <2>2. x.what = "server_key"
    OBVIOUS
  <2> HIDE DEF x
  <2>3. QED
    BY <2>1, <2>2
<1>4. /\ ~Has(k.todo, "server_key") /\ ~Has(k.todo, "server_certificate")
  BY <1>1, HeadSays, NextFacts
<1>5. /\ IsDirectory(n)
      /\ n.serverKey = s.serverCrt.key /\ n.caCrt = s.caCrt /\ n.caKey = s.caKey
      /\ n.archive = s.archive /\ n.bundle = s.bundle /\ n.serverCrt = s.serverCrt
      /\ n.revoked = s.revoked /\ n.registry = s.registry /\ n.profile = s.profile
      /\ n.cas = s.cas /\ n.serials = s.serials
  <2>1. /\ IsDirectory(n) /\ Same(s, n, {"serverKey"})
         /\ n.serverKey = s.serverCrt.key
    BY <1>1, <1>2, ServerKeyWritten
  <2>2. QED
    BY <2>1 DEF Same
<1>6. /\ s.caCrt \in Nat /\ s.caKey \in Nat /\ s.cas \in Nat
      /\ s.serials \in Nat /\ s.archive \subseteq Nat
      /\ s.bundle \subseteq Nat /\ s.serverCrt.key \in Nat /\ None = 0
  BY <1>1 DEF IsDirectory, Directories, None
<1> HIDE DEF x
<1>8. /\ Trusted(n) = Trusted(s)
      /\ Issued(n) = Issued(s)
      /\ (HasAuthority(n) <=> HasAuthority(s))
  BY <1>5 DEF Trusted, Issued, HasAuthority
<1>9. DirectoryInv(n)
  BY <1>1, <1>5 DEF DirectoryInv, Authorities, HasAuthority
<1>10. Authorities(s) \subseteq Authorities(n)
  BY <1>5 DEF Authorities
<1>11. TlsInv(n, t)
  BY <1>1, <1>10 DEF TlsInv
<1>12. AuthorityInv(n, k)
  BY <1>1, <1>2, <1>3, <1>5 DEF AuthorityInv, HasAuthority
<1>13. BundleInv(n, k, late)
  BY <1>1, <1>2, <1>3, <1>5 DEF BundleInv, Current, Bundled, Trusted
<1>14. ServerInv(n, k, late)
  BY <1>1, <1>3, <1>4, <1>5 DEF ServerInv, ServerPair
<1>15. ReadyInv(n, k, done, late)
  BY <1>1, <1>2, <1>3, <1>4, <1>5, <1>6, <1>8 DEF ReadyInv, Issued
<1>16. IssueInv(n, k, done)
  BY <1>1, <1>2, <1>3, <1>5, <1>8 DEF IssueInv
<1>17. QED
  BY <1>1, <1>2, <1>9, <1>11, <1>12, <1>13, <1>14, <1>15, <1>16
     DEF Working, AtRest, AtWork

LEMMA NoRevocationsKeeps ==
  ASSUME NEW s, NEW c, NEW done, NEW late, NEW t, Working(s, c, done, late, t),
         NEW n, NEW k, Wrote(s, n, c, k), Head(c.todo).what = "no_revocations"
  PROVE  Working(n, k, done, late, t)
<1> DEFINE x == Head(c.todo)
<1>1. /\ ShapeInv(c) /\ DirectoryInv(s) /\ IsDirectory(s) /\ n = Written(s, x)
      /\ TlsInv(s, t) /\ done \subseteq Profiles /\ BundleInv(s, c, late)
      /\ ServerInv(s, c, late) /\ ReadyInv(s, c, done, late)
      /\ AuthorityInv(s, c) /\ IssueInv(s, c, done)
  BY DEF Working, AtRest, AtWork, DirectoryInv, Wrote
<1>2. /\ x \in Steps /\ ShapeInv(k)
      /\ k.op = c.op /\ k.ok = c.ok /\ k.issues = c.issues
      /\ \A d : HasRefresh(k.todo, d) <=> HasRefresh(c.todo, d)
  BY <1>1, NextFacts
<1>3. /\ (Has(k.todo, "archive") <=> Has(c.todo, "archive"))
      /\ (Has(k.todo, "ca_certificate") <=> Has(c.todo, "ca_certificate"))
      /\ (Has(k.todo, "ca_key") <=> Has(c.todo, "ca_key"))
      /\ (Has(k.todo, "bundle") <=> Has(c.todo, "bundle"))
      /\ (Has(k.todo, "server_certificate") <=> Has(c.todo, "server_certificate"))
      /\ (Has(k.todo, "server_key") <=> Has(c.todo, "server_key"))
      /\ (Has(k.todo, "client_certificate") <=> Has(c.todo, "client_certificate"))
      /\ (Has(k.todo, "client_key") <=> Has(c.todo, "client_key"))
      /\ (Has(k.todo, "client_ca") <=> Has(c.todo, "client_ca"))
      /\ (Has(k.todo, "record") <=> Has(c.todo, "record"))
  <2>1. \A w : Has(c.todo, w) <=> x.what = w \/ Has(k.todo, w)
    BY <1>1, NextFacts
  <2>2. x.what = "no_revocations"
    OBVIOUS
  <2> HIDE DEF x
  <2>3. QED
    BY <2>1, <2>2
<1>5. /\ IsDirectory(n)
      /\ n.revoked = {} /\ n.caCrt = s.caCrt /\ n.caKey = s.caKey
      /\ n.archive = s.archive /\ n.bundle = s.bundle /\ n.serverCrt = s.serverCrt
      /\ n.serverKey = s.serverKey
      /\ n.registry = s.registry
      /\ n.profile = s.profile
      /\ n.cas = s.cas /\ n.serials = s.serials
  <2>1. /\ IsDirectory(n) /\ Same(s, n, {"revoked"})
         /\ n.revoked = {}
    BY <1>1, <1>2, NoRevocationsWritten
  <2>2. QED
    BY <2>1 DEF Same
<1>6. /\ s.caCrt \in Nat /\ s.caKey \in Nat /\ s.cas \in Nat
      /\ s.serials \in Nat /\ s.archive \subseteq Nat
      /\ s.bundle \subseteq Nat /\ s.serverCrt.key \in Nat /\ None = 0
  BY <1>1 DEF IsDirectory, Directories, None
<1> HIDE DEF x
<1>8. /\ Trusted(n) = Trusted(s)
      /\ Issued(n) = Issued(s)
      /\ (HasAuthority(n) <=> HasAuthority(s))
  BY <1>5 DEF Trusted, Issued, HasAuthority
<1>9. DirectoryInv(n)
  BY <1>1, <1>5 DEF DirectoryInv, Authorities, HasAuthority
<1>10. Authorities(s) \subseteq Authorities(n)
  BY <1>5 DEF Authorities
<1>11. TlsInv(n, t)
  BY <1>1, <1>10 DEF TlsInv
<1>12. AuthorityInv(n, k)
  BY <1>1, <1>2, <1>3, <1>5 DEF AuthorityInv, HasAuthority
<1>13. BundleInv(n, k, late)
  BY <1>1, <1>2, <1>3, <1>5 DEF BundleInv, Current, Bundled, Trusted
<1>14. ServerInv(n, k, late)
  BY <1>1, <1>2, <1>3, <1>5 DEF ServerInv, ServerPair, ForServer, HasAuthority
<1>15. ReadyInv(n, k, done, late)
  BY <1>1, <1>2, <1>3, <1>5, <1>6, <1>8 DEF ReadyInv, BundleInv
<1>16. IssueInv(n, k, done)
  BY <1>1, <1>2, <1>3, <1>5, <1>8 DEF IssueInv
<1>17. QED
  BY <1>1, <1>2, <1>9, <1>11, <1>12, <1>13, <1>14, <1>15, <1>16
     DEF Working, AtRest, AtWork

LEMMA NoRecordsKeeps ==
  ASSUME NEW s, NEW c, NEW done, NEW late, NEW t, Working(s, c, done, late, t),
         NEW n, NEW k, Wrote(s, n, c, k), Head(c.todo).what = "no_records"
  PROVE  Working(n, k, done, late, t)
<1> DEFINE x == Head(c.todo)
<1>1. /\ ShapeInv(c) /\ DirectoryInv(s) /\ IsDirectory(s) /\ n = Written(s, x)
      /\ TlsInv(s, t) /\ done \subseteq Profiles /\ BundleInv(s, c, late)
      /\ ServerInv(s, c, late) /\ ReadyInv(s, c, done, late)
      /\ AuthorityInv(s, c) /\ IssueInv(s, c, done)
  BY DEF Working, AtRest, AtWork, DirectoryInv, Wrote
<1>2. /\ x \in Steps /\ ShapeInv(k)
      /\ k.op = c.op /\ k.ok = c.ok /\ k.issues = c.issues
      /\ \A d : HasRefresh(k.todo, d) <=> HasRefresh(c.todo, d)
  BY <1>1, NextFacts
<1>3. /\ (Has(k.todo, "archive") <=> Has(c.todo, "archive"))
      /\ (Has(k.todo, "ca_certificate") <=> Has(c.todo, "ca_certificate"))
      /\ (Has(k.todo, "ca_key") <=> Has(c.todo, "ca_key"))
      /\ (Has(k.todo, "bundle") <=> Has(c.todo, "bundle"))
      /\ (Has(k.todo, "server_certificate") <=> Has(c.todo, "server_certificate"))
      /\ (Has(k.todo, "server_key") <=> Has(c.todo, "server_key"))
      /\ (Has(k.todo, "client_certificate") <=> Has(c.todo, "client_certificate"))
      /\ (Has(k.todo, "client_key") <=> Has(c.todo, "client_key"))
      /\ (Has(k.todo, "client_ca") <=> Has(c.todo, "client_ca"))
      /\ (Has(k.todo, "record") <=> Has(c.todo, "record"))
  <2>1. \A w : Has(c.todo, w) <=> x.what = w \/ Has(k.todo, w)
    BY <1>1, NextFacts
  <2>2. x.what = "no_records"
    OBVIOUS
  <2> HIDE DEF x
  <2>3. QED
    BY <2>1, <2>2
<1>4. /\ c.op = "init" /\ c.issues = {}
  BY <1>1, HeadSays, NextFacts
<1>5. /\ IsDirectory(n)
      /\ n.registry = {} /\ n.caCrt = s.caCrt /\ n.caKey = s.caKey
      /\ n.archive = s.archive /\ n.bundle = s.bundle /\ n.serverCrt = s.serverCrt
      /\ n.serverKey = s.serverKey /\ n.revoked = s.revoked /\ n.profile = s.profile
      /\ n.cas = s.cas /\ n.serials = s.serials
  <2>1. /\ IsDirectory(n) /\ Same(s, n, {"registry"})
         /\ n.registry = {}
    BY <1>1, <1>2, NoRecordsWritten
  <2>2. QED
    BY <2>1 DEF Same
<1>6. /\ s.caCrt \in Nat /\ s.caKey \in Nat /\ s.cas \in Nat
      /\ s.serials \in Nat /\ s.archive \subseteq Nat
      /\ s.bundle \subseteq Nat /\ s.serverCrt.key \in Nat /\ None = 0
  BY <1>1 DEF IsDirectory, Directories, None
<1> HIDE DEF x
<1>7. /\ s.registry = {}
  BY <1>1, <1>4 DEF AuthorityInv
<1>8. /\ Trusted(n) = Trusted(s)
      /\ (HasAuthority(n) <=> HasAuthority(s))
  BY <1>5 DEF Trusted, Issued, HasAuthority
<1>9. DirectoryInv(n)
  BY <1>1, <1>5 DEF DirectoryInv, Authorities
<1>10. Authorities(s) \subseteq Authorities(n)
  BY <1>5 DEF Authorities
<1>11. TlsInv(n, t)
  BY <1>1, <1>10 DEF TlsInv
<1>12. AuthorityInv(n, k)
  BY <1>1, <1>2, <1>3, <1>5 DEF AuthorityInv, HasAuthority
<1>13. BundleInv(n, k, late)
  BY <1>1, <1>2, <1>4, <1>5 DEF BundleInv, Current, Trusted
<1>14. ServerInv(n, k, late)
  BY <1>1, <1>3, <1>4, <1>5 DEF ServerInv, ServerPair, ForServer
<1>15. ReadyInv(n, k, done, late)
  BY <1>1, <1>7 DEF ReadyInv, Issued
<1>16. IssueInv(n, k, done)
  BY <1>2, <1>4 DEF IssueInv
<1>17. QED
  BY <1>1, <1>2, <1>9, <1>11, <1>12, <1>13, <1>14, <1>15, <1>16
     DEF Working, AtRest, AtWork

LEMMA RevokeKeeps ==
  ASSUME NEW s, NEW c, NEW done, NEW late, NEW t, Working(s, c, done, late, t),
         NEW n, NEW k, Wrote(s, n, c, k), Head(c.todo).what = "revoke"
  PROVE  Working(n, k, done, late, t)
<1> DEFINE x == Head(c.todo)
<1>1. /\ ShapeInv(c) /\ DirectoryInv(s) /\ IsDirectory(s) /\ n = Written(s, x)
      /\ TlsInv(s, t) /\ done \subseteq Profiles /\ BundleInv(s, c, late)
      /\ ServerInv(s, c, late) /\ ReadyInv(s, c, done, late)
      /\ AuthorityInv(s, c) /\ IssueInv(s, c, done)
  BY DEF Working, AtRest, AtWork, DirectoryInv, Wrote
<1>2. /\ x \in Steps /\ ShapeInv(k)
      /\ k.op = c.op /\ k.ok = c.ok /\ k.issues = c.issues
      /\ \A d : HasRefresh(k.todo, d) <=> HasRefresh(c.todo, d)
  BY <1>1, NextFacts
<1>3. /\ (Has(k.todo, "archive") <=> Has(c.todo, "archive"))
      /\ (Has(k.todo, "ca_certificate") <=> Has(c.todo, "ca_certificate"))
      /\ (Has(k.todo, "ca_key") <=> Has(c.todo, "ca_key"))
      /\ (Has(k.todo, "bundle") <=> Has(c.todo, "bundle"))
      /\ (Has(k.todo, "server_certificate") <=> Has(c.todo, "server_certificate"))
      /\ (Has(k.todo, "server_key") <=> Has(c.todo, "server_key"))
      /\ (Has(k.todo, "client_certificate") <=> Has(c.todo, "client_certificate"))
      /\ (Has(k.todo, "client_key") <=> Has(c.todo, "client_key"))
      /\ (Has(k.todo, "client_ca") <=> Has(c.todo, "client_ca"))
      /\ (Has(k.todo, "record") <=> Has(c.todo, "record"))
  <2>1. \A w : Has(c.todo, w) <=> x.what = w \/ Has(k.todo, w)
    BY <1>1, NextFacts
  <2>2. x.what = "revoke"
    OBVIOUS
  <2> HIDE DEF x
  <2>3. QED
    BY <2>1, <2>2
<1>5. /\ IsDirectory(n)
      /\ n.caCrt = s.caCrt /\ n.caKey = s.caKey /\ n.archive = s.archive
      /\ n.bundle = s.bundle
      /\ n.serverCrt = s.serverCrt
      /\ n.serverKey = s.serverKey
      /\ n.registry = s.registry /\ n.profile = s.profile /\ n.cas = s.cas
      /\ n.serials = s.serials
  <2>1. IsDirectory(n) /\ Same(s, n, {"revoked"})
    BY <1>1, <1>2, RevokeIsWritten
  <2>2. QED
    BY <2>1 DEF Same
<1>6. /\ s.caCrt \in Nat /\ s.caKey \in Nat /\ s.cas \in Nat
      /\ s.serials \in Nat /\ s.archive \subseteq Nat
      /\ s.bundle \subseteq Nat /\ s.serverCrt.key \in Nat /\ None = 0
  BY <1>1 DEF IsDirectory, Directories, None
<1> HIDE DEF x
<1>8. /\ Trusted(n) = Trusted(s)
      /\ Issued(n) = Issued(s)
      /\ (HasAuthority(n) <=> HasAuthority(s))
  BY <1>5 DEF Trusted, Issued, HasAuthority
<1>9. DirectoryInv(n)
  BY <1>1, <1>5 DEF DirectoryInv, Authorities, HasAuthority
<1>10. Authorities(s) \subseteq Authorities(n)
  BY <1>5 DEF Authorities
<1>11. TlsInv(n, t)
  BY <1>1, <1>10 DEF TlsInv
<1>12. AuthorityInv(n, k)
  BY <1>1, <1>2, <1>3, <1>5 DEF AuthorityInv, HasAuthority
<1>13. BundleInv(n, k, late)
  BY <1>1, <1>2, <1>3, <1>5 DEF BundleInv, Current, Bundled, Trusted
<1>14. ServerInv(n, k, late)
  BY <1>1, <1>2, <1>3, <1>5 DEF ServerInv, ServerPair, ForServer, HasAuthority
<1>15. ReadyInv(n, k, done, late)
  BY <1>1, <1>2, <1>3, <1>5, <1>6 DEF ReadyInv, Issued, Trusted
<1>16. IssueInv(n, k, done)
  BY <1>1, <1>2, <1>3, <1>5, <1>8 DEF IssueInv
<1>17. QED
  BY <1>1, <1>2, <1>9, <1>11, <1>12, <1>13, <1>14, <1>15, <1>16
     DEF Working, AtRest, AtWork

LEMMA ClientCertificateKeeps ==
  ASSUME NEW s, NEW c, NEW done, NEW late, NEW t, Working(s, c, done, late, t),
         NEW n, NEW k, Wrote(s, n, c, k), Head(c.todo).what = "client_certificate"
  PROVE  Working(n, k, done, late, t)
<1> DEFINE x == Head(c.todo)
           d == x.profile
<1>1. /\ ShapeInv(c) /\ DirectoryInv(s) /\ IsDirectory(s) /\ n = Written(s, x)
      /\ TlsInv(s, t) /\ done \subseteq Profiles /\ BundleInv(s, c, late)
      /\ ServerInv(s, c, late) /\ ReadyInv(s, c, done, late)
      /\ AuthorityInv(s, c) /\ IssueInv(s, c, done)
  BY DEF Working, AtRest, AtWork, DirectoryInv, Wrote
<1>2. /\ x \in Steps /\ ShapeInv(k) /\ d \in Profiles /\ x.identity \in Identities
      /\ k.op = c.op /\ k.ok = c.ok /\ k.issues = c.issues
      /\ (\A e : HasRefresh(k.todo, e) <=> HasRefresh(c.todo, e))
  BY <1>1, NextFacts, StepKinds DEF OfClient
<1>3. /\ (Has(k.todo, "archive") <=> Has(c.todo, "archive"))
      /\ (Has(k.todo, "ca_certificate") <=> Has(c.todo, "ca_certificate"))
      /\ (Has(k.todo, "ca_key") <=> Has(c.todo, "ca_key"))
      /\ (Has(k.todo, "bundle") <=> Has(c.todo, "bundle"))
      /\ (Has(k.todo, "server_certificate") <=> Has(c.todo, "server_certificate"))
      /\ (Has(k.todo, "server_key") <=> Has(c.todo, "server_key"))
      /\ (Has(k.todo, "client_key") <=> Has(c.todo, "client_key"))
      /\ (Has(k.todo, "client_ca") <=> Has(c.todo, "client_ca"))
      /\ (Has(k.todo, "record") <=> Has(c.todo, "record"))
      /\ Has(c.todo, "client_certificate")
  <2>1. \A w : Has(c.todo, w) <=> x.what = w \/ Has(k.todo, w)
    BY <1>1, NextFacts
  <2>2. x.what = "client_certificate"
    OBVIOUS
  <2> HIDE DEF x
  <2>3. QED
    BY <2>1, <2>2
<1>4. /\ c.op \notin {"rotate", "init"} /\ d \in c.issues
      /\ d \in Profiles /\ d \notin done
      /\ (\A e \in c.issues : e = d) /\ Has(k.todo, "client_key")
  <2>1. x.what \in OfClient
    BY DEF OfClient
  <2>2. /\ c.op \notin {"rotate", "init"} /\ d \in c.issues
        /\ (\A e \in c.issues : e = d) /\ Has(k.todo, "client_key")
    BY <1>1, <2>1, HeadSays
  <2>3. QED
    BY <1>1, <1>2, <2>2 DEF IssueInv
<1>5. /\ IsDirectory(n)
      /\ n.profile[d].crt = s.serials + 1 /\ n.profile[d].signer = s.caKey
      /\ n.profile[d].key = s.profile[d].key /\ n.profile[d].ca = s.profile[d].ca
      /\ (\A e \in Profiles \ {d} : n.profile[e] = s.profile[e]) /\ n.caCrt = s.caCrt
      /\ n.caKey = s.caKey /\ n.archive = s.archive
      /\ n.bundle = s.bundle /\ n.serverCrt = s.serverCrt
      /\ n.serverKey = s.serverKey /\ n.revoked = s.revoked
      /\ n.registry = s.registry /\ n.cas = s.cas
  <2>1. /\ IsDirectory(n) /\ Same(s, n, {"profile", "serials"})
         /\ n.profile[d].crt = s.serials + 1
         /\ n.profile[d].signer = s.caKey
         /\ n.profile[d].key = s.profile[d].key
         /\ n.profile[d].ca = s.profile[d].ca
         /\ \A e \in Profiles \ {d} : n.profile[e] = s.profile[e]
    <3>1. /\ IsDirectory(s) /\ n = Written(s, x) /\ d \in Profiles
          /\ x.profile = d /\ x.what = "client_certificate"
      BY <1>1, <1>2
    <3> HIDE DEF x, d
    <3>2. QED
      BY <1>2, <3>1, ClientCertificateWritten
  <2>2. QED
    BY <2>1 DEF Same
<1>6. /\ s.caCrt \in Nat /\ s.caKey \in Nat /\ s.serials \in Nat
      /\ None = 0
  BY <1>1 DEF IsDirectory, Directories, None
<1> HIDE DEF x, d
<1>7. /\ s.caCrt # None /\ s.caKey # None
  BY <1>1, <1>2, <1>3, <1>4
     DEF AuthorityInv, BundleInv, Bundled, Trusted, ShapeInv
<1>8. /\ Trusted(n) = Trusted(s)
      /\ (HasAuthority(n) <=> HasAuthority(s))
      /\ Issued(n) = Issued(s)
  BY <1>5 DEF Trusted, Issued, HasAuthority
<1>9. Authorities(n) = Authorities(s)
  BY <1>5 DEF Authorities
<1>10. DirectoryInv(n)
  BY <1>1, <1>5, <1>7, <1>9 DEF DirectoryInv, HasAuthority
<1>11. TlsInv(n, t)
  BY <1>1, <1>9 DEF TlsInv
<1>12. AuthorityInv(n, k)
  BY <1>1, <1>2, <1>3, <1>5, <1>8 DEF AuthorityInv
<1>13. BundleInv(n, k, late)
  BY <1>1, <1>2, <1>4, <1>5, <1>8 DEF BundleInv, Current
<1>14. ServerInv(n, k, late)
  BY <1>1, <1>2, <1>3, <1>5, <1>8 DEF ServerInv, ServerPair, ForServer
<1>15. ReadyInv(n, k, done, late)
  BY <1>1, <1>2, <1>4, <1>5, <1>8 DEF ReadyInv
<1>16. IssueInv(n, k, done)
  BY <1>1, <1>2, <1>3, <1>4, <1>5, <1>6, <1>8 DEF IssueInv
<1>17. QED
  BY <1>1, <1>2, <1>10, <1>11, <1>12, <1>13, <1>14, <1>15, <1>16
     DEF Working, AtRest, AtWork

LEMMA ClientKeyKeeps ==
  ASSUME NEW s, NEW c, NEW done, NEW late, NEW t, Working(s, c, done, late, t),
         NEW n, NEW k, Wrote(s, n, c, k), Head(c.todo).what = "client_key"
  PROVE  Working(n, k, done, late, t)
<1> DEFINE x == Head(c.todo)
           d == x.profile
<1>1. /\ ShapeInv(c) /\ DirectoryInv(s) /\ IsDirectory(s) /\ n = Written(s, x)
      /\ TlsInv(s, t) /\ done \subseteq Profiles /\ BundleInv(s, c, late)
      /\ ServerInv(s, c, late) /\ ReadyInv(s, c, done, late)
      /\ AuthorityInv(s, c) /\ IssueInv(s, c, done)
  BY DEF Working, AtRest, AtWork, DirectoryInv, Wrote
<1>2. /\ x \in Steps /\ ShapeInv(k) /\ d \in Profiles
      /\ k.op = c.op /\ k.ok = c.ok /\ k.issues = c.issues
      /\ (\A e : HasRefresh(k.todo, e) <=> HasRefresh(c.todo, e))
  BY <1>1, NextFacts, StepKinds DEF OfClient
<1>3. /\ (Has(k.todo, "archive") <=> Has(c.todo, "archive"))
      /\ (Has(k.todo, "ca_certificate") <=> Has(c.todo, "ca_certificate"))
      /\ (Has(k.todo, "ca_key") <=> Has(c.todo, "ca_key"))
      /\ (Has(k.todo, "bundle") <=> Has(c.todo, "bundle"))
      /\ (Has(k.todo, "server_certificate") <=> Has(c.todo, "server_certificate"))
      /\ (Has(k.todo, "server_key") <=> Has(c.todo, "server_key"))
      /\ (Has(k.todo, "client_certificate") <=> Has(c.todo, "client_certificate"))
      /\ (Has(k.todo, "client_ca") <=> Has(c.todo, "client_ca"))
      /\ (Has(k.todo, "record") <=> Has(c.todo, "record"))
      /\ Has(c.todo, "client_key")
  <2>1. \A w : Has(c.todo, w) <=> x.what = w \/ Has(k.todo, w)
    BY <1>1, NextFacts
  <2>2. x.what = "client_key"
    OBVIOUS
  <2> HIDE DEF x
  <2>3. QED
    BY <2>1, <2>2
<1>4. /\ c.op \notin {"rotate", "init"} /\ d \in c.issues
      /\ d \in Profiles /\ d \notin done
      /\ (\A e \in c.issues : e = d) /\ ~Has(k.todo, "client_certificate")
  <2>1. x.what \in OfClient
    BY DEF OfClient
  <2>2. /\ c.op \notin {"rotate", "init"} /\ d \in c.issues
        /\ (\A e \in c.issues : e = d) /\ ~Has(k.todo, "client_certificate")
    BY <1>1, <2>1, HeadSays
  <2>3. QED
    BY <1>1, <1>2, <2>2 DEF IssueInv
<1>5. /\ IsDirectory(n)
      /\ n.profile[d].crt = s.profile[d].crt
      /\ n.profile[d].signer = s.profile[d].signer
      /\ n.profile[d].key = s.profile[d].crt /\ n.profile[d].ca = s.profile[d].ca
      /\ (\A e \in Profiles \ {d} : n.profile[e] = s.profile[e]) /\ n.caCrt = s.caCrt
      /\ n.caKey = s.caKey /\ n.archive = s.archive
      /\ n.bundle = s.bundle /\ n.serverCrt = s.serverCrt
      /\ n.serverKey = s.serverKey /\ n.revoked = s.revoked
      /\ n.registry = s.registry /\ n.cas = s.cas
      /\ n.serials = s.serials
  <2>1. /\ IsDirectory(n) /\ Same(s, n, {"profile"})
         /\ n.profile[d].crt = s.profile[d].crt
         /\ n.profile[d].signer = s.profile[d].signer
         /\ n.profile[d].key = s.profile[d].crt
         /\ n.profile[d].ca = s.profile[d].ca
         /\ \A e \in Profiles \ {d} : n.profile[e] = s.profile[e]
    <3>1. /\ IsDirectory(s) /\ n = Written(s, x) /\ d \in Profiles
          /\ x.profile = d /\ x.what = "client_key"
      BY <1>1, <1>2
    <3> HIDE DEF x, d
    <3>2. QED
      BY <1>2, <3>1, ClientKeyWritten
  <2>2. QED
    BY <2>1 DEF Same
<1>6. /\ s.caCrt \in Nat /\ s.caKey \in Nat /\ s.serials \in Nat
      /\ None = 0
  BY <1>1 DEF IsDirectory, Directories, None
<1> HIDE DEF x, d
<1>7. /\ s.caCrt # None /\ s.caKey # None
  BY <1>1, <1>2, <1>3, <1>4
     DEF AuthorityInv, BundleInv, Bundled, Trusted, ShapeInv
<1>8. /\ Trusted(n) = Trusted(s)
      /\ (HasAuthority(n) <=> HasAuthority(s))
      /\ Issued(n) = Issued(s)
  BY <1>5 DEF Trusted, Issued, HasAuthority
<1>9. Authorities(n) = Authorities(s)
  BY <1>5 DEF Authorities
<1>10. DirectoryInv(n)
  BY <1>1, <1>5, <1>9 DEF DirectoryInv, HasAuthority
<1>11. TlsInv(n, t)
  BY <1>1, <1>9 DEF TlsInv
<1>12. AuthorityInv(n, k)
  BY <1>1, <1>2, <1>3, <1>5, <1>8 DEF AuthorityInv
<1>13. BundleInv(n, k, late)
  BY <1>1, <1>2, <1>4, <1>5, <1>8 DEF BundleInv, Current
<1>14. ServerInv(n, k, late)
  BY <1>1, <1>2, <1>3, <1>5, <1>8 DEF ServerInv, ServerPair, ForServer
<1>15. ReadyInv(n, k, done, late)
  BY <1>1, <1>2, <1>4, <1>5, <1>8 DEF ReadyInv
<1>16. IssueInv(n, k, done)
  BY <1>1, <1>2, <1>3, <1>4, <1>5, <1>8 DEF IssueInv
<1>17. QED
  BY <1>1, <1>2, <1>10, <1>11, <1>12, <1>13, <1>14, <1>15, <1>16
     DEF Working, AtRest, AtWork

LEMMA ClientCaKeeps ==
  ASSUME NEW s, NEW c, NEW done, NEW late, NEW t, Working(s, c, done, late, t),
         NEW n, NEW k, Wrote(s, n, c, k), Head(c.todo).what = "client_ca"
  PROVE  Working(n, k, done, late, t)
<1> DEFINE x == Head(c.todo)
           d == x.profile
<1>1. /\ ShapeInv(c) /\ DirectoryInv(s) /\ IsDirectory(s) /\ n = Written(s, x)
      /\ TlsInv(s, t) /\ done \subseteq Profiles /\ BundleInv(s, c, late)
      /\ ServerInv(s, c, late) /\ ReadyInv(s, c, done, late)
      /\ AuthorityInv(s, c) /\ IssueInv(s, c, done)
  BY DEF Working, AtRest, AtWork, DirectoryInv, Wrote
<1>2. /\ x \in Steps /\ ShapeInv(k) /\ d \in Profiles
      /\ k.op = c.op /\ k.ok = c.ok /\ k.issues = c.issues
      /\ (\A e : HasRefresh(k.todo, e) <=> HasRefresh(c.todo, e))
  BY <1>1, NextFacts, StepKinds DEF OfClient
<1>3. /\ (Has(k.todo, "archive") <=> Has(c.todo, "archive"))
      /\ (Has(k.todo, "ca_certificate") <=> Has(c.todo, "ca_certificate"))
      /\ (Has(k.todo, "ca_key") <=> Has(c.todo, "ca_key"))
      /\ (Has(k.todo, "bundle") <=> Has(c.todo, "bundle"))
      /\ (Has(k.todo, "server_certificate") <=> Has(c.todo, "server_certificate"))
      /\ (Has(k.todo, "server_key") <=> Has(c.todo, "server_key"))
      /\ (Has(k.todo, "client_certificate") <=> Has(c.todo, "client_certificate"))
      /\ (Has(k.todo, "client_key") <=> Has(c.todo, "client_key"))
      /\ (Has(k.todo, "record") <=> Has(c.todo, "record"))
      /\ Has(c.todo, "client_ca")
  <2>1. \A w : Has(c.todo, w) <=> x.what = w \/ Has(k.todo, w)
    BY <1>1, NextFacts
  <2>2. x.what = "client_ca"
    OBVIOUS
  <2> HIDE DEF x
  <2>3. QED
    BY <2>1, <2>2
<1>4. /\ c.op \notin {"rotate", "init"} /\ d \in c.issues
      /\ d \in Profiles /\ d \notin done
      /\ (\A e \in c.issues : e = d)
  <2>1. x.what \in OfClient
    BY DEF OfClient
  <2>2. /\ c.op \notin {"rotate", "init"} /\ d \in c.issues
        /\ (\A e \in c.issues : e = d)
    BY <1>1, <2>1, HeadSays
  <2>3. QED
    BY <1>1, <1>2, <2>2 DEF IssueInv
<1>5. /\ IsDirectory(n)
      /\ n.profile[d].crt = s.profile[d].crt
      /\ n.profile[d].signer = s.profile[d].signer
      /\ n.profile[d].key = s.profile[d].key /\ n.profile[d].ca = Trusted(s)
      /\ (\A e \in Profiles \ {d} : n.profile[e] = s.profile[e]) /\ n.caCrt = s.caCrt
      /\ n.caKey = s.caKey /\ n.archive = s.archive
      /\ n.bundle = s.bundle /\ n.serverCrt = s.serverCrt
      /\ n.serverKey = s.serverKey /\ n.revoked = s.revoked
      /\ n.registry = s.registry /\ n.cas = s.cas
      /\ n.serials = s.serials
  <2>1. /\ IsDirectory(n) /\ Same(s, n, {"profile"})
         /\ n.profile[d].crt = s.profile[d].crt
         /\ n.profile[d].signer = s.profile[d].signer
         /\ n.profile[d].key = s.profile[d].key
         /\ n.profile[d].ca = Trusted(s)
         /\ \A e \in Profiles \ {d} : n.profile[e] = s.profile[e]
    <3>1. /\ IsDirectory(s) /\ n = Written(s, x) /\ d \in Profiles
          /\ x.profile = d /\ x.what = "client_ca"
      BY <1>1, <1>2
    <3> HIDE DEF x, d
    <3>2. QED
      BY <1>2, <3>1, ClientCaWritten
  <2>2. QED
    BY <2>1 DEF Same
<1>6. /\ s.caCrt \in Nat /\ s.caKey \in Nat /\ s.serials \in Nat
      /\ None = 0
  BY <1>1 DEF IsDirectory, Directories, None
<1> HIDE DEF x, d
<1>7. /\ s.caCrt # None /\ s.caKey # None
  BY <1>1, <1>2, <1>3, <1>4
     DEF AuthorityInv, BundleInv, Bundled, Trusted, ShapeInv
<1>8. /\ Trusted(n) = Trusted(s)
      /\ (HasAuthority(n) <=> HasAuthority(s))
      /\ Issued(n) = Issued(s)
  BY <1>5 DEF Trusted, Issued, HasAuthority
<1>9. Authorities(n) = Authorities(s)
  BY <1>5 DEF Authorities
<1>10. DirectoryInv(n)
  BY <1>1, <1>5, <1>9 DEF DirectoryInv, HasAuthority
<1>11. TlsInv(n, t)
  BY <1>1, <1>9 DEF TlsInv
<1>12. AuthorityInv(n, k)
  BY <1>1, <1>2, <1>3, <1>5, <1>8 DEF AuthorityInv
<1>13. BundleInv(n, k, late)
  BY <1>1, <1>2, <1>4, <1>5, <1>8 DEF BundleInv, Current
<1>14. ServerInv(n, k, late)
  BY <1>1, <1>2, <1>3, <1>5, <1>8 DEF ServerInv, ServerPair, ForServer
<1>15. ReadyInv(n, k, done, late)
  BY <1>1, <1>2, <1>4, <1>5, <1>8 DEF ReadyInv
<1>16. IssueInv(n, k, done)
  BY <1>1, <1>2, <1>3, <1>4, <1>5, <1>8 DEF IssueInv
<1>17. QED
  BY <1>1, <1>2, <1>10, <1>11, <1>12, <1>13, <1>14, <1>15, <1>16
     DEF Working, AtRest, AtWork

LEMMA RecordKeeps ==
  ASSUME NEW s, NEW c, NEW done, NEW late, NEW t, Working(s, c, done, late, t),
         NEW n, NEW k, Wrote(s, n, c, k), Head(c.todo).what = "record"
  PROVE  Working(n, k, done, late, t)
<1> DEFINE x == Head(c.todo)
           d == x.profile
<1>1. /\ ShapeInv(c) /\ DirectoryInv(s) /\ IsDirectory(s) /\ n = Written(s, x)
      /\ TlsInv(s, t) /\ done \subseteq Profiles /\ BundleInv(s, c, late)
      /\ ServerInv(s, c, late) /\ ReadyInv(s, c, done, late)
      /\ AuthorityInv(s, c) /\ IssueInv(s, c, done)
  BY DEF Working, AtRest, AtWork, DirectoryInv, Wrote
<1>2. /\ x \in Steps /\ ShapeInv(k) /\ d \in Profiles
      /\ k.op = c.op /\ k.ok = c.ok /\ k.issues = c.issues
      /\ (\A e : HasRefresh(k.todo, e) <=> HasRefresh(c.todo, e))
  BY <1>1, NextFacts, StepKinds DEF OfClient
<1>3. /\ (Has(k.todo, "archive") <=> Has(c.todo, "archive"))
      /\ (Has(k.todo, "ca_certificate") <=> Has(c.todo, "ca_certificate"))
      /\ (Has(k.todo, "ca_key") <=> Has(c.todo, "ca_key"))
      /\ (Has(k.todo, "bundle") <=> Has(c.todo, "bundle"))
      /\ (Has(k.todo, "server_certificate") <=> Has(c.todo, "server_certificate"))
      /\ (Has(k.todo, "server_key") <=> Has(c.todo, "server_key"))
      /\ (Has(k.todo, "client_certificate") <=> Has(c.todo, "client_certificate"))
      /\ (Has(k.todo, "client_key") <=> Has(c.todo, "client_key"))
      /\ (Has(k.todo, "client_ca") <=> Has(c.todo, "client_ca"))
      /\ Has(c.todo, "record")
  <2>1. \A w : Has(c.todo, w) <=> x.what = w \/ Has(k.todo, w)
    BY <1>1, NextFacts
  <2>2. x.what = "record"
    OBVIOUS
  <2> HIDE DEF x
  <2>3. QED
    BY <2>1, <2>2
<1>4. /\ c.op \notin {"rotate", "init"} /\ d \in c.issues
      /\ d \in Profiles /\ d \notin done
      /\ (\A e \in c.issues : e = d)
  <2>1. x.what \in OfClient
    BY DEF OfClient
  <2>2. /\ c.op \notin {"rotate", "init"} /\ d \in c.issues
        /\ (\A e \in c.issues : e = d)
    BY <1>1, <2>1, HeadSays
  <2>3. QED
    BY <1>1, <1>2, <2>2 DEF IssueInv
<1>5. /\ IsDirectory(n)
      /\ Issued(n) = Issued(s) \cup {d} /\ n.caCrt = s.caCrt
      /\ n.caKey = s.caKey /\ n.archive = s.archive
      /\ n.bundle = s.bundle /\ n.serverCrt = s.serverCrt
      /\ n.serverKey = s.serverKey /\ n.revoked = s.revoked
      /\ n.profile = s.profile /\ n.cas = s.cas
      /\ n.serials = s.serials
  <2>1. /\ IsDirectory(n) /\ Same(s, n, {"registry"})
         /\ Issued(n) = Issued(s) \cup {d}
    <3>1. /\ IsDirectory(s) /\ n = Written(s, x) /\ d \in Profiles
          /\ x.profile = d /\ x.what = "record"
      BY <1>1, <1>2
    <3> HIDE DEF x, d
    <3>2. QED
      BY <1>2, <3>1, RecordIsWritten
  <2>2. QED
    BY <2>1 DEF Same
<1>6. /\ s.caCrt \in Nat /\ s.caKey \in Nat /\ s.serials \in Nat
      /\ None = 0
  BY <1>1 DEF IsDirectory, Directories, None
<1> HIDE DEF x, d
<1>7. /\ s.caCrt # None /\ s.caKey # None
  BY <1>1, <1>2, <1>3, <1>4
     DEF AuthorityInv, BundleInv, Bundled, Trusted, ShapeInv
<1>8. /\ Trusted(n) = Trusted(s)
      /\ (HasAuthority(n) <=> HasAuthority(s))
  BY <1>5 DEF Trusted, Issued, HasAuthority
<1>9. Authorities(n) = Authorities(s)
  BY <1>5 DEF Authorities
<1>10. DirectoryInv(n)
  BY <1>1, <1>5, <1>7, <1>9 DEF DirectoryInv, HasAuthority
<1>11. TlsInv(n, t)
  BY <1>1, <1>9 DEF TlsInv
<1>12. AuthorityInv(n, k)
  BY <1>1, <1>2, <1>3, <1>4, <1>5 DEF AuthorityInv
<1>13. BundleInv(n, k, late)
  BY <1>1, <1>2, <1>4, <1>5, <1>8 DEF BundleInv, Current
<1>14. ServerInv(n, k, late)
  BY <1>1, <1>2, <1>3, <1>5, <1>8 DEF ServerInv, ServerPair, ForServer
<1>15. ReadyInv(n, k, done, late)
  BY <1>1, <1>2, <1>4, <1>5, <1>8 DEF ReadyInv
<1>16. IssueInv(n, k, done)
  BY <1>1, <1>2, <1>3, <1>4, <1>5, <1>8 DEF IssueInv
<1>17. QED
  BY <1>1, <1>2, <1>10, <1>11, <1>12, <1>13, <1>14, <1>15, <1>16
     DEF Working, AtRest, AtWork

LEMMA RefreshKeeps ==
  ASSUME NEW s, NEW c, NEW done, NEW late, NEW t, Working(s, c, done, late, t),
         NEW n, NEW k, Wrote(s, n, c, k), Head(c.todo).what = "refresh"
  PROVE  Working(n, k, done, late, t)
<1> DEFINE x == Head(c.todo)
           d == x.profile
<1>1. /\ ShapeInv(c) /\ DirectoryInv(s) /\ IsDirectory(s) /\ n = Written(s, x)
      /\ TlsInv(s, t) /\ done \subseteq Profiles /\ BundleInv(s, c, late)
      /\ ServerInv(s, c, late) /\ ReadyInv(s, c, done, late)
      /\ AuthorityInv(s, c) /\ IssueInv(s, c, done)
  BY DEF Working, AtRest, AtWork, DirectoryInv, Wrote
<1>2. /\ x \in Steps /\ ShapeInv(k) /\ d \in Profiles
      /\ k.op = c.op /\ k.ok = c.ok /\ k.issues = c.issues
      /\ (\A e : HasRefresh(c.todo, e) <=> d = e \/ HasRefresh(k.todo, e))
  BY <1>1, NextFacts, StepKinds DEF OfClient
<1>3. /\ (Has(k.todo, "archive") <=> Has(c.todo, "archive"))
      /\ (Has(k.todo, "ca_certificate") <=> Has(c.todo, "ca_certificate"))
      /\ (Has(k.todo, "ca_key") <=> Has(c.todo, "ca_key"))
      /\ (Has(k.todo, "bundle") <=> Has(c.todo, "bundle"))
      /\ (Has(k.todo, "server_certificate") <=> Has(c.todo, "server_certificate"))
      /\ (Has(k.todo, "server_key") <=> Has(c.todo, "server_key"))
      /\ (Has(k.todo, "client_certificate") <=> Has(c.todo, "client_certificate"))
      /\ (Has(k.todo, "client_key") <=> Has(c.todo, "client_key"))
      /\ (Has(k.todo, "client_ca") <=> Has(c.todo, "client_ca"))
      /\ (Has(k.todo, "record") <=> Has(c.todo, "record"))
  <2>1. \A w : Has(c.todo, w) <=> x.what = w \/ Has(k.todo, w)
    BY <1>1, NextFacts
  <2>2. x.what = "refresh"
    OBVIOUS
  <2> HIDE DEF x
  <2>3. QED
    BY <2>1, <2>2
<1>4. /\ c.op = "rotate" /\ ~Has(k.todo, "bundle")
      /\ c.issues = {}
  BY <1>1, HeadSays, NextFacts
<1>5. /\ IsDirectory(n)
      /\ n.profile[d].crt = s.profile[d].crt
      /\ n.profile[d].signer = s.profile[d].signer
      /\ n.profile[d].key = s.profile[d].key /\ n.profile[d].ca = s.bundle
      /\ (\A e \in Profiles \ {d} : n.profile[e] = s.profile[e]) /\ n.caCrt = s.caCrt
      /\ n.caKey = s.caKey /\ n.archive = s.archive
      /\ n.bundle = s.bundle /\ n.serverCrt = s.serverCrt
      /\ n.serverKey = s.serverKey /\ n.revoked = s.revoked
      /\ n.registry = s.registry /\ n.cas = s.cas
      /\ n.serials = s.serials
  <2>1. /\ IsDirectory(n) /\ Same(s, n, {"profile"})
         /\ n.profile[d].crt = s.profile[d].crt
         /\ n.profile[d].signer = s.profile[d].signer
         /\ n.profile[d].key = s.profile[d].key
         /\ n.profile[d].ca = s.bundle
         /\ \A e \in Profiles \ {d} : n.profile[e] = s.profile[e]
    <3>1. /\ IsDirectory(s) /\ n = Written(s, x) /\ d \in Profiles
          /\ x.profile = d /\ x.what = "refresh"
      BY <1>1, <1>2
    <3> HIDE DEF x, d
    <3>2. QED
      BY <1>2, <3>1, RefreshWritten
  <2>2. QED
    BY <2>1 DEF Same
<1>6. /\ s.caCrt \in Nat /\ s.caKey \in Nat /\ s.serials \in Nat
      /\ None = 0
  BY <1>1 DEF IsDirectory, Directories, None
<1> HIDE DEF x, d
<1>7. /\ s.bundle # {} /\ Trusted(s) = s.bundle
  BY <1>1, <1>2, <1>3, <1>4
     DEF AuthorityInv, BundleInv, Bundled, Trusted, ShapeInv
<1>8. /\ Trusted(n) = Trusted(s)
      /\ (HasAuthority(n) <=> HasAuthority(s))
      /\ Issued(n) = Issued(s)
  BY <1>5 DEF Trusted, Issued, HasAuthority
<1>9. Authorities(n) = Authorities(s)
  BY <1>5 DEF Authorities
<1>10. DirectoryInv(n)
  BY <1>1, <1>5, <1>9 DEF DirectoryInv, HasAuthority
<1>11. TlsInv(n, t)
  BY <1>1, <1>9 DEF TlsInv
<1>12. AuthorityInv(n, k)
  BY <1>1, <1>2, <1>3, <1>5, <1>8 DEF AuthorityInv
<1>13. BundleInv(n, k, late)
  BY <1>1, <1>3, <1>4, <1>5, <1>7, <1>8 DEF BundleInv, Current, Bundled
<1>14. ServerInv(n, k, late)
  BY <1>1, <1>2, <1>3, <1>5, <1>8 DEF ServerInv, ServerPair, ForServer
<1>15. ReadyInv(n, k, done, late)
  BY <1>1, <1>2, <1>4, <1>5, <1>7, <1>8 DEF ReadyInv
<1>16. IssueInv(n, k, done)
  BY <1>2, <1>4 DEF IssueInv
<1>17. QED
  BY <1>1, <1>2, <1>10, <1>11, <1>12, <1>13, <1>14, <1>15, <1>16
     DEF Working, AtRest, AtWork

LEMMA WriteKeeps ==
  ASSUME NEW s, NEW c, NEW done, NEW late, NEW t, Working(s, c, done, late, t),
         NEW n, NEW k, Wrote(s, n, c, k)
  PROVE  Working(n, k, done, late, t)
<1>1. Head(c.todo).what \in Plain \cup OfClient \cup {"revoke", "refresh"}
  BY NextFacts, StepKinds DEF Working, AtWork
<1>2. QED
  BY <1>1, ArchiveKeeps, CaCertificateKeeps, CaKeyKeeps, BundleKeeps,
     ServerCertificateKeeps, ServerKeyKeeps, NoRevocationsKeeps,
     NoRecordsKeeps, RevokeKeeps, ClientCertificateKeeps, ClientKeyKeeps,
     ClientCaKeeps, RecordKeeps, RefreshKeeps
     DEF Plain, AuthorityFiles, ServerFiles, OfClient

---------------------------------------------------------------------------
(* The writes of a command, before any is done.                            *)

LEMMA SeqOfSet ==
  ASSUME NEW S, IsFiniteSet(S)
  PROVE  /\ SetToSeq(S) \in Seq(S)
         /\ \A x \in S : \E i \in DOMAIN SetToSeq(S) : SetToSeq(S)[i] = x
<1> DEFINE D == 1 .. Cardinality(S)
           q == SetToSeq(S)
<1>1. Cardinality(S) \in Nat /\ ExistsBijection(D, S)
  BY FS_CardinalityType
<1>2. PICK f \in Bijection(D, S) : TRUE
  BY <1>1 DEF ExistsBijection
<1>3. f \in [D -> S] /\ IsInjective(f)
  BY <1>2 DEF Bijection, Injection
<1>4. q \in [D -> S] /\ IsInjective(q)
  BY <1>3 DEF SetToSeq
<1>5. q \in Injection(D, S)
  BY <1>4 DEF Injection
<1>6. IsFiniteSet(D) /\ Cardinality(D) = Cardinality(S)
  BY <1>1, FS_Interval
<1>7. q \in Surjection(D, S)
  BY <1>5, <1>6, FS_Injection
<1> HIDE DEF q
<1>8. q \in Seq(S)
  BY <1>1, <1>4
<1>9. \A x \in S : \E i \in DOMAIN q : q[i] = x
  BY <1>7 DEF Surjection
<1>10. QED
  BY <1>8, <1>9 DEF q

LEMMA FiniteSerials ==
  ASSUME NEW S, IsFiniteSet(S)
  PROVE  IsFiniteSet({r.serial : r \in S})
<1> DEFINE T == {r.serial : r \in S}
           f == [r \in S |-> r.serial]
<1>1. f \in Surjection(S, T)
  BY DEF Surjection
<1>2. QED
  BY <1>1, FS_Surjection

LEMMA FiniteProfiles ==
  ASSUME NEW S, IsFiniteSet(S)
  PROVE  IsFiniteSet({r.profile : r \in S})
<1> DEFINE T == {r.profile : r \in S}
           f == [r \in S |-> r.profile]
<1>1. f \in Surjection(S, T)
  BY DEF Surjection
<1>2. QED
  BY <1>1, FS_Surjection

(* Every file of a profile that a command writes is of the profile d.      *)
ForProfile(q, d) ==
  \A i \in DOMAIN q : q[i].what \in OfClient => q[i].profile = d

LEMMA Concatenation ==
  ASSUME NEW p \in Seq(Steps), NEW q \in Seq(Steps)
  PROVE  /\ p \o q \in Seq(Steps)
         /\ \A w : Has(p \o q, w) <=> Has(p, w) \/ Has(q, w)
         /\ \A d : HasRefresh(p \o q, d) <=> HasRefresh(p, d) \/ HasRefresh(q, d)
         /\ \A d : ForProfile(p, d) /\ ForProfile(q, d) => ForProfile(p \o q, d)
         /\ /\ Ordered(p) /\ Ordered(q)
            /\ \A v, w : Has(p, v) /\ Has(q, w) => Rank(v) < Rank(w)
            => Ordered(p \o q)
<1> DEFINE r == p \o q
           m == Len(p)
<1>1. /\ r \in Seq(Steps) /\ m \in Nat /\ Len(q) \in Nat
      /\ DOMAIN p = 1 .. m /\ DOMAIN q = 1 .. Len(q)
      /\ DOMAIN r = 1 .. m + Len(q)
      /\ \A i \in DOMAIN p : r[i] = p[i]
      /\ \A i \in DOMAIN q : r[m + i] = q[i]
  OBVIOUS
<1> HIDE DEF r, m
<1>2. /\ \A i \in DOMAIN p : i \in DOMAIN r
      /\ \A i \in DOMAIN q : m + i \in DOMAIN r
      /\ \A i \in DOMAIN r : i \in DOMAIN p \/ (i - m \in DOMAIN q /\ i = m + (i - m))
  BY <1>1
<1>3. \A i \in DOMAIN r : \/ i \in DOMAIN p /\ r[i] = p[i]
                          \/ i - m \in DOMAIN q /\ r[i] = q[i - m]
  BY <1>1, <1>2
<1>4. \A w : Has(r, w) <=> Has(p, w) \/ Has(q, w)
  BY <1>1, <1>2, <1>3 DEF Has
<1>5. \A d : HasRefresh(r, d) <=> HasRefresh(p, d) \/ HasRefresh(q, d)
  BY <1>1, <1>2, <1>3 DEF HasRefresh
<1>6. \A d : ForProfile(p, d) /\ ForProfile(q, d) => ForProfile(r, d)
  BY <1>3 DEF ForProfile
<1>7. ASSUME Ordered(p), Ordered(q),
             \A v, w : Has(p, v) /\ Has(q, w) => Rank(v) < Rank(w)
      PROVE  Ordered(r)
  <2> SUFFICES ASSUME NEW i \in DOMAIN r, NEW j \in DOMAIN r, i < j
               PROVE  \/ Rank(r[i].what) < Rank(r[j].what)
                      \/ /\ r[i].what = r[j].what
                         /\ r[i].what \in {"revoke", "refresh"}
    BY DEF Ordered
  <2>1. CASE i \in DOMAIN p /\ j \in DOMAIN p
    BY <1>1, <1>7, <2>1 DEF Ordered
  <2>2. CASE i \in DOMAIN p /\ j \notin DOMAIN p
    <3>1. j - m \in DOMAIN q /\ r[j] = q[j - m] /\ r[i] = p[i]
      BY <1>1, <1>3, <2>2
    <3>2. Has(p, r[i].what) /\ Has(q, r[j].what)
      BY <2>2, <3>1 DEF Has
    <3>3. QED
      BY <1>7, <3>2
  <2>3. CASE i \notin DOMAIN p
    <3>1. i - m \in DOMAIN q /\ j - m \in DOMAIN q /\ i - m < j - m
      BY <1>1, <1>2, <2>3
    <3>2. r[i] = q[i - m] /\ r[j] = q[j - m]
      BY <1>1, <1>3, <2>3, <3>1
    <3>3. QED
      BY <1>7, <3>1, <3>2 DEF Ordered
  <2>4. QED
    BY <2>1, <2>2, <2>3
<1>8. QED
  BY <1>4, <1>5, <1>6, <1>7 DEF r

LEMMA OneStep ==
  ASSUME NEW w \in Plain
  PROVE  LET q == <<Step(w)>>
         IN /\ q \in Seq(Steps) /\ Ordered(q)
            /\ \A v : Has(q, v) <=> v = w
            /\ \A d : ~HasRefresh(q, d)
            /\ \A d : ForProfile(q, d)
<1> DEFINE q == <<Step(w)>>
<1>1. Step(w) \in Steps /\ Step(w).what = w
  BY DEF Step, Steps
<1>2. w \notin OfClient /\ w # "refresh"
  BY DEF Plain, OfClient, AuthorityFiles, ServerFiles
<1>3. q \in Seq(Steps) /\ DOMAIN q = {1} /\ q[1] = Step(w)
  BY <1>1
<1> HIDE DEF q
<1>4. QED
  BY <1>1, <1>2, <1>3 DEF Ordered, Has, HasRefresh, ForProfile, q

LEMMA TwoSteps ==
  ASSUME NEW v \in Plain, NEW w \in Plain, Rank(v) < Rank(w)
  PROVE  LET q == <<Step(v), Step(w)>>
         IN /\ q \in Seq(Steps) /\ Ordered(q)
            /\ \A u : Has(q, u) <=> u = v \/ u = w
            /\ \A d : ~HasRefresh(q, d)
            /\ \A d : ForProfile(q, d)
<1> DEFINE q == <<Step(v), Step(w)>>
<1>1. /\ Step(v) \in Steps /\ Step(v).what = v
      /\ Step(w) \in Steps /\ Step(w).what = w
  BY DEF Step, Steps
<1>2. v \notin OfClient /\ w \notin OfClient /\ v # "refresh" /\ w # "refresh"
  BY DEF Plain, OfClient, AuthorityFiles, ServerFiles
<1>3. /\ q \in Seq(Steps) /\ DOMAIN q = {1, 2}
      /\ q[1] = Step(v) /\ q[2] = Step(w)
  BY <1>1
<1> HIDE DEF q
<1>4. Ordered(q)
  BY <1>1, <1>3 DEF Ordered
<1>5. QED
  BY <1>1, <1>2, <1>3, <1>4 DEF Has, HasRefresh, ForProfile, q

LEMMA RevokeSteps ==
  ASSUME NEW s, IsDirectory(s), NEW R, R \subseteq s.registry
  PROVE  LET q == RevokeAll(R)
         IN /\ q \in Seq(Steps) /\ Ordered(q)
            /\ \A v : Has(q, v) => v = "revoke"
            /\ \A d : ~HasRefresh(q, d)
            /\ \A d : ForProfile(q, d)
            /\ q # <<>> => R # {}
<1> DEFINE q == RevokeAll(R)
           T == {r.serial : r \in R}
           z == SetToSeq(T)
<1>1. IsFiniteSet(T)
  BY FiniteSerials, FS_Subset DEF IsDirectory
<1>2. z \in Seq(T)
  BY <1>1, SeqOfSet
<1>3. T \subseteq Nat
  BY DEF IsDirectory, Directories, Records
<1>4. q = [i \in DOMAIN z |-> Revocation(z[i])]
  BY DEF RevokeAll
<1> HIDE DEF z, q
<1>5. DOMAIN z = 1 .. Len(z) /\ Len(z) \in Nat /\ \A i \in DOMAIN z : z[i] \in T
  BY <1>2
<1>6. \A i \in DOMAIN z : Revocation(z[i]) \in Steps /\ q[i].what = "revoke"
  BY <1>3, <1>4, <1>5 DEF Revocation, Steps
<1>7. q \in Seq(Steps) /\ DOMAIN q = DOMAIN z
  BY <1>4, <1>5, <1>6
<1>8. q # <<>> => R # {}
  <2> SUFFICES ASSUME R = {} PROVE q = <<>>
    OBVIOUS
  <2>1. DOMAIN z = {}
    BY <1>5
  <2>2. QED
    BY <1>7, <2>1
<1>9. QED
  BY <1>6, <1>7, <1>8 DEF Ordered, Has, HasRefresh, ForProfile, OfClient, q

LEMMA RefreshSteps ==
  ASSUME NEW s, IsDirectory(s)
  PROVE  LET q == RefreshProfiles(s)
         IN /\ q \in Seq(Steps) /\ Ordered(q)
            /\ \A v : Has(q, v) => v = "refresh"
            /\ \A d \in Issued(s) : HasRefresh(q, d)
            /\ \A d : ForProfile(q, d)
<1> DEFINE q == RefreshProfiles(s)
           T == {r.profile : r \in s.registry}
           z == SetToSeq(T)
<1>1. IsFiniteSet(T)
  BY FiniteProfiles DEF IsDirectory
<1>2. z \in Seq(T) /\ \A x \in T : \E i \in DOMAIN z : z[i] = x
  BY <1>1, SeqOfSet
<1>3. T \subseteq Profiles
  BY DEF IsDirectory, Directories, Records
<1>4. q = [i \in DOMAIN z |-> Refresh(z[i])]
  BY DEF RefreshProfiles
<1> HIDE DEF z, q
<1>5. DOMAIN z = 1 .. Len(z) /\ Len(z) \in Nat /\ \A i \in DOMAIN z : z[i] \in T
  BY <1>2
<1>6. \A i \in DOMAIN z : /\ Refresh(z[i]) \in Steps
                          /\ q[i].what = "refresh" /\ q[i].profile = z[i]
  BY <1>3, <1>4, <1>5 DEF Refresh, Steps
<1>7. q \in Seq(Steps) /\ DOMAIN q = DOMAIN z
  BY <1>4, <1>5, <1>6
<1>8. \A d \in Issued(s) : HasRefresh(q, d)
  BY <1>2, <1>6, <1>7 DEF Issued, HasRefresh
<1>9. QED
  BY <1>6, <1>7, <1>8 DEF Ordered, Has, ForProfile, OfClient, q

LEMMA IssueSteps ==
  ASSUME NEW identity \in Identities, NEW device \in Devices, NEW d \in Profiles
  PROVE  LET q == IssueClient(identity, device, d)
         IN /\ q \in Seq(Steps) /\ Ordered(q) /\ q # <<>>
            /\ \A v : Has(q, v) <=> v \in OfClient
            /\ \A e : ~HasRefresh(q, e)
            /\ ForProfile(q, d)
<1> DEFINE q == IssueClient(identity, device, d)
           F == <<"client_certificate", "client_key", "client_ca", "record">>
<1>1. /\ DOMAIN F = {1, 2, 3, 4} /\ F[1] = "client_certificate"
      /\ F[2] = "client_key" /\ F[3] = "client_ca" /\ F[4] = "record"
      /\ Len(F) = 4
  OBVIOUS
<1>2. q = [i \in DOMAIN F |-> ClientStep(F[i], identity, device, d)]
  BY DEF IssueClient
<1> HIDE DEF q, F
<1>3. DOMAIN q = {1, 2, 3, 4}
  BY <1>1, <1>2
<1>4. \A i \in DOMAIN q : /\ q[i] \in Steps /\ q[i].what = F[i]
                          /\ q[i].profile = d
  BY <1>1, <1>2 DEF ClientStep, Steps, OfClient
<1>5. 1 .. 4 = {1, 2, 3, 4}
  OBVIOUS
<1>6. q \in Seq(Steps) /\ q # <<>>
  <2>1. q \in [1 .. 4 -> Steps]
    BY <1>2, <1>4, <1>1
  <2>2. \A n \in Nat : \A f \in [1 .. n -> Steps] : f \in Seq(Steps)
    OBVIOUS
  <2>3. q # <<>>
    BY <1>3
  <2>4. QED
    BY <2>1, <2>2, <2>3
<1>7. Ordered(q)
  BY <1>1, <1>3, <1>4, RankIs DEF Ordered
<1>8. \A v : Has(q, v) <=> v \in OfClient
  BY <1>1, <1>3, <1>4 DEF Has, OfClient
<1>9. QED
  BY <1>1, <1>3, <1>4, <1>6, <1>7, <1>8 DEF HasRefresh, ForProfile, q

Pair == {"server_certificate", "server_key"}

(* A command that begins: the files it is going to write.                  *)
Fresh(s, c) ==
  /\ c.op \in Ops /\ c.ok \in BOOLEAN
  /\ c.todo \in Seq(Steps) /\ Ordered(c.todo)
  /\ \E d : ForProfile(c.todo, d)
  /\ \/ /\ c.op = "init" /\ ~HasIdentity(s)
        /\ \A w : Has(c.todo, w) <=>
             w \in (AuthorityFiles \ {"archive"}) \cup ServerFiles
     \/ /\ c.op = "rotate" /\ c.ok /\ HasAuthority(s)
        /\ \A w : w # "refresh" =>
             (Has(c.todo, w) <=> w \in AuthorityFiles \cup Pair)
        /\ \A d \in Issued(s) : HasRefresh(c.todo, d)
     \/ /\ c.op = "rotate" /\ ~c.ok /\ HasAuthority(s)
        /\ \A w : Has(c.todo, w) <=> w \in AuthorityFiles
     \/ /\ c.op = "reissue" /\ HasAuthority(s)
        /\ \A w : Has(c.todo, w) <=> w \in Pair
     \/ /\ c.op \in {"issue", "renew"} /\ HasAuthority(s)
        /\ \A w : w # "revoke" => (Has(c.todo, w) <=> w \in OfClient)
     \/ /\ c.op \in {"renew", "revoke", "remove"} /\ HasAuthority(s)
        /\ \A w : Has(c.todo, w) => w = "revoke"

LEMMA OverwrittenIs ==
  ASSUME NEW c, c.todo \in Seq(Steps)
  PROVE  /\ \A e : e \in Overwritten(c) <=>
              \E i \in DOMAIN c.todo :
                /\ c.todo[i].what = "client_certificate"
                /\ c.todo[i].profile = e
         /\ Overwritten(c) \subseteq Profiles
<1>1. \A e : e \in Overwritten(c) <=>
              \E i \in DOMAIN c.todo :
                /\ c.todo[i].what = "client_certificate"
                /\ c.todo[i].profile = e
  BY DEF Overwritten, Range
<1>2. \A i \in DOMAIN c.todo : c.todo[i] \in Steps
  OBVIOUS
<1>3. QED
  BY <1>1, <1>2, StepKinds DEF OfClient

LEMMA BeginKeeps ==
  ASSUME NEW s, NEW done, NEW late, NEW t,
         AtRest(s, NoCommand, done, late, t),
         NEW c, Fresh(s, c), NEW p \in Pids, NEW k,
         k = [op |-> c.op, todo |-> c.todo, ok |-> c.ok, by |-> p,
              issues |-> Overwritten(c)]
  PROVE  Working(s, k, done \ Overwritten(c), late, t)
<1>1. /\ k.op = c.op /\ k.todo = c.todo /\ k.ok = c.ok
      /\ k.issues = Overwritten(c)
      /\ Overwritten(c) \subseteq Profiles
      /\ k \in [op : Ops, todo : Seq(Steps), ok : BOOLEAN, by : Pids,
                issues : SUBSET Profiles]
  BY OverwrittenIs DEF Fresh
<1>2. /\ DirectoryInv(s) /\ TlsInv(s, t) /\ done \subseteq Profiles
      /\ ("profiles" \notin late => Current(s))
      /\ ("server" \notin late /\ HasAuthority(s) => ServerPair(s))
      /\ (\A d \in done :
            /\ d \in Issued(s) /\ s.profile[d].crt # None
            /\ s.profile[d].key = s.profile[d].crt
            /\ ("profiles" \notin late => s.profile[d].ca = Trusted(s)))
  BY DEF AtRest, BundleInv, ServerInv, ReadyInv, NoCommand, Has
<1>3. \A i \in DOMAIN c.todo : c.todo[i].what \in OfClient =>
        /\ Has(c.todo, c.todo[i].what)
        /\ Has(c.todo, "client_certificate") =>
             c.todo[i].profile \in Overwritten(c)
  BY OverwrittenIs DEF Fresh, ForProfile, OfClient, Has
<1>4. \A d, e \in Overwritten(c) : d = e
  BY OverwrittenIs DEF Fresh, ForProfile, OfClient
<1>5. Overwritten(c) # {} => Has(c.todo, "client_certificate")
  BY OverwrittenIs DEF Fresh, Has
<1>6. CASE /\ c.op = "init" /\ ~HasIdentity(s)
           /\ \A w : Has(c.todo, w) <=>
                w \in (AuthorityFiles \ {"archive"}) \cup ServerFiles
  <2>1. /\ Has(c.todo, "ca_certificate") /\ Has(c.todo, "ca_key")
        /\ Has(c.todo, "bundle") /\ Has(c.todo, "server_certificate")
        /\ Has(c.todo, "server_key")
        /\ ~Has(c.todo, "archive") /\ ~Has(c.todo, "refresh")
        /\ ~Has(c.todo, "client_certificate")
        /\ \A w \in OfClient : ~Has(c.todo, w)
    BY <1>6 DEF AuthorityFiles, ServerFiles, OfClient
  <2>2. s.registry = {} /\ s.caCrt = None
    BY <1>2, <1>6 DEF DirectoryInv, HasIdentity, HasAuthority
  <2>3. ShapeInv(k)
    BY <1>1, <1>3, <1>4, <1>5, <1>6, <2>1 DEF ShapeInv, Fresh
  <2>4. AuthorityInv(s, k) /\ IssueInv(s, k, done \ Overwritten(c))
    BY <1>1, <1>5, <1>6, <2>1, <2>2 DEF AuthorityInv, IssueInv
  <2>5. QED
    BY <1>1, <1>2, <1>6, <2>1, <2>3, <2>4
       DEF Working, AtRest, AtWork, BundleInv, ServerInv, ReadyInv
<1>7. CASE /\ c.op = "rotate" /\ c.ok /\ HasAuthority(s)
           /\ \A w : w # "refresh" =>
                (Has(c.todo, w) <=> w \in AuthorityFiles \cup Pair)
           /\ \A d \in Issued(s) : HasRefresh(c.todo, d)
  <2>1. /\ Has(c.todo, "ca_certificate") /\ Has(c.todo, "ca_key")
        /\ Has(c.todo, "bundle") /\ Has(c.todo, "server_certificate")
        /\ Has(c.todo, "server_key") /\ Has(c.todo, "archive")
        /\ ~Has(c.todo, "client_certificate") /\ ~Has(c.todo, "no_records")
        /\ \A w \in OfClient : ~Has(c.todo, w)
    BY <1>7 DEF AuthorityFiles, Pair, OfClient
  <2>2. s.caCrt # None /\ s.caKey # None
    BY <1>7 DEF HasAuthority
  <2>3. ShapeInv(k)
    BY <1>1, <1>3, <1>4, <1>5, <1>7, <2>1 DEF ShapeInv, Fresh
  <2>4. AuthorityInv(s, k) /\ IssueInv(s, k, done \ Overwritten(c))
    BY <1>1, <1>5, <1>7, <2>1, <2>2 DEF AuthorityInv, IssueInv
  <2>5. QED
    BY <1>1, <1>2, <1>7, <2>1, <2>3, <2>4
       DEF Working, AtRest, AtWork, BundleInv, ServerInv, ReadyInv
<1>8. CASE /\ c.op = "rotate" /\ ~c.ok /\ HasAuthority(s)
           /\ \A w : Has(c.todo, w) <=> w \in AuthorityFiles
  <2>1. /\ Has(c.todo, "ca_certificate") /\ Has(c.todo, "ca_key")
        /\ Has(c.todo, "bundle") /\ ~Has(c.todo, "server_certificate")
        /\ ~Has(c.todo, "server_key") /\ Has(c.todo, "archive")
        /\ ~Has(c.todo, "client_certificate") /\ ~Has(c.todo, "no_records")
        /\ \A w \in OfClient : ~Has(c.todo, w)
    BY <1>8 DEF AuthorityFiles, OfClient
  <2>2. s.caCrt # None /\ s.caKey # None
    BY <1>8 DEF HasAuthority
  <2>3. ShapeInv(k)
    BY <1>1, <1>3, <1>4, <1>5, <1>8, <2>1 DEF ShapeInv, Fresh
  <2>4. AuthorityInv(s, k) /\ IssueInv(s, k, done \ Overwritten(c))
    BY <1>1, <1>5, <1>8, <2>1, <2>2 DEF AuthorityInv, IssueInv
  <2>5. QED
    BY <1>1, <1>2, <1>8, <2>1, <2>3, <2>4
       DEF Working, AtRest, AtWork, BundleInv, ServerInv, ReadyInv, ForServer
<1>9. CASE /\ c.op = "reissue" /\ HasAuthority(s)
           /\ \A w : Has(c.todo, w) <=> w \in Pair
  <2>1. /\ ~Has(c.todo, "ca_certificate") /\ ~Has(c.todo, "ca_key")
        /\ ~Has(c.todo, "bundle") /\ Has(c.todo, "server_certificate")
        /\ Has(c.todo, "server_key") /\ ~Has(c.todo, "archive")
        /\ ~Has(c.todo, "client_certificate") /\ ~Has(c.todo, "no_records")
        /\ ~Has(c.todo, "refresh")
        /\ \A w \in OfClient : ~Has(c.todo, w)
    BY <1>9 DEF Pair, OfClient
  <2>2. s.caCrt # None /\ s.caKey # None
    BY <1>9 DEF HasAuthority
  <2>3. ShapeInv(k)
    BY <1>1, <1>3, <1>4, <1>5, <1>9, <2>1 DEF ShapeInv, Fresh
  <2>4. AuthorityInv(s, k) /\ IssueInv(s, k, done \ Overwritten(c))
    BY <1>1, <1>5, <1>9, <2>1, <2>2 DEF AuthorityInv, IssueInv
  <2>5. QED
    BY <1>1, <1>2, <1>9, <2>1, <2>3, <2>4
       DEF Working, AtRest, AtWork, BundleInv, ServerInv, ReadyInv
<1>10. CASE /\ c.op \in {"issue", "renew"} /\ HasAuthority(s)
            /\ \A w : w # "revoke" => (Has(c.todo, w) <=> w \in OfClient)
  <2>1. /\ ~Has(c.todo, "ca_certificate") /\ ~Has(c.todo, "ca_key")
        /\ ~Has(c.todo, "bundle") /\ ~Has(c.todo, "server_certificate")
        /\ ~Has(c.todo, "server_key") /\ ~Has(c.todo, "archive")
        /\ ~Has(c.todo, "no_records") /\ ~Has(c.todo, "refresh")
        /\ Has(c.todo, "client_certificate") /\ Has(c.todo, "client_key")
        /\ Has(c.todo, "client_ca") /\ Has(c.todo, "record")
    BY <1>10 DEF OfClient
  <2>2. s.caCrt # None /\ s.caKey # None
    BY <1>10 DEF HasAuthority
  <2>3. ShapeInv(k)
    BY <1>1, <1>3, <1>4, <1>5, <1>10, <2>1 DEF ShapeInv, Fresh
  <2>4. AuthorityInv(s, k) /\ IssueInv(s, k, done \ Overwritten(c))
    BY <1>1, <1>5, <1>10, <2>1, <2>2 DEF AuthorityInv, IssueInv
  <2>5. QED
    BY <1>1, <1>2, <1>10, <2>1, <2>3, <2>4
       DEF Working, AtRest, AtWork, BundleInv, ServerInv, ReadyInv, ForServer
<1>11. CASE /\ c.op \in {"renew", "revoke", "remove"} /\ HasAuthority(s)
            /\ \A w : Has(c.todo, w) => w = "revoke"
  <2>1. /\ ~Has(c.todo, "ca_certificate") /\ ~Has(c.todo, "ca_key")
        /\ ~Has(c.todo, "bundle") /\ ~Has(c.todo, "server_certificate")
        /\ ~Has(c.todo, "server_key") /\ ~Has(c.todo, "archive")
        /\ ~Has(c.todo, "no_records") /\ ~Has(c.todo, "refresh")
        /\ ~Has(c.todo, "client_certificate")
        /\ \A w \in OfClient : ~Has(c.todo, w)
    BY <1>11 DEF OfClient
  <2>2. s.caCrt # None /\ s.caKey # None
    BY <1>11 DEF HasAuthority
  <2>3. ShapeInv(k)
    BY <1>1, <1>3, <1>4, <1>5, <1>11, <2>1 DEF ShapeInv, Fresh
  <2>4. AuthorityInv(s, k) /\ IssueInv(s, k, done \ Overwritten(c))
    BY <1>1, <1>5, <1>11, <2>1, <2>2 DEF AuthorityInv, IssueInv
  <2>5. QED
    BY <1>1, <1>2, <1>11, <2>1, <2>3, <2>4
       DEF Working, AtRest, AtWork, BundleInv, ServerInv, ReadyInv, ForServer
<1>12. QED
  BY <1>6, <1>7, <1>8, <1>9, <1>10, <1>11 DEF Fresh

---------------------------------------------------------------------------
LEMMA InitializeFresh ==
  ASSUME NEW s, NEW c \in Initialize(s)
  PROVE  Fresh(s, c)
<1> DEFINE a == <<Step("ca_certificate"), Step("ca_key")>>
           b == <<Step("bundle")>>
           e == <<Step("server_certificate"), Step("server_key")>>
           f == <<Step("no_revocations"), Step("no_records")>>
           h == (a \o b) \o e
           q == h \o f
<1>1. ~HasIdentity(s) /\ c = Command("init", q, TRUE)
  BY DEF Initialize, GenerateManagedCa, IssueServerCertificate
<1>2. c.op = "init" /\ c.todo = q /\ c.ok = TRUE
  BY <1>1 DEF Command
<1>3. /\ a \in Seq(Steps) /\ Ordered(a) /\ ForProfile(a, 0)
      /\ \A w : Has(a, w) <=> w = "ca_certificate" \/ w = "ca_key"
  BY TwoSteps, RankIs DEF Plain, AuthorityFiles
<1>4. /\ b \in Seq(Steps) /\ Ordered(b) /\ ForProfile(b, 0)
      /\ \A w : Has(b, w) <=> w = "bundle"
  BY OneStep DEF Plain, AuthorityFiles
<1>5. /\ e \in Seq(Steps) /\ Ordered(e) /\ ForProfile(e, 0)
      /\ \A w : Has(e, w) <=> w = "server_certificate" \/ w = "server_key"
  BY TwoSteps, RankIs DEF Plain, ServerFiles
<1>6. /\ f \in Seq(Steps) /\ Ordered(f) /\ ForProfile(f, 0)
      /\ \A w : Has(f, w) <=> w = "no_revocations" \/ w = "no_records"
  BY TwoSteps, RankIs DEF Plain, ServerFiles
<1> HIDE DEF a, b, e, f
<1>7. /\ a \o b \in Seq(Steps) /\ Ordered(a \o b) /\ ForProfile(a \o b, 0)
      /\ \A w : Has(a \o b, w) <=>
           w = "ca_certificate" \/ w = "ca_key" \/ w = "bundle"
  BY <1>3, <1>4, Concatenation, RankIs
<1>8. /\ h \in Seq(Steps) /\ Ordered(h)
      /\ ForProfile(h, 0)
      /\ \A w : Has(h, w) <=>
           \/ w = "ca_certificate" \/ w = "ca_key" \/ w = "bundle"
           \/ w = "server_certificate" \/ w = "server_key"
  <2>1. \A v, w : Has(a \o b, v) /\ Has(e, w) => Rank(v) < Rank(w)
    BY <1>5, <1>7, RankIs
  <2>2. QED
    BY <1>5, <1>7, <2>1, Concatenation
<1> HIDE DEF h
<1>9. /\ q \in Seq(Steps) /\ Ordered(q) /\ ForProfile(q, 0)
      /\ \A w : Has(q, w) <=>
           \/ w = "ca_certificate" \/ w = "ca_key" \/ w = "bundle"
           \/ w = "server_certificate" \/ w = "server_key"
           \/ w = "no_revocations" \/ w = "no_records"
  <2>1. \A v : Has(h, v) => Rank(v) \in 1 .. 6
    BY <1>8, RankIs
  <2>2. \A w : Has(f, w) => Rank(w) \in 7 .. 14
    BY <1>6, RankIs
  <2>3. \A v, w : Has(h, v) /\ Has(f, w) => Rank(v) < Rank(w)
    BY <2>1, <2>2
  <2>4. QED
    BY <1>6, <1>8, <2>3, Concatenation
<1> HIDE DEF q
<1>10. \A w : Has(q, w) <=> w \in (AuthorityFiles \ {"archive"}) \cup ServerFiles
  BY <1>9 DEF AuthorityFiles, ServerFiles
<1>11. QED
  BY <1>1, <1>2, <1>9, <1>10 DEF Fresh, Ops

LEMMA RotateFresh ==
  ASSUME NEW s, IsDirectory(s), NEW named \in BOOLEAN, NEW c \in Rotate(s, named)
  PROVE  Fresh(s, c)
<1> DEFINE x == <<Step("archive")>>
           a == <<Step("ca_certificate"), Step("ca_key")>>
           b == <<Step("bundle")>>
           e == <<Step("server_certificate"), Step("server_key")>>
           f == RefreshProfiles(s)
           g == (x \o a) \o b
           q == (g \o e) \o f
<1>1. /\ HasAuthority(s)
      /\ \/ named /\ c = Command("rotate", q, TRUE)
         \/ ~named /\ c = Command("rotate", g, FALSE)
  BY DEF Rotate, GenerateManagedCa, IssueServerCertificate
<1>2. /\ c.op = "rotate"
      /\ \/ c.todo = q /\ c.ok = TRUE
         \/ c.todo = g /\ c.ok = FALSE
  BY <1>1 DEF Command
<1>3. /\ a \in Seq(Steps) /\ Ordered(a) /\ ForProfile(a, 0)
      /\ \A w : Has(a, w) <=> w = "ca_certificate" \/ w = "ca_key"
  BY TwoSteps, RankIs DEF Plain, AuthorityFiles
<1>4. /\ b \in Seq(Steps) /\ Ordered(b) /\ ForProfile(b, 0)
      /\ \A w : Has(b, w) <=> w = "bundle"
  BY OneStep DEF Plain, AuthorityFiles
<1>5. /\ e \in Seq(Steps) /\ Ordered(e) /\ ForProfile(e, 0)
      /\ \A w : Has(e, w) <=> w = "server_certificate" \/ w = "server_key"
  BY TwoSteps, RankIs DEF Plain, ServerFiles
<1>6. /\ f \in Seq(Steps) /\ Ordered(f) /\ ForProfile(f, 0)
      /\ \A w : Has(f, w) => w = "refresh"
      /\ \A d \in Issued(s) : HasRefresh(f, d)
  BY RefreshSteps
<1>7. /\ x \in Seq(Steps) /\ Ordered(x) /\ ForProfile(x, 0)
      /\ \A w : Has(x, w) <=> w = "archive"
  BY OneStep DEF Plain, AuthorityFiles
<1> HIDE DEF a, b, e, f, x
<1>8. /\ x \o a \in Seq(Steps) /\ Ordered(x \o a) /\ ForProfile(x \o a, 0)
      /\ \A w : Has(x \o a, w) <=>
           w = "archive" \/ w = "ca_certificate" \/ w = "ca_key"
  <2>1. \A v, w : Has(x, v) /\ Has(a, w) => Rank(v) < Rank(w)
    BY <1>3, <1>7, RankIs
  <2>2. QED
    BY <1>3, <1>7, <2>1, Concatenation
<1>9. /\ g \in Seq(Steps) /\ Ordered(g) /\ ForProfile(g, 0)
      /\ \A w : Has(g, w) <=>
           w = "archive" \/ w = "ca_certificate" \/ w = "ca_key" \/ w = "bundle"
  <2>1. \A v, w : Has(x \o a, v) /\ Has(b, w) => Rank(v) < Rank(w)
    BY <1>4, <1>8, RankIs
  <2>2. QED
    BY <1>4, <1>8, <2>1, Concatenation
<1> HIDE DEF g
<1>10. /\ g \o e \in Seq(Steps) /\ Ordered(g \o e) /\ ForProfile(g \o e, 0)
       /\ \A w : Has(g \o e, w) <=>
            \/ w = "archive" \/ w = "ca_certificate" \/ w = "ca_key"
            \/ w = "bundle" \/ w = "server_certificate" \/ w = "server_key"
  <2>1. \A v, w : Has(g, v) /\ Has(e, w) => Rank(v) < Rank(w)
    BY <1>5, <1>9, RankIs
  <2>2. QED
    BY <1>5, <1>9, <2>1, Concatenation
<1>11. /\ q \in Seq(Steps) /\ Ordered(q) /\ ForProfile(q, 0)
       /\ \A w : w # "refresh" => (Has(q, w) <=>
            \/ w = "archive" \/ w = "ca_certificate" \/ w = "ca_key"
            \/ w = "bundle" \/ w = "server_certificate" \/ w = "server_key")
       /\ \A d \in Issued(s) : HasRefresh(q, d)
  <2>1. \A v : Has(g \o e, v) => Rank(v) \in 1 .. 6
    BY <1>10, RankIs
  <2>2. \A w : Has(f, w) => Rank(w) \in 14 .. 14
    BY <1>6, RankIs
  <2>3. \A v, w : Has(g \o e, v) /\ Has(f, w) => Rank(v) < Rank(w)
    BY <2>1, <2>2
  <2>4. QED
    BY <1>6, <1>10, <2>3, Concatenation
<1> HIDE DEF q
<1>12. /\ \A w : w # "refresh" =>
            (Has(q, w) <=> w \in AuthorityFiles \cup Pair)
       /\ \A w : Has(g, w) <=> w \in AuthorityFiles
  BY <1>9, <1>11 DEF AuthorityFiles, Pair
<1>13. CASE c.todo = q /\ c.ok = TRUE
  BY <1>1, <1>2, <1>11, <1>12, <1>13 DEF Fresh, Ops
<1>14. CASE c.todo = g /\ c.ok = FALSE
  BY <1>1, <1>2, <1>9, <1>12, <1>14 DEF Fresh, Ops
<1>15. QED
  BY <1>2, <1>13, <1>14

LEMMA ReissueFresh ==
  ASSUME NEW s, NEW c \in Reissue(s)
  PROVE  Fresh(s, c)
<1> DEFINE e == <<Step("server_certificate"), Step("server_key")>>
<1>1. HasAuthority(s) /\ c = Command("reissue", e, TRUE)
  BY DEF Reissue, IssueServerCertificate
<1>2. c.op = "reissue" /\ c.todo = e /\ c.ok = TRUE
  BY <1>1 DEF Command
<1>3. /\ e \in Seq(Steps) /\ Ordered(e) /\ ForProfile(e, 0)
      /\ \A w : Has(e, w) <=> w = "server_certificate" \/ w = "server_key"
  BY TwoSteps, RankIs DEF Plain, ServerFiles
<1> HIDE DEF e
<1>4. \A w : Has(e, w) <=> w \in Pair
  BY <1>3 DEF Pair
<1>5. QED
  BY <1>1, <1>2, <1>3, <1>4 DEF Fresh, Ops

LEMMA IssueFresh ==
  ASSUME NEW s, NEW i \in Identities, NEW v \in Devices, NEW d \in Profiles,
         NEW c \in Issue(s, i, v, d)
  PROVE  Fresh(s, c)
<1> DEFINE q == IssueClient(i, v, d)
<1>1. HasAuthority(s) /\ c = Command("issue", q, TRUE)
  BY DEF Issue
<1>2. c.op = "issue" /\ c.todo = q /\ c.ok = TRUE
  BY <1>1 DEF Command
<1>3. /\ q \in Seq(Steps) /\ Ordered(q) /\ ForProfile(q, d)
      /\ \A w : Has(q, w) <=> w \in OfClient
  BY IssueSteps
<1> HIDE DEF q
<1>4. QED
  BY <1>1, <1>2, <1>3 DEF Fresh, Ops

LEMMA RevocationsFresh ==
  ASSUME NEW s, DirectoryInv(s), NEW R, R \subseteq s.registry,
         NEW c, c.op \in {"renew", "revoke", "remove"}, c.ok \in BOOLEAN,
         c.todo = RevokeAll(R), c.todo # <<>>
  PROVE  Fresh(s, c)
<1>1. IsDirectory(s) /\ (s.registry # {} => HasAuthority(s))
  BY DEF DirectoryInv
<1>2. /\ c.todo \in Seq(Steps) /\ Ordered(c.todo) /\ ForProfile(c.todo, 0)
      /\ \A w : Has(c.todo, w) => w = "revoke"
      /\ R # {}
  BY <1>1, RevokeSteps
<1>3. QED
  BY <1>1, <1>2 DEF Fresh, Ops

LEMMA RenewFresh ==
  ASSUME NEW s, DirectoryInv(s), NEW i \in Identities, NEW v \in Devices,
         NEW d \in Profiles, NEW valid \in BOOLEAN,
         NEW c \in Renew(s, i, v, d, valid), c.todo # <<>>
  PROVE  Fresh(s, c)
<1> DEFINE R == ActiveOn(s, i, v)
           p == RevokeAll(R)
           q == IssueClient(i, v, d)
<1>1. \/ HasAuthority(s) /\ c = Command("renew", p \o q, TRUE)
      \/ c = Command("renew", p, FALSE)
  BY DEF Renew
<1>2. /\ c.op = "renew"
      /\ \/ HasAuthority(s) /\ c.todo = p \o q /\ c.ok = TRUE
         \/ c.todo = p /\ c.ok = FALSE
  BY <1>1 DEF Command
<1>3. R \subseteq s.registry
  BY DEF ActiveOn, Active
<1>4. /\ p \in Seq(Steps) /\ Ordered(p) /\ ForProfile(p, d)
      /\ \A w : Has(p, w) => w = "revoke"
  BY <1>3, RevokeSteps DEF DirectoryInv
<1>5. /\ q \in Seq(Steps) /\ Ordered(q) /\ ForProfile(q, d)
      /\ \A w : Has(q, w) <=> w \in OfClient
  BY IssueSteps
<1>6. CASE c.todo = p /\ c.ok = FALSE
  <2>1. /\ c.op \in {"renew", "revoke", "remove"} /\ c.ok \in BOOLEAN
        /\ c.todo = RevokeAll(R)
    BY <1>2, <1>6
  <2> HIDE DEF R, p, q
  <2>2. QED
    BY <1>3, <2>1, RevocationsFresh
<1> HIDE DEF p, q
<1>7. \A a, w : Has(p, a) /\ Has(q, w) => Rank(a) < Rank(w)
  BY <1>4, <1>5, RankIs DEF OfClient
<1>8. /\ p \o q \in Seq(Steps) /\ Ordered(p \o q) /\ ForProfile(p \o q, d)
      /\ \A w : w # "revoke" => (Has(p \o q, w) <=> w \in OfClient)
  BY <1>4, <1>5, <1>7, Concatenation
<1>9. CASE HasAuthority(s) /\ c.todo = p \o q /\ c.ok = TRUE
  BY <1>2, <1>8, <1>9 DEF Fresh, Ops
<1>10. QED
  BY <1>2, <1>6, <1>9

LEMMA RevokeFresh ==
  ASSUME NEW s, DirectoryInv(s), NEW c \in Revoke(s)
  PROVE  Fresh(s, c)
<1>1. PICK r \in s.registry : c = Command("revoke", <<Revocation(r.serial)>>, TRUE)
  BY DEF Revoke
<1> DEFINE x == Revocation(r.serial)
<1>2. x \in Steps /\ x.what = "revoke"
  BY DEF DirectoryInv, IsDirectory, Directories, Records, Revocation, Steps
<1>3. c.op = "revoke" /\ c.todo = <<x>> /\ c.ok = TRUE
  BY <1>1 DEF Command
<1> HIDE DEF x
<1>4. /\ c.todo \in Seq(Steps) /\ DOMAIN c.todo = {1} /\ c.todo[1] = x
  BY <1>2, <1>3
<1>5. /\ Ordered(c.todo) /\ ForProfile(c.todo, 0)
      /\ \A w : Has(c.todo, w) => w = "revoke"
  BY <1>2, <1>4 DEF Ordered, ForProfile, Has, OfClient
<1>6. HasAuthority(s)
  BY DEF DirectoryInv
<1>7. QED
  BY <1>3, <1>4, <1>5, <1>6 DEF Fresh, Ops

LEMMA RemoveFresh ==
  ASSUME NEW s, DirectoryInv(s), NEW i \in Identities,
         NEW c \in RemoveIdentity(s, i), c.todo # <<>>
  PROVE  Fresh(s, c)
<1>1. c.op = "remove" /\ c.todo = RevokeAll(Active(s, i)) /\ c.ok = TRUE
  BY DEF RemoveIdentity, Command
<1>2. Active(s, i) \subseteq s.registry
  BY DEF Active
<1>3. c.op \in {"renew", "revoke", "remove"} /\ c.ok \in BOOLEAN
  BY <1>1
<1>4. QED
  BY <1>1, <1>2, <1>3, RevocationsFresh

LEMMA CommandsFresh ==
  ASSUME DirectoryInv(sec), NEW c \in Commands, c.todo # <<>>
  PROVE  Fresh(sec, c)
<1>1. \A o \in RenewalTargets : /\ o.identity \in Identities
                                /\ o.device \in Devices /\ o.profile \in Profiles
  BY DEF RenewalTargets, Options, DirectoryInv, IsDirectory, Directories, Records
<1>2. \A o \in Options : /\ o \in RenewalTargets
  BY DEF RenewalTargets
<1>3. CASE c \in ServerCommands
  <2>1. \/ c \in Initialize(sec) \/ c \in Reissue(sec)
        \/ c \in Rotate(sec, TRUE) \/ c \in Rotate(sec, FALSE)
    BY <1>3 DEF ServerCommands
  <2>2. IsDirectory(sec)
    BY DEF DirectoryInv
  <2>3. QED
    BY <2>1, <2>2, InitializeFresh, ReissueFresh, RotateFresh
<1>4. ASSUME c \in UNION {IssueWith(o) : o \in Options} PROVE Fresh(sec, c)
  <2>1. PICK S \in {IssueWith(o) : o \in Options} : c \in S
    BY <1>4
  <2>2. PICK o \in Options : S = IssueWith(o)
    BY <2>1
  <2>3. c \in Issue(sec, o.identity, o.device, o.profile)
    BY <2>1, <2>2 DEF IssueWith
  <2>4. QED
    BY <1>1, <1>2, <2>3, IssueFresh
<1>5. ASSUME NEW T \in {Options, RenewalTargets},
             c \in UNION {RenewWith(o, valid) : o \in T, valid \in BOOLEAN}
      PROVE  Fresh(sec, c)
  <2>1. PICK S \in {RenewWith(o, valid) : o \in T, valid \in BOOLEAN} : c \in S
    BY <1>5
  <2>2. PICK o \in T, valid \in BOOLEAN : S = RenewWith(o, valid)
    BY <2>1
  <2>3. c \in Renew(sec, o.identity, o.device, o.profile, valid)
    BY <2>1, <2>2 DEF RenewWith
  <2>4. /\ o.identity \in Identities /\ o.device \in Devices
        /\ o.profile \in Profiles
    BY <1>1, <1>2
  <2>5. QED
    BY <2>3, <2>4, RenewFresh
<1>6. CASE c \in IdentityCommands
  <2>1. CASE c \in UNION {RemoveIdentity(sec, i) : i \in Identities}
    <3>1. PICK S \in {RemoveIdentity(sec, i) : i \in Identities} : c \in S
      BY <2>1
    <3>2. PICK i \in Identities : S = RemoveIdentity(sec, i)
      BY <3>1
    <3>3. QED
      BY <3>1, <3>2, RemoveFresh
  <2>2. QED
    <3> DEFINE I == UNION {IssueWith(o) : o \in Options}
               R == UNION {RenewWith(o, valid) :
                             o \in Options, valid \in BOOLEAN}
               X == UNION {RemoveIdentity(sec, i) : i \in Identities}
    <3>1. IdentityCommands = I \cup R \cup X
      BY DEF IdentityCommands
    <3> HIDE DEF I, R, X
    <3>2. c \in I \/ c \in R \/ c \in X
      BY <1>6, <3>1
    <3>3. QED
      BY <1>4, <1>5, <2>1, <3>2 DEF I, R, X
<1>7. CASE c \in CertificateCommands
  <2> DEFINE I == UNION {IssueWith(o) : o \in Options}
             R == UNION {RenewWith(o, valid) :
                           o \in RenewalTargets, valid \in BOOLEAN}
  <2>1. CertificateCommands = I \cup R \cup Revoke(sec)
    BY DEF CertificateCommands
  <2> HIDE DEF I, R
  <2>2. c \in I \/ c \in R \/ c \in Revoke(sec)
    BY <1>7, <2>1
  <2>3. QED
    BY <1>4, <1>5, <2>2, RevokeFresh DEF I, R
<1>8. QED
  BY <1>3, <1>6, <1>7 DEF Commands

(* A command that stops, or is refused at its end.                         *)
LEMMA StopKeeps ==
  ASSUME NEW s, NEW c, NEW done, NEW late, NEW t, NEW u,
         Working(s, c, done, late, t), TlsInv(s, u)
  PROVE  AtRest(s, NoCommand, done, late \cup LeftHalfWay(c), u)
<1> DEFINE after == late \cup LeftHalfWay(c)
<1>1. /\ "profiles" \notin after => c.op # "rotate" /\ "profiles" \notin late
      /\ "server" \notin after => /\ "server" \notin late
                                  /\ ~Has(c.todo, "server_key")
  BY DEF LeftHalfWay, Has
<1> HIDE DEF after
<1>2. /\ DirectoryInv(s) /\ done \subseteq Profiles
      /\ BundleInv(s, c, late) /\ ServerInv(s, c, late)
      /\ ReadyInv(s, c, done, late)
  BY DEF Working, AtRest
<1>3. NoCommand.op = "none" /\ \A w : ~Has(NoCommand.todo, w)
  BY DEF NoCommand, Has
<1>4. BundleInv(s, NoCommand, after)
  BY <1>1, <1>2, <1>3 DEF BundleInv
<1>5. ServerInv(s, NoCommand, after)
  BY <1>1, <1>2, <1>3 DEF ServerInv, ForServer
<1>6. ReadyInv(s, NoCommand, done, after)
  BY <1>1, <1>2, <1>3 DEF ReadyInv
<1>7. QED
  BY <1>2, <1>4, <1>5, <1>6 DEF AtRest, after

(* A command that succeeds.                                                *)
LEMMA EndKeeps ==
  ASSUME NEW s, NEW c, NEW done, NEW late, NEW t,
         Working(s, c, done, late, t), c.todo = <<>>, c.ok
  PROVE  AtRest(s, NoCommand, done \cup c.issues, late \ Repaired(c), t)
<1> DEFINE after == late \ Repaired(c)
<1>1. /\ ShapeInv(c) /\ DirectoryInv(s) /\ TlsInv(s, t)
      /\ done \subseteq Profiles /\ BundleInv(s, c, late)
      /\ ServerInv(s, c, late) /\ ReadyInv(s, c, done, late)
      /\ AuthorityInv(s, c) /\ IssueInv(s, c, done)
  BY DEF Working, AtRest, AtWork
<1>2. NoCommand.op = "none" /\ \A w : ~Has(NoCommand.todo, w)
  BY DEF NoCommand, Has
<1>3. /\ \A w : ~Has(c.todo, w)
      /\ \A d : ~HasRefresh(c.todo, d)
  BY DEF Has, HasRefresh
<1>4. c.issues \subseteq Profiles
  BY <1>1 DEF ShapeInv
<1>5. /\ "profiles" \notin after => c.op = "rotate" \/ "profiles" \notin late
      /\ "server" \notin after => \/ c.op \in {"rotate", "reissue", "init"}
                                  \/ "server" \notin late
  <2>1. /\ "profiles" \in Repaired(c) => c.op = "rotate"
        /\ "server" \in Repaired(c) => c.op \in {"rotate", "reissue", "init"}
    BY DEF Repaired
  <2>2. QED
    BY <2>1
<1> HIDE DEF after
<1>6. c.op = "rotate" => Current(s)
  <2>1. c.op = "rotate" => s.bundle = {s.caCrt} \cup s.archive
    BY <1>1, <1>3 DEF BundleInv, Bundled
  <2>2. QED
    BY <2>1 DEF Current, Trusted
<1>7. BundleInv(s, NoCommand, after)
  BY <1>1, <1>2, <1>5, <1>6 DEF BundleInv
<1>8. ServerInv(s, NoCommand, after)
  BY <1>1, <1>2, <1>3, <1>5 DEF ServerInv, ForServer
<1>9. ReadyInv(s, NoCommand, done \cup c.issues, after)
  <2>1. ASSUME NEW d \in done
        PROVE  /\ d \in Issued(s) /\ s.profile[d].crt # None
               /\ s.profile[d].key = s.profile[d].crt
               /\ "profiles" \notin after => s.profile[d].ca = Trusted(s)
    BY <1>1, <1>3, <1>5 DEF ReadyInv
  <2>2. ASSUME NEW d \in c.issues
        PROVE  /\ d \in Issued(s) /\ s.profile[d].crt # None
               /\ s.profile[d].key = s.profile[d].crt
               /\ s.profile[d].ca = Trusted(s)
    BY <1>1, <1>3 DEF IssueInv
  <2>3. QED
    BY <1>2, <2>1, <2>2 DEF ReadyInv
<1>10. QED
  BY <1>1, <1>4, <1>7, <1>8, <1>9 DEF AtRest, after

LEMMA LoadKeeps ==
  ASSUME NEW s, NEW c, NEW done, NEW late, NEW t, NEW u,
         AtRest(s, c, done, late, t), TlsInv(s, u)
  PROVE  AtRest(s, c, done, late, u)
BY DEF AtRest

LEMMA TlsLoaded ==
  ASSUME NEW p \in Pids, LoadTls(p), DirectoryInv(sec), TlsInv(sec, tls)
  PROVE  TlsInv(sec, tls')
<1> DEFINE v == IF Managed THEN TlsRuntime(sec) ELSE Unmanaged
<1>1. tls' = [tls EXCEPT ![p] = v]
  BY DEF LoadTls
<1>2. v = Unmanaged \/ v.signer \in Authorities(sec)
  BY DEF LoadTls, TlsRuntime, ServerLoads, DirectoryInv
<1> HIDE DEF v
<1>3. QED
  BY <1>1, <1>2 DEF TlsInv

LEMMA TlsGone ==
  ASSUME NEW P, Gone(P), TlsInv(sec, tls)
  PROVE  TlsInv(sec, tls')
<1>1. tls' = [p \in Pids |-> IF p \in P THEN NoTls ELSE tls[p]]
  BY DEF Gone
<1>2. QED
  BY <1>1 DEF TlsInv

LEMMA GoneKeeps ==
  ASSUME CertInv, NEW P, Gone(P)
  PROVE  CertInv'
<1>1. /\ AtRest(sec, command, ready, interrupted, tls)
      /\ IF command.op = "none" THEN command = NoCommand
         ELSE AtWork(sec, command, ready)
  BY DEF CertInv
<1>2. sec' = sec /\ ready' = ready
  BY DEF Gone
<1>3. TlsInv(sec, tls')
  BY <1>1, TlsGone DEF AtRest
<1>4. CASE command.op # "none" /\ command.by \in P
  <2>1. /\ command' = NoCommand
        /\ interrupted' = interrupted \cup LeftHalfWay(command)
    BY <1>4 DEF Gone, Abandon
  <2>2. Working(sec, command, ready, interrupted, tls)
    BY <1>1, <1>4 DEF Working
  <2>3. AtRest(sec, NoCommand, ready, interrupted \cup LeftHalfWay(command), tls')
    BY <1>3, <2>2, StopKeeps
  <2>4. QED
    BY <1>2, <2>1, <2>3 DEF CertInv, NoCommand
<1>5. CASE ~(command.op # "none" /\ command.by \in P)
  <2>1. command' = command /\ interrupted' = interrupted
    BY <1>5 DEF Gone, Abandon
  <2>2. AtRest(sec, command, ready, interrupted, tls')
    BY <1>1, <1>3, LoadKeeps
  <2>3. QED
    BY <1>1, <1>2, <2>1, <2>2 DEF CertInv
<1>6. QED
  BY <1>4, <1>5

LEMMA BeginKeepsCert ==
  ASSUME CertInv, NEW p \in Pids, BeginCommand(p)
  PROVE  CertInv'
<1>1. command = NoCommand /\ AtRest(sec, NoCommand, ready, interrupted, tls)
  BY DEF CertInv, BeginCommand
<1>2. PICK c \in Commands :
        /\ c.todo # <<>>
        /\ command' = [op |-> c.op, todo |-> c.todo, ok |-> c.ok, by |-> p,
                       issues |-> Overwritten(c)]
        /\ ready' = ready \ Overwritten(c)
  BY DEF BeginCommand
<1>3. sec' = sec /\ interrupted' = interrupted /\ tls' = tls
  BY DEF BeginCommand
<1>4. Fresh(sec, c)
  BY <1>1, <1>2, CommandsFresh DEF AtRest
<1>5. Working(sec, command', ready \ Overwritten(c), interrupted, tls)
  BY <1>1, <1>2, <1>4, BeginKeeps
<1>6. command'.op # "none"
  BY <1>2, <1>4 DEF Fresh, Ops
<1>7. QED
  BY <1>2, <1>3, <1>5, <1>6 DEF CertInv, Working

LEMMA WriteKeepsCert ==
  ASSUME CertInv, NEW p \in Pids, WriteFile(p)
  PROVE  CertInv'
<1>1. Working(sec, command, ready, interrupted, tls)
  BY DEF CertInv, WriteFile, Working
<1>2. Wrote(sec, sec', command, command')
  BY DEF WriteFile, Wrote
<1>3. ready' = ready /\ interrupted' = interrupted /\ tls' = tls
  BY DEF WriteFile
<1>4. Working(sec', command', ready, interrupted, tls)
  BY <1>1, <1>2, WriteKeeps
<1>5. command'.op # "none"
  <2>1. command'.op = command.op
    BY <1>1, <1>2, NextFacts DEF Working, AtWork
  <2>2. QED
    BY <2>1 DEF WriteFile
<1>6. QED
  BY <1>3, <1>4, <1>5 DEF CertInv, Working

LEMMA EndKeepsCert ==
  ASSUME CertInv, NEW p \in Pids, EndCommand(p)
  PROVE  CertInv'
<1>1. Working(sec, command, ready, interrupted, tls) /\ command.todo = <<>>
  BY DEF CertInv, EndCommand, Working
<1>2. sec' = sec /\ tls' = tls /\ command' = NoCommand
  BY DEF EndCommand
<1>3. CASE command.ok
  <2>1. /\ ready' = ready \cup command.issues
        /\ interrupted' = interrupted \ Repaired(command)
    BY <1>3 DEF EndCommand
  <2>2. AtRest(sec, NoCommand, ready \cup command.issues,
               interrupted \ Repaired(command), tls)
    BY <1>1, <1>3, EndKeeps
  <2>3. QED
    BY <1>2, <2>1, <2>2 DEF CertInv, NoCommand
<1>4. CASE ~command.ok
  <2>1. /\ ready' = ready
        /\ interrupted' = interrupted \cup LeftHalfWay(command)
    BY <1>4 DEF EndCommand
  <2>2. TlsInv(sec, tls)
    BY <1>1 DEF Working, AtRest
  <2>3. AtRest(sec, NoCommand, ready, interrupted \cup LeftHalfWay(command), tls)
    BY <1>1, <2>2, StopKeeps
  <2>4. QED
    BY <1>2, <2>1, <2>3 DEF CertInv, NoCommand
<1>5. QED
  BY <1>3, <1>4

LEMMA CertSame ==
  ASSUME CertInv, UNCHANGED <<tls, sec, command, ready, interrupted>>
  PROVE  CertInv'
<1>1. /\ tls' = tls /\ sec' = sec /\ command' = command /\ ready' = ready
      /\ interrupted' = interrupted
  OBVIOUS
<1>2. QED
  BY <1>1 DEF CertInv

LEMMA CertStep ==
  ASSUME CertInv, [Next]_vars
  PROVE  CertInv'
<1>1. ASSUME NEW p \in Pids, StartProcess(p) PROVE CertInv'
  BY <1>1, CertSame DEF StartProcess, secVars
<1>2. ASSUME NEW p \in Pids, LoadTls(p) PROVE CertInv'
  <2>1. /\ AtRest(sec, command, ready, interrupted, tls)
        /\ IF command.op = "none" THEN command = NoCommand
           ELSE AtWork(sec, command, ready)
    BY DEF CertInv
  <2>2. TlsInv(sec, tls')
    BY <1>2, <2>1, TlsLoaded DEF AtRest
  <2>3. AtRest(sec, command, ready, interrupted, tls')
    BY <2>1, <2>2, LoadKeeps
  <2>4. /\ sec' = sec /\ command' = command /\ ready' = ready
        /\ interrupted' = interrupted
    BY <1>2 DEF LoadTls, secVars
  <2>5. QED
    BY <2>1, <2>3, <2>4 DEF CertInv
<1>3. ASSUME NEW p \in Pids, AskForLock(p) \/ AcquireLock(p) \/ ReleaseLock(p)
      PROVE  CertInv'
  BY <1>3, CertSame DEF AskForLock, AcquireLock, ReleaseLock, secVars
<1>4. ASSUME NEW p \in Pids, EndProcess(p) PROVE CertInv'
  BY <1>4, GoneKeeps DEF EndProcess
<1>5. ASSUME NEW p \in Pids, NEW h \in Handlers,
             \/ TruncateRegistry(p, h) \/ WriteRegistry(p, h)
             \/ \E c \in Changes : ReadRegistry(p, h, c)
      PROVE  CertInv'
  BY <1>5, CertSame DEF TruncateRegistry, WriteRegistry, ReadRegistry, secVars
<1>6. CASE RebootAll
  BY <1>6, GoneKeeps DEF RebootAll
<1>7. CASE AgeMarker
  BY <1>7, CertSame DEF AgeMarker, secVars
<1>8. CASE UNCHANGED vars
  BY <1>8, CertSame DEF vars
<1>9. QED
  BY <1>1, <1>2, <1>3, <1>4, <1>5, <1>6, <1>7, <1>8, BeginKeepsCert,
     WriteKeepsCert, EndKeepsCert DEF Next

LEMMA EmptyIsDirectory ==
  /\ IsDirectory(EmptyDirectory)
  /\ EmptyDirectory.caCrt = 0 /\ EmptyDirectory.caKey = 0
  /\ EmptyDirectory.archive = {} /\ EmptyDirectory.bundle = {}
  /\ EmptyDirectory.serverCrt.key = 0 /\ EmptyDirectory.serverKey = 0
  /\ EmptyDirectory.registry = {} /\ EmptyDirectory.cas = 0
  /\ EmptyDirectory.serials = 0
  /\ \A d \in Profiles : EmptyDirectory.profile[d].crt = 0
<1>1. NoProfile \in Certificates
  BY DEF NoProfile, Certificates, None
<1>2. EmptyDirectory \in Directories
  BY <1>1 DEF EmptyDirectory, Directories, None
<1>3. IsFiniteSet({})
  BY FS_EmptySet
<1>4. QED
  BY <1>2, <1>3 DEF IsDirectory, EmptyDirectory, None, NoProfile

LEMMA InitializedIs ==
  LET s == Initialized
  IN /\ IsDirectory(s)
     /\ s.caCrt = 1 /\ s.caKey = 1 /\ s.archive = {} /\ s.bundle = {1}
     /\ s.serverCrt.key = 1 /\ s.serverCrt.signer = 1 /\ s.serverKey = 1
     /\ s.registry = {} /\ s.cas = 1
     /\ \A d \in Profiles : s.profile[d].crt = 0
<1> DEFINE e == EmptyDirectory
           s1 == Written(e, Step("ca_certificate"))
           s2 == Written(s1, Step("ca_key"))
           s3 == Written(s2, Step("bundle"))
           s4 == Written(s3, Step("server_certificate"))
           s5 == Written(s4, Step("server_key"))
<1>1. Initialized = s5
  BY DEF Initialized
<1>2. \A w : Step(w).what = w
  BY DEF Step
<1>3. IsDirectory(s1) /\ Same(e, s1, {"caCrt", "cas"}) /\ s1.caCrt = 1 /\ s1.cas = 1
  BY <1>2, EmptyIsDirectory, CaCertificateWritten
<1> HIDE DEF s1
<1>4. IsDirectory(s2) /\ Same(s1, s2, {"caKey"}) /\ s2.caKey = s1.cas
  BY <1>2, <1>3, CaKeyWritten
<1> HIDE DEF s2
<1>5. /\ IsDirectory(s3) /\ Same(s2, s3, {"bundle"})
      /\ s3.bundle = {s2.caCrt} \cup s2.archive
  BY <1>2, <1>4, BundleWritten
<1> HIDE DEF s3
<1>6. /\ IsDirectory(s4) /\ Same(s3, s4, {"serverCrt", "serials"})
      /\ s4.serverCrt = [signer |-> s3.caKey, key |-> s3.serials + 1]
  BY <1>2, <1>5, ServerCertificateWritten
<1> HIDE DEF s4
<1>7. /\ IsDirectory(s5) /\ Same(s4, s5, {"serverKey"})
      /\ s5.serverKey = s4.serverCrt.key
  BY <1>2, <1>6, ServerKeyWritten
<1> HIDE DEF s5
<1>8. /\ s1.caCrt = 1 /\ s1.cas = 1 /\ s1.archive = {} /\ s1.registry = {}
      /\ s1.serials = 0 /\ s1.profile = e.profile
  BY <1>3, EmptyIsDirectory DEF Same
<1>9. /\ s2.caCrt = 1 /\ s2.cas = 1 /\ s2.archive = {} /\ s2.registry = {}
      /\ s2.serials = 0 /\ s2.profile = e.profile /\ s2.caKey = 1
  BY <1>4, <1>8 DEF Same
<1>10. /\ s3.caCrt = 1 /\ s3.cas = 1 /\ s3.archive = {} /\ s3.registry = {}
       /\ s3.serials = 0 /\ s3.profile = e.profile /\ s3.caKey = 1
       /\ s3.bundle = {1}
  BY <1>5, <1>9 DEF Same
<1>11. /\ s4.caCrt = 1 /\ s4.cas = 1 /\ s4.archive = {} /\ s4.registry = {}
       /\ s4.profile = e.profile /\ s4.caKey = 1 /\ s4.bundle = {1}
       /\ s4.serverCrt.key = 1 /\ s4.serverCrt.signer = 1
  BY <1>6, <1>10 DEF Same
<1>12. /\ s5.caCrt = 1 /\ s5.cas = 1 /\ s5.archive = {} /\ s5.registry = {}
       /\ s5.profile = e.profile /\ s5.caKey = 1 /\ s5.bundle = {1}
       /\ s5.serverCrt.key = 1 /\ s5.serverCrt.signer = 1
       /\ s5.serverKey = 1
  BY <1>7, <1>11 DEF Same
<1>13. QED
  BY <1>1, <1>7, <1>12, EmptyIsDirectory

LEMMA CertInit == Init => CertInv
<1> SUFFICES ASSUME Init PROVE CertInv
  OBVIOUS
<1>1. /\ command = NoCommand /\ ready = {} /\ interrupted = {}
      /\ tls = [p \in Pids |-> NoTls]
      /\ sec = Initialized \/ sec = EmptyDirectory
  BY DEF Init
<1>2. NoCommand.op = "none" /\ \A w : ~Has(NoCommand.todo, w)
  BY DEF NoCommand, Has
<1>3. \A s : TlsInv(s, tls)
  BY <1>1 DEF TlsInv
<1>4. CASE sec = EmptyDirectory
  <2>1. DirectoryInv(sec) /\ Current(sec) /\ ~HasAuthority(sec)
    BY <1>4, EmptyIsDirectory
       DEF DirectoryInv, Authorities, None, Current, Trusted, HasAuthority
  <2>2. BundleInv(sec, command, interrupted) /\ ServerInv(sec, command, interrupted)
        /\ ReadyInv(sec, command, ready, interrupted)
    BY <1>1, <1>2, <2>1 DEF BundleInv, ServerInv, ReadyInv, ForServer
  <2>3. QED
    BY <1>1, <1>2, <1>3, <2>1, <2>2 DEF CertInv, AtRest
<1>5. CASE sec = Initialized
  <2>1. DirectoryInv(sec) /\ Current(sec) /\ ServerPair(sec)
    BY <1>5, InitializedIs
       DEF DirectoryInv, Authorities, None, Current, Trusted, HasAuthority,
           ServerPair
  <2>2. BundleInv(sec, command, interrupted) /\ ServerInv(sec, command, interrupted)
        /\ ReadyInv(sec, command, ready, interrupted)
    BY <1>1, <1>2, <2>1 DEF BundleInv, ServerInv, ReadyInv, ForServer
  <2>3. QED
    BY <1>1, <1>2, <1>3, <2>1, <2>2 DEF CertInv, AtRest
<1>6. QED
  BY <1>1, <1>4, <1>5

(* Between commands, when no rotation is half way, a server that starts    *)
(* loads its certificate, and it and every client whose profile was issued *)
(* and not revoked accept each other, servers started before a rotation    *)
(* included: whatever commands ran, in what order, and where each stopped. *)
THEOREM IssuedProfilesConnect == Spec => []ProfilesConnect
<1>1. CertInv => ProfilesConnect
  <2> SUFFICES ASSUME CertInv, command = NoCommand, interrupted = {},
                      HasAuthority(sec)
               PROVE  /\ ServerLoads(sec)
                      /\ \A d \in ready :
                           /\ Handshake(sec.profile[d], TlsRuntime(sec))
                           /\ \A p \in Pids : tls[p] \notin {NoTls, Unmanaged} =>
                                tls[p].signer \in sec.profile[d].ca
    BY DEF ProfilesConnect
  <2>1. /\ DirectoryInv(sec) /\ TlsInv(sec, tls) /\ ready \subseteq Profiles
        /\ BundleInv(sec, NoCommand, {}) /\ ServerInv(sec, NoCommand, {})
        /\ ReadyInv(sec, NoCommand, ready, {})
    BY DEF CertInv, AtRest
  <2>2. NoCommand.op = "none" /\ \A w : ~Has(NoCommand.todo, w)
    BY DEF NoCommand, Has
  <2>3. /\ ServerPair(sec) /\ sec.caCrt # None
        /\ Trusted(sec) = {sec.caCrt} \cup sec.archive
    BY <2>1, <2>2 DEF BundleInv, ServerInv, Current, HasAuthority
  <2>4. Authorities(sec) \subseteq Trusted(sec) /\ Trusted(sec) # {None}
    BY <2>3 DEF Authorities
  <2>5. ServerLoads(sec) /\ sec.serverCrt.signer \in Trusted(sec)
    BY <2>1, <2>3, <2>4 DEF ServerLoads, ServerPair, DirectoryInv
  <2>6. ASSUME NEW d \in ready
        PROVE  /\ sec.profile[d].crt # None
               /\ sec.profile[d].key = sec.profile[d].crt
               /\ sec.profile[d].ca = Trusted(sec)
               /\ sec.profile[d].signer \in Trusted(sec)
    BY <2>1, <2>2, <2>4 DEF ReadyInv, DirectoryInv
  <2>7. \A p \in Pids : tls[p] \notin {NoTls, Unmanaged} =>
          tls[p].signer \in Trusted(sec)
    BY <2>1, <2>4 DEF TlsInv
  <2>8. QED
    BY <2>5, <2>6, <2>7 DEF Handshake, TlsRuntime
<1>2. QED
  BY <1>1, CertInit, CertStep, PTL DEF Spec
================================================================================
