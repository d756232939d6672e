---------------------------- MODULE StorageLock ----------------------------
(* The lock file of a storage root, and the processes that take it: servers *)
(* for as long as they serve, administrators for one change of the users.    *)
(*                                                                           *)
(* Creating the file, writing who made it, judging a file found there and    *)
(* removing it are separate system calls on a path.  A process is a pid, the *)
(* boot it runs in and the ticks of its start; another program may be given  *)
(* the pid of one that died.  On systems other than Linux nothing is ever    *)
(* reclaimed; this is the Linux build.                                       *)
EXTENDS Naturals, FiniteSets

CONSTANTS
    Pids, MaxStarts, MaxBoots

VARIABLES
    boot,           \* boots of the machine so far
    ticks,          \* pid -> start ticks of the last process that had it
    life,           \* pid -> the process that has it, or NoProcess
    lock,           \* pid -> where its acquisition is
    marker,         \* the lock file, or NoMarker
    exposed,        \* a running process lost its file to one of two windows
    starts

lockVars == <<boot, ticks, life, lock, marker, exposed, starts>>

\* A process is a "server", an "admin", a certificate "tool" or any "other".
NoProcess == [kind |-> "none", ticks |-> 0]
NoMarker == [by |-> <<>>]
Identity(p) == <<p, boot, life[p].ticks>>
Running(id) == id # <<>> /\ id[2] = boot /\ life[id[1]].ticks = id[3]

Asking == [phase |-> "ask"]
Waiting == [phase |-> "none"]

\* How much of the owner's lines a reader finds: nothing, the kind of the
\* owner, its pid as well (all that older versions wrote), or its boot and
\* ticks too.  "aged" is a file two seconds old.
Marker(p, told) ==
  [by |-> Identity(p), owner |-> life[p].kind, told |-> told, aged |-> FALSE]
LegacyMarker(pid) ==
  [by |-> <<pid, 0, 0>>, owner |-> "server", told |-> "pid", aged |-> TRUE]

CmdlineMatchesOwner(pid) == life[pid].kind = "server"
LegacyServerMarkerReclaimable(m, p) ==
  /\ life[p].kind = "server" /\ m.owner = "server"
  /\ m.by[1] = p \/ ~CmdlineMatchesOwner(m.by[1])

BugShouldReclaim(m, p) == m.by[1] # p  \* does not look whether it is alive
ShouldReclaim(m, p) ==
  IF m.told \in {"pid", "boot"}
  THEN \/ life[m.by[1]] = NoProcess
       \/ IF m.told = "boot"
          THEN m.by[2] # boot \/ life[m.by[1]].ticks # m.by[3]
          ELSE LegacyServerMarkerReclaimable(m, p)
  ELSE /\ life[p].kind = "server"
       /\ m.told = "nothing" \/ m.owner = "server"
       /\ m.aged

-----------------------------------------------------------------------------
LockInit ==
  /\ boot = 1 /\ starts = 0 /\ exposed = FALSE
  /\ ticks = [p \in Pids |-> 0]
  /\ life = [p \in Pids |-> NoProcess]
  /\ lock = [p \in Pids |-> Waiting]
  /\ marker \in {NoMarker} \cup {LegacyMarker(p) : p \in Pids}

Start(p, kind) ==
  /\ life[p] = NoProcess /\ starts < MaxStarts
  /\ starts' = starts + 1
  /\ ticks' = [ticks EXCEPT ![p] = @ + 1]
  /\ life' = [life EXCEPT ![p] = [kind |-> kind, ticks |-> ticks[p] + 1]]
  /\ lock' = [lock EXCEPT ![p] = Waiting]
  /\ UNCHANGED <<boot, marker, exposed>>

\* A process that ends without its guard's drop leaves the file.
End(p) ==
  /\ life' = [life EXCEPT ![p] = NoProcess]
  /\ lock' = [lock EXCEPT ![p] = Waiting]
  /\ UNCHANGED <<boot, ticks, marker, exposed, starts>>

\* After a reboot the ticks start again: a pid and its ticks may come back.
Reboot ==
  /\ boot < MaxBoots
  /\ boot' = boot + 1
  /\ ticks' = [p \in Pids |-> 0]
  /\ life' = [p \in Pids |-> NoProcess]
  /\ lock' = [p \in Pids |-> Waiting]
  /\ UNCHANGED <<marker, exposed, starts>>

To(p, phase) == lock' = [lock EXCEPT ![p] = [phase |-> phase]]
Ask(p) == lock[p] = Waiting /\ To(p, "ask")

\* create_new: only one process makes the file.
CreateMarker(p) ==
  /\ lock[p].phase = "ask"
  /\ IF marker = NoMarker
     THEN marker' = Marker(p, "nothing") /\ To(p, "nothing")
     ELSE UNCHANGED marker /\ To(p, "judge")
  /\ UNCHANGED <<boot, ticks, life, exposed, starts>>

Unlink(p) == marker' = NoMarker

Told == [nothing |-> "owner", owner |-> "pid", pid |-> "boot"]

\* The lines go to the file that was made, whatever is at the path by now; an
\* error removes what is at the path.
WriteLockOwner(p) ==
  /\ lock[p].phase \in DOMAIN Told
  /\ \/ LET told == Told[lock[p].phase]
        IN /\ To(p, IF told = "boot" THEN "held" ELSE told)
           /\ marker' = IF marker.by = Identity(p)
                        THEN [marker EXCEPT !.told = told] ELSE marker
     \/ Unlink(p) /\ To(p, "refused")
  /\ UNCHANGED <<boot, ticks, life, exposed, starts>>

\* A file gone by now refuses the request as well.
JudgeMarker(p) ==
  /\ lock[p].phase = "judge"
  /\ IF marker # NoMarker /\ ShouldReclaim(marker, p)
     THEN lock' = [lock EXCEPT ![p] = [phase |-> "remove",
                                       judged |-> marker.by,
                                       told |-> marker.told]]
     ELSE To(p, "refused")
  /\ UNCHANGED <<boot, ticks, life, marker, exposed, starts>>

\* What is removed is the path, not the file that was judged: a running
\* process loses a file made since, or one it has not yet told its pid.
RemoveStale(p) ==
  /\ lock[p].phase = "remove"
  /\ exposed' = \/ exposed
                 \/ /\ marker # NoMarker /\ Running(marker.by)
                    /\ \/ marker.by # lock[p].judged
                       \/ lock[p].told \notin {"pid", "boot"}
  /\ Unlink(p)
  /\ To(p, "ask")
  /\ UNCHANGED <<boot, ticks, life, starts>>

\* The guard's drop.
Release(p) ==
  /\ Unlink(p)
  /\ lock' = [lock EXCEPT ![p] = [phase |-> "refused"]]

Age ==
  /\ marker # NoMarker /\ ~marker.aged
  /\ marker' = [marker EXCEPT !.aged = TRUE]
  /\ UNCHANGED <<boot, ticks, life, lock, exposed, starts>>

Acquire(p) ==
  CreateMarker(p) \/ WriteLockOwner(p) \/ JudgeMarker(p) \/ RemoveStale(p)

Holders == {p \in Pids : lock[p].phase = "held"}

\* Two processes never hold the lock, across stops, reboots, process ids given
\* again and files of older versions (storage_lock.rs), but for two windows:
\* a second process removes the path it judged before the first had removed
\* the stale file and made its own, and a process stops for two seconds
\* between making the file and writing its pid.
OneHolder == exposed \/ Cardinality(Holders) <= 1
=============================================================================
