----------------------- MODULE ServerConnections_proofs -----------------------
(***************************************************************************)
(* Proofs about ServerConnections: its types, the count of every pool, the *)
(* end of an idle listener and the answers of the calls, for any number of *)
(* listeners, clients, threads, calls and faults.                          *)
(***************************************************************************)
EXTENDS ServerConnections, FiniteSetTheorems, TLAPS

---------------------------------------------------------------------------
(* The invariants.                                                         *)

(* What is behind the counts: a permit is taken before a connection is     *)
(* accepted, and a connection is accepted once.                            *)
PoolInv ==
  /\ \A c \in Clients : link[c] \in {"unopened", "backlog"} => handler[c] = "none"
  /\ \A c \in Clients : ~running => handler[c] = "none"
  /\ \A l \in Listeners : (~running \/ ~Limited(l)) => active[l] = 0
  /\ \A l \in Listeners : listening[l] # "ok" => idlePolls[l] < PollLimit
  /\ PermitsMatchHandlers
  /\ IdleEndServesNobody

(* A thread holds a client's stream exactly while it waits for its answer. *)
HeldByReader ==
  /\ \A c \in Clients : mutex[c] # Free =>
       /\ call[mutex[c]] # <<>>
       /\ call[mutex[c]].client = c
       /\ call[mutex[c]].at = "read"
  /\ \A t \in Threads : (call[t] # <<>> /\ call[t].at = "read") =>
       mutex[call[t].client] = t

(* A stream carries one frame or answer at a time, in one of three places. *)
Quiet(c) == inbox[c] = <<>> /\ reply[c] = <<>> /\ outbox[c] = <<>>
OneInFlight ==
  \A c \in Clients :
    /\ inbox[c] # <<>> => reply[c] = <<>> /\ outbox[c] = <<>>
    /\ reply[c] # <<>> => outbox[c] = <<>>
    /\ reply[c] # <<>> <=> handler[c] \in {"execute", "write"}
    /\ mutex[c] = Free /\ link[c] # "cut" => Quiet(c)

(* What is in flight belongs to the call of the thread that waits for it,  *)
(* and says "result" only of a command that was executed.                  *)
Earned(a) == a.as = "result" => a.id \in executed
InFlightIsOfHolder ==
  \A c \in Clients :
    /\ mutex[c] # Free =>
         /\ inbox[c] # <<>> => inbox[c][1].id = call[mutex[c]].id
         /\ reply[c] # <<>> => reply[c].id = call[mutex[c]].id
         /\ outbox[c] # <<>> => outbox[c][1].id = call[mutex[c]].id
    /\ reply[c] # <<>> => Earned(reply[c])
    /\ outbox[c] # <<>> => Earned(outbox[c][1])

StreamInv ==
  /\ HeldByReader
  /\ OneInFlight
  /\ InFlightIsOfHolder
  /\ AnswersTheirCall

Inv == TypeOK /\ PoolInv /\ StreamInv

---------------------------------------------------------------------------
(* Frames, answers and calls are records, never the empty sequence.        *)

LEMMA AnswerIsRecord ==
  /\ \A a \in Answer : a # <<>>
  /\ \A a \in Call : a # <<>>
<1>1. ASSUME NEW a \in Answer
      PROVE  a # <<>>
  <2>1. DOMAIN a = {"id", "as"}
    BY DEF Answer
  <2>2. DOMAIN <<>> = {}
    OBVIOUS
  <2>3. QED
    BY <2>1, <2>2
<1>2. ASSUME NEW a \in Call
      PROVE  a # <<>>
  <2>1. DOMAIN a = {"client", "id", "kind", "at"}
    BY DEF Call
  <2>2. DOMAIN <<>> = {}
    OBVIOUS
  <2>3. QED
    BY <2>1, <2>2
<1>3. QED
  BY <1>1, <1>2

LEMMA OneElement ==
  ASSUME NEW x
  PROVE  /\ <<x>> # <<>> /\ Head(<<x>>) = x /\ Tail(<<x>>) = <<>>
         /\ <<x>>[1] = x /\ Append(<<>>, x) = <<x>>
OBVIOUS

LEMMA FrameArrived ==
  ASSUME TypeOK, NEW c \in Clients, inbox[c] # <<>>
  PROVE  /\ Head(inbox[c]) \in Frame /\ Tail(inbox[c]) = <<>>
         /\ Head(inbox[c]) = inbox[c][1]
<1>1. PICK f \in Frame : inbox[c] = <<f>>
  BY DEF TypeOK
<1>2. QED
  BY <1>1

LEMMA AnswerArrived ==
  ASSUME TypeOK, NEW c \in Clients, outbox[c] # <<>>
  PROVE  /\ Head(outbox[c]) \in Answer /\ Tail(outbox[c]) = <<>>
         /\ Head(outbox[c]) = outbox[c][1]
<1>1. PICK a \in Answer : outbox[c] = <<a>>
  BY DEF TypeOK
<1>2. QED
  BY <1>1

---------------------------------------------------------------------------
(* The pool.                                                               *)

LEMMA HandlersAreFinite ==
  ASSUME NEW l \in Listeners
  PROVE  /\ IsFiniteSet(HandlersOf(l))
         /\ Cardinality(HandlersOf(l)) \in Nat
         /\ Cardinality(Clients) \in Nat
         /\ Cardinality(HandlersOf(l)) <= Cardinality(Clients)
<1>1. HandlersOf(l) \in SUBSET Clients
  BY DEF HandlersOf
<1>2. QED
  BY <1>1, FS_Subset, FS_CardinalityType, ListenersAssumption

LEMMA LimitIsNumber ==
  ASSUME TypeOK, NEW l \in Listeners
  PROVE  limit[l] \in Nat
<1>1. limit \in [Listeners -> Nat]
  BY ListenersAssumption DEF TypeOK
<1>2. QED
  BY <1>1

(* The drop of a permit takes one from a count that is not 0.              *)
LEMMA ReturnedCounts ==
  ASSUME TypeOK, NEW l \in Listeners
  PROVE  /\ Returned(l) \in [Listeners -> Nat]
         /\ \A m \in Listeners : Returned(l)[m] =
              IF m = l /\ Limited(l) /\ active[l] > 0 THEN active[m] - 1 ELSE active[m]
<1>1. active \in [Listeners -> Nat]
  BY DEF TypeOK
<1>2. CASE Limited(l) /\ active[l] > 0
  BY <1>1, <1>2 DEF Returned
<1>3. CASE ~(Limited(l) /\ active[l] > 0)
  BY <1>1, <1>3 DEF Returned
<1>4. QED
  BY <1>2, <1>3

(* Steps that neither begin nor end a handler.                             *)
LEMMA PoolUntouched ==
  ASSUME PoolInv, UNCHANGED <<limit, running, listening, active, idlePolls>>,
         \A c \in Clients : handler'[c] = "none" <=> handler[c] = "none",
         \A c \in Clients : link'[c] \in {"unopened", "backlog"}
                              => link[c] \in {"unopened", "backlog"}
  PROVE  PoolInv'
<1>1. \A l \in Listeners : HandlersOf(l)' = HandlersOf(l)
  BY DEF HandlersOf
<1>2. PermitsMatchHandlers' /\ IdleEndServesNobody'
  BY <1>1 DEF PoolInv, PermitsMatchHandlers, IdleEndServesNobody, Limited
<1>3. QED
  BY <1>2 DEF PoolInv, Limited

(* A handler that ends gives back the one permit it has.                   *)
LEMMA HandlerEndsKeepsPool ==
  ASSUME TypeOK, PoolInv, NEW c \in Clients, handler[c] # "none", HandlerEnds(c)
  PROVE  PoolInv'
<1> DEFINE l == ListenerOf[c]
<1>1. l \in Listeners /\ running
  BY ListenersAssumption DEF PoolInv
<1>2. /\ handler' = [handler EXCEPT ![c] = "none"]
      /\ handler \in [Clients -> {"none", "handshake", "read", "execute", "write"}]
  BY DEF HandlerEnds, TypeOK
<1>3. HandlersOf(l)' = HandlersOf(l) \ {c} /\ c \in HandlersOf(l)
  BY <1>2 DEF HandlersOf
<1>4. \A m \in Listeners \ {l} : HandlersOf(m)' = HandlersOf(m)
  BY <1>2 DEF HandlersOf
<1>5. Cardinality(HandlersOf(l)') = Cardinality(HandlersOf(l)) - 1
  BY <1>1, <1>3, HandlersAreFinite, FS_RemoveElement
<1>6. /\ active' = Returned(l) /\ listening' = Woken(l)
      /\ UNCHANGED <<limit, running, idlePolls>>
  BY DEF HandlerEnds, process
<1>7. \A m \in Listeners : /\ listening'[m] = "accept" <=> listening[m] = "accept"
                           /\ listening'[m] = "ok" <=> listening[m] = "ok"
  BY <1>1, <1>6 DEF Woken, TypeOK
<1>8. \A d \in Clients : link'[d] \in {"unopened", "backlog"}
                           => link[d] \in {"unopened", "backlog"}
  BY DEF HandlerEnds, TypeOK
<1> HIDE DEF l
<1>9. PermitsMatchHandlers'
  <2> SUFFICES ASSUME NEW m \in Listeners, running', Limited(m)'
               PROVE  /\ active'[m] = Cardinality(HandlersOf(m)')
                                      + IF listening'[m] = "accept" THEN 1 ELSE 0
                      /\ active'[m] <= limit'[m]
    BY DEF PermitsMatchHandlers
  <2>1. /\ active[m] = Cardinality(HandlersOf(m))
                       + IF listening[m] = "accept" THEN 1 ELSE 0
        /\ active[m] <= limit[m] /\ Limited(m)
    BY <1>1, <1>6 DEF PoolInv, PermitsMatchHandlers, Limited
  <2>2. limit[m] \in Nat /\ Cardinality(HandlersOf(m)) \in Nat
    BY LimitIsNumber, HandlersAreFinite
  <2>3. CASE m = l
    <3>1. Cardinality(HandlersOf(l)) > 0
      BY <1>3, <1>1, HandlersAreFinite, FS_EmptySet
    <3>2. active[m] > 0
      BY <2>1, <2>2, <2>3, <3>1
    <3>3. active'[m] = active[m] - 1
      BY <1>6, <2>1, <2>3, <3>2, ReturnedCounts
    <3>4. QED
      BY <1>5, <1>6, <1>7, <2>1, <2>2, <2>3, <3>3
  <2>4. CASE m # l
    <3>1. active'[m] = active[m]
      BY <1>1, <1>6, <2>4, ReturnedCounts
    <3>2. QED
      BY <1>4, <1>6, <1>7, <2>1, <2>4, <3>1
  <2>5. QED
    BY <2>3, <2>4
<1>10. IdleEndServesNobody'
  BY <1>3, <1>4, <1>6, <1>7 DEF PoolInv, IdleEndServesNobody, Limited
<1>11. \A m \in Listeners : ~Limited(m)' => active'[m] = 0
  BY <1>1, <1>6, ReturnedCounts DEF PoolInv, Limited
<1>12. QED
  BY <1>1, <1>2, <1>6, <1>7, <1>8, <1>9, <1>10, <1>11 DEF PoolInv, Limited

(* A listener whose permit goes back while nothing else changes, and which *)
(* then ends only if it has served nobody.                                 *)
LEMMA PermitGoesBack ==
  ASSUME TypeOK, PoolInv, NEW l \in Listeners, running, listening[l] = "accept",
         UNCHANGED <<limit, running, handler>>,
         active' = Returned(l),
         NEW to \in {"acquire", "ok", "failed"},
         listening' = [listening EXCEPT ![l] = to],
         to = "ok" => PoolIsIdle(l, Returned(l)),
         \A m \in Listeners : listening'[m] # "ok" => idlePolls'[m] < PollLimit,
         \A d \in Clients : link'[d] \in {"unopened", "backlog"}
                              => link[d] \in {"unopened", "backlog"}
  PROVE  PoolInv'
<1>1. \A m \in Listeners : HandlersOf(m)' = HandlersOf(m)
  BY DEF HandlersOf
<1>2. \A m \in Listeners : active'[m] =
        IF m = l /\ Limited(l) /\ active[l] > 0 THEN active[m] - 1 ELSE active[m]
  BY ReturnedCounts
<1>3. \A m \in Listeners :
        listening'[m] = IF m = l THEN to ELSE listening[m]
  BY DEF TypeOK
<1>4. PermitsMatchHandlers'
  <2> SUFFICES ASSUME NEW m \in Listeners, running', Limited(m)'
               PROVE  /\ active'[m] = Cardinality(HandlersOf(m)')
                                      + IF listening'[m] = "accept" THEN 1 ELSE 0
                      /\ active'[m] <= limit'[m]
    BY DEF PermitsMatchHandlers
  <2>1. /\ active[m] = Cardinality(HandlersOf(m))
                       + IF listening[m] = "accept" THEN 1 ELSE 0
        /\ active[m] <= limit[m] /\ Limited(m)
    BY DEF PoolInv, PermitsMatchHandlers, Limited
  <2>2. limit[m] \in Nat /\ Cardinality(HandlersOf(m)) \in Nat
    BY LimitIsNumber, HandlersAreFinite
  <2>3. QED
    BY <1>1, <1>2, <1>3, <2>1, <2>2
<1>5. IdleEndServesNobody'
  <2> SUFFICES ASSUME NEW m \in Listeners, Limited(m)', listening'[m] = "ok"
               PROVE  HandlersOf(m)' = {}
    BY DEF IdleEndServesNobody
  <2>1. Limited(m)
    BY DEF Limited
  <2>2. CASE m # l
    BY <1>1, <1>3, <2>1, <2>2 DEF PoolInv, IdleEndServesNobody
  <2>3. CASE m = l
    <3>1. active'[m] = 0
      BY <1>3, <2>1, <2>3 DEF PoolIsIdle
    <3>2. active[m] = Cardinality(HandlersOf(m)) + 1
      BY <2>1, <2>3 DEF PoolInv, PermitsMatchHandlers
    <3>3. Cardinality(HandlersOf(m)) = 0
      BY <1>2, <2>1, <2>3, <3>1, <3>2, HandlersAreFinite
    <3>4. QED
      BY <1>1, <3>3, HandlersAreFinite, FS_EmptySet
  <2>4. QED
    BY <2>2, <2>3
<1>6. \A m \in Listeners : ~Limited(m)' => active'[m] = 0
  BY <1>2 DEF PoolInv, Limited
<1>7. QED
  BY <1>4, <1>5, <1>6 DEF PoolInv, Limited

LEMMA ListenersKeepPool ==
  ASSUME TypeOK, PoolInv, NEW l \in Listeners,
         \/ ListenerStep(l) \/ ListenerFails(l) \/ Interrupted(l)
  PROVE  PoolInv'
<1>1. CASE Acquire(l)
  <2>1. \A m \in Listeners : HandlersOf(m)' = HandlersOf(m)
    BY <1>1 DEF Acquire, HandlersOf
  <2>2. \A m \in Listeners :
          listening'[m] = IF m = l THEN IF SlotFree(l) THEN "accept" ELSE "wait"
                          ELSE listening[m]
    BY <1>1 DEF Acquire, Goto, TypeOK
  <2>3. \A m \in Listeners : active[m] \in Nat
    BY DEF TypeOK
  <2>4. \A m \in Listeners :
          active'[m] = IF m = l /\ SlotFree(l) /\ Limited(l)
                       THEN active[m] + 1 ELSE active[m]
    BY <1>1, <2>3 DEF Acquire, Taken, TypeOK
  <2>5. PermitsMatchHandlers'
    <3> SUFFICES ASSUME NEW m \in Listeners, running', Limited(m)'
                 PROVE  /\ active'[m] = Cardinality(HandlersOf(m)')
                                        + IF listening'[m] = "accept" THEN 1 ELSE 0
                        /\ active'[m] <= limit'[m]
      BY DEF PermitsMatchHandlers
    <3>1. /\ active[m] = Cardinality(HandlersOf(m))
                         + IF listening[m] = "accept" THEN 1 ELSE 0
          /\ active[m] <= limit[m] /\ Limited(m) /\ limit'[m] = limit[m]
      BY <1>1 DEF PoolInv, PermitsMatchHandlers, Limited, Acquire, process
    <3>2. limit[m] \in Nat /\ Cardinality(HandlersOf(m)) \in Nat
      BY LimitIsNumber, HandlersAreFinite
    <3>3. SlotFree(m) <=> active[m] < limit[m]
      BY <3>1 DEF SlotFree
    <3>4. listening[l] = "acquire"
      BY <1>1 DEF Acquire
    <3>5. QED
      BY <2>1, <2>2, <2>3, <2>4, <3>1, <3>2, <3>3, <3>4
  <2>6. QED
    BY <1>1, <2>1, <2>2, <2>4, <2>5 DEF PoolInv, Acquire, process, wire, Limited,
       IdleEndServesNobody
<1>2. ASSUME NEW c \in Clients, Accept(l, c)
      PROVE  PoolInv'
  <2>1. ListenerOf[c] = l /\ link[c] = "backlog" /\ running /\ listening[l] = "accept"
    BY <1>2 DEF Accept, Waiting
  <2>2. handler[c] = "none"
    BY <2>1 DEF PoolInv
  <2>3. \A d \in Clients : handler'[d] = "none" <=> handler[d] = "none" /\ d # c
    BY <1>2 DEF Accept, TypeOK
  <2>4. /\ HandlersOf(l)' = HandlersOf(l) \cup {c} /\ c \notin HandlersOf(l)
        /\ \A m \in Listeners \ {l} : HandlersOf(m)' = HandlersOf(m)
    BY <2>1, <2>2, <2>3 DEF HandlersOf
  <2>5. Cardinality(HandlersOf(l)') = Cardinality(HandlersOf(l)) + 1
    BY <2>4, HandlersAreFinite, FS_AddElement
  <2>6. \A m \in Listeners : listening'[m] = IF m = l THEN "acquire" ELSE listening[m]
    BY <1>2 DEF Accept, Goto, TypeOK
  <2>7. \A d \in Clients : link'[d] = IF d = c THEN "open" ELSE link[d]
    BY <1>2 DEF Accept, TypeOK
  <2>8. PermitsMatchHandlers'
    <3> SUFFICES ASSUME NEW m \in Listeners, running', Limited(m)'
                 PROVE  /\ active'[m] = Cardinality(HandlersOf(m)')
                                        + IF listening'[m] = "accept" THEN 1 ELSE 0
                        /\ active'[m] <= limit'[m]
      BY DEF PermitsMatchHandlers
    <3>1. /\ active[m] = Cardinality(HandlersOf(m))
                         + IF listening[m] = "accept" THEN 1 ELSE 0
          /\ active[m] <= limit[m] /\ UNCHANGED <<active, limit>>
      BY <1>2, <2>1 DEF PoolInv, PermitsMatchHandlers, Limited, Accept, process
    <3>2. Cardinality(HandlersOf(m)) \in Nat
      BY HandlersAreFinite
    <3>3. QED
      BY <2>1, <2>4, <2>5, <2>6, <3>1, <3>2
  <2>9. IdleEndServesNobody'
    BY <1>2, <2>4, <2>6 DEF PoolInv, IdleEndServesNobody, Limited, Accept, process
  <2>10. \A m \in Listeners : listening'[m] # "ok" => idlePolls'[m] < PollLimit
    BY <1>2, <2>6, CallsAssumption DEF PoolInv, Accept, TypeOK
  <2>11. QED
    BY <1>2, <2>1, <2>3, <2>7, <2>8, <2>9, <2>10 DEF PoolInv, Accept, process, Limited
<1>3. CASE ListenerFails(l)
  BY <1>3, PermitGoesBack DEF ListenerFails, Ended, Goto, process, PoolInv, TypeOK
<1>4. CASE Interrupted(l)
  BY <1>4, PermitGoesBack DEF Interrupted, Goto, process, wire, PoolInv, TypeOK
<1>5. CASE WouldBlock(l)
  <2> DEFINE polls == IF ListenerIsIdle(l, Returned(l)) THEN idlePolls[l] + 1 ELSE 0
             to == IF polls >= PollLimit THEN "ok" ELSE "acquire"
  <2>1. polls \in Nat
    BY DEF TypeOK
  <2>2. listening' = [listening EXCEPT ![l] = to] /\ to \in {"acquire", "ok", "failed"}
    BY <1>5 DEF WouldBlock, Ended, Goto
  <2>3. to = "ok" => PoolIsIdle(l, Returned(l))
    BY CallsAssumption DEF ListenerIsIdle
  <2>4. \A d \in Clients : link'[d] \in {"unopened", "backlog"}
                             => link[d] \in {"unopened", "backlog"}
    BY <1>5 DEF WouldBlock, Ended
  <2>5. \A m \in Listeners : listening'[m] # "ok" => idlePolls'[m] < PollLimit
    <3>1. \A m \in Listeners : idlePolls'[m] = IF m = l THEN polls ELSE idlePolls[m]
      BY <1>5 DEF WouldBlock, TypeOK
    <3> HIDE DEF polls
    <3>2. \A m \in Listeners : listening'[m] = IF m = l THEN to ELSE listening[m]
      BY <2>2 DEF TypeOK
    <3>3. QED
      BY <2>1, <3>1, <3>2, CallsAssumption DEF PoolInv
  <2> HIDE DEF to, polls
  <2>6. /\ running /\ listening[l] = "accept" /\ active' = Returned(l)
        /\ UNCHANGED <<limit, running, handler>>
    BY <1>5 DEF WouldBlock, process
  <2>7. QED
    BY <2>2, <2>3, <2>4, <2>5, <2>6, PermitGoesBack
<1>6. QED
  BY <1>1, <1>2, <1>3, <1>4, <1>5 DEF ListenerStep

LEMMA RunReturnsKeepsPool ==
  ASSUME TypeOK, PoolInv, RunReturns
  PROVE  PoolInv'
<1>1. /\ running' = FALSE
      /\ \A c \in Clients : handler'[c] = "none"
      /\ \A l \in Listeners : active'[l] = 0
      /\ \A l \in Listeners : listening'[l] = "ok" <=> listening[l] = "ok"
      /\ UNCHANGED <<limit, idlePolls>>
  BY DEF RunReturns
<1>2. \A l \in Listeners : HandlersOf(l)' = {}
  BY <1>1 DEF HandlersOf
<1>3. QED
  BY <1>1, <1>2 DEF PoolInv, PermitsMatchHandlers, IdleEndServesNobody, Limited

LEMMA HandlerChangesKeepPool ==
  ASSUME TypeOK, PoolInv, OneInFlight, NEW c \in Clients,
         HandlerStep(c) \/ EnginePanics(c)
  PROVE  PoolInv'
<1>1. ASSUME handler[c] # "none", HandlerEnds(c)
      PROVE  PoolInv'
  BY <1>1, HandlerEndsKeepsPool
<1>2. CASE Authenticate(c)
  <2>1. CASE c \in Refused
    BY <1>1, <1>2, <2>1 DEF Authenticate
  <2>2. CASE c \notin Refused
    <3>1. UNCHANGED <<limit, running, listening, active, idlePolls, link>>
      BY <1>2, <2>2 DEF Authenticate, process
    <3>2. \A d \in Clients : handler'[d] = "none" <=> handler[d] = "none"
      BY <1>2, <2>2 DEF Authenticate, TypeOK
    <3>3. QED
      BY <3>1, <3>2, PoolUntouched
  <2>3. QED
    BY <2>1, <2>2
<1>3. CASE ReadFrame(c)
  <2>1. CASE HandlerEnds(c)
    BY <1>1, <1>3, <2>1 DEF ReadFrame
  <2>2. CASE ~HandlerEnds(c)
    <3>1. UNCHANGED <<limit, running, listening, active, idlePolls, link>>
      BY <1>3, <2>2 DEF ReadFrame, process
    <3>2. \A d \in Clients : handler'[d] = "none" <=> handler[d] = "none"
      BY <1>3, <2>2 DEF ReadFrame, ToWrite, TypeOK
    <3>3. QED
      BY <3>1, <3>2, PoolUntouched
  <2>3. QED
    BY <2>1, <2>2
<1>4. CASE StreamEnds(c)
  BY <1>1, <1>4 DEF StreamEnds
<1>5. CASE Execute(c)
  <2>1. UNCHANGED <<limit, running, listening, active, idlePolls, link>>
    BY <1>5 DEF Execute, process, wire
  <2>2. \A d \in Clients : handler'[d] = "none" <=> handler[d] = "none"
    BY <1>5 DEF Execute, ToWrite, TypeOK
  <2>3. QED
    BY <2>1, <2>2, PoolUntouched
<1>6. CASE WriteReply(c)
  <2>1. CASE link[c] = "open"
    <3>1. UNCHANGED <<limit, running, listening, active, idlePolls, link>>
      BY <1>6, <2>1 DEF WriteReply, process
    <3>2. \A d \in Clients : handler'[d] = "none" <=> handler[d] = "none"
      BY <1>6, <2>1 DEF WriteReply, TypeOK
    <3>3. QED
      BY <3>1, <3>2, PoolUntouched
  <2>2. CASE link[c] # "open"
    BY <1>1, <1>6, <2>2 DEF WriteReply
  <2>3. QED
    BY <2>1, <2>2
<1>7. CASE EnginePanics(c)
  BY <1>1, <1>7 DEF EnginePanics
<1>8. QED
  BY <1>2, <1>3, <1>4, <1>5, <1>6, <1>7 DEF HandlerStep

LEMMA PoolStep ==
  ASSUME TypeOK, PoolInv, OneInFlight, [Next]_vars
  PROVE  PoolInv'
<1>1. ASSUME NEW l \in Listeners,
             \/ ListenerStep(l) \/ ListenerFails(l) \/ Interrupted(l)
      PROVE  PoolInv'
  BY <1>1, ListenersKeepPool
<1>2. ASSUME NEW c \in Clients, HandlerStep(c) \/ EnginePanics(c)
      PROVE  PoolInv'
  BY <1>2, HandlerChangesKeepPool
<1>3. CASE RunReturns
  BY <1>3, RunReturnsKeepsPool
<1>4. ASSUME NEW c \in Clients, Open(c) \/ Close(c) \/ ConnectionBreaks(c)
      PROVE  PoolInv'
  <2>1. UNCHANGED server
    BY <1>4 DEF Open, Close, ConnectionBreaks
  <2>2. \A d \in Clients : link'[d] \in {"unopened", "backlog"}
                             => link[d] \in {"unopened", "backlog"}
    BY <1>4 DEF Open, Close, ConnectionBreaks, TypeOK
  <2>3. QED
    BY <2>1, <2>2, PoolUntouched DEF server, process
<1>5. CASE UNCHANGED <<server, link>>
  BY <1>5, PoolUntouched DEF server, process
<1>6. ASSUME NEW t \in Threads,
             ThreadStep(t) \/ \E c \in Clients, k \in Kinds : Begin(t, c, k)
      PROVE  PoolInv'
  BY <1>5, <1>6 DEF ThreadStep, Send, Receive, ReceiveFails, Begin, wire
<1>7. CASE UNCHANGED vars
  BY <1>5, <1>7 DEF vars, wire
<1>8. QED
  BY <1>1, <1>2, <1>3, <1>4, <1>6, <1>7 DEF Next, Fault

---------------------------------------------------------------------------
(* The streams.                                                            *)

(* A handler that ends leaves nothing half said.                           *)
LEMMA HandlerEndsKeepsStream ==
  ASSUME TypeOK, StreamInv, NEW c \in Clients, HandlerEnds(c),
         inbox' = inbox \/ (inbox[c] # <<>> /\ inbox' = [inbox EXCEPT ![c] = Tail(@)]),
         UNCHANGED outbox, executed \subseteq executed'
  PROVE  StreamInv'
<1>1. UNCHANGED <<mutex, call, answers, calls>>
  BY DEF HandlerEnds, client
<1>2. \A d \in Clients : reply'[d] = IF d = c THEN <<>> ELSE reply[d]
  BY DEF HandlerEnds, TypeOK
<1>3. \A d \in Clients : handler'[d] = IF d = c THEN "none" ELSE handler[d]
  BY DEF HandlerEnds, TypeOK
<1>4. \A d \in Clients : link'[d] # "cut" => link[d] # "cut"
  BY DEF HandlerEnds, TypeOK
<1>5. \A d \in Clients : inbox'[d] # <<>> => inbox'[d] = inbox[d]
  <2>1. CASE inbox' = inbox
    BY <2>1
  <2>2. CASE inbox[c] # <<>> /\ inbox' = [inbox EXCEPT ![c] = Tail(@)]
    BY <2>2, FrameArrived DEF TypeOK
  <2>3. QED
    BY <2>1, <2>2
<1>6. HeldByReader'
  BY <1>1 DEF StreamInv, HeldByReader
<1>7. OneInFlight'
  BY <1>1, <1>2, <1>3, <1>4, <1>5 DEF StreamInv, OneInFlight, Quiet
<1>8. InFlightIsOfHolder'
  BY <1>1, <1>2, <1>5 DEF StreamInv, InFlightIsOfHolder, Earned
<1>9. AnswersTheirCall'
  BY <1>1 DEF StreamInv, AnswersTheirCall
<1>10. QED
  BY <1>6, <1>7, <1>8, <1>9 DEF StreamInv

(* Steps that move no frame and no answer.                                 *)
LEMMA StreamUntouched ==
  ASSUME StreamInv,
         UNCHANGED <<reply, inbox, outbox, mutex, call, answers, executed>>,
         \A c \in Clients : handler'[c] \in {"execute", "write"}
                              <=> handler[c] \in {"execute", "write"},
         \A c \in Clients : link'[c] # "cut" => link[c] # "cut"
  PROVE  StreamInv'
<1>1. HeldByReader'
  BY DEF StreamInv, HeldByReader
<1>2. OneInFlight'
  BY DEF StreamInv, OneInFlight, Quiet
<1>3. InFlightIsOfHolder'
  BY DEF StreamInv, InFlightIsOfHolder, Earned
<1>4. AnswersTheirCall'
  BY DEF StreamInv, AnswersTheirCall
<1>5. QED
  BY <1>1, <1>2, <1>3, <1>4 DEF StreamInv

(* A handler takes the frame that arrived and owes its call an answer.     *)
LEMMA FrameIsTaken ==
  ASSUME TypeOK, StreamInv, NEW c \in Clients, inbox[c] # <<>>,
         NEW as \in {"pending", "error"}, NEW to \in {"execute", "write"},
         inbox' = [inbox EXCEPT ![c] = Tail(@)],
         handler' = [handler EXCEPT ![c] = to],
         reply' = [reply EXCEPT ![c] = [id |-> Head(inbox[c]).id, as |-> as]],
         UNCHANGED <<link, outbox, mutex, call, answers, executed>>
  PROVE  StreamInv'
<1> DEFINE a == [id |-> Head(inbox[c]).id, as |-> as]
<1>1. Head(inbox[c]) \in Frame /\ Tail(inbox[c]) = <<>> /\ Head(inbox[c]) = inbox[c][1]
  BY FrameArrived
<1>2. a \in Answer /\ a.id = inbox[c][1].id /\ a.as # "result"
  BY <1>1 DEF Answer, Frame
<1>3. a # <<>>
  BY <1>2, AnswerIsRecord
<1>4. \A d \in Clients : inbox'[d] = IF d = c THEN <<>> ELSE inbox[d]
  BY <1>1 DEF TypeOK
<1>5. \A d \in Clients : handler'[d] = IF d = c THEN to ELSE handler[d]
  BY DEF TypeOK
<1>6. \A d \in Clients : reply'[d] = IF d = c THEN a ELSE reply[d]
  BY DEF TypeOK
<1> HIDE DEF a
<1>7. HeldByReader'
  BY DEF StreamInv, HeldByReader
<1>8. OneInFlight'
  <2>1. outbox[c] = <<>> /\ ~(mutex[c] = Free /\ link[c] # "cut")
    BY DEF StreamInv, OneInFlight, Quiet
  <2> SUFFICES ASSUME NEW d \in Clients
               PROVE  /\ inbox'[d] # <<>> => reply'[d] = <<>> /\ outbox[d] = <<>>
                      /\ reply'[d] # <<>> => outbox[d] = <<>>
                      /\ reply'[d] # <<>> <=> handler'[d] \in {"execute", "write"}
                      /\ mutex[d] = Free /\ link[d] # "cut" =>
                           inbox'[d] = <<>> /\ reply'[d] = <<>> /\ outbox[d] = <<>>
    BY DEF OneInFlight, Quiet
  <2>2. CASE d = c
    BY <1>3, <1>4, <1>5, <1>6, <2>1, <2>2
  <2>3. CASE d # c
    <3>1. inbox'[d] = inbox[d] /\ reply'[d] = reply[d] /\ handler'[d] = handler[d]
      BY <1>4, <1>5, <1>6, <2>3
    <3>2. QED
      BY <3>1 DEF StreamInv, OneInFlight, Quiet
  <2>4. QED
    BY <2>2, <2>3
<1>9. InFlightIsOfHolder'
  <2> SUFFICES ASSUME NEW d \in Clients
               PROVE  /\ mutex[d] # Free =>
                           /\ inbox'[d] # <<>> => inbox'[d][1].id = call[mutex[d]].id
                           /\ reply'[d] # <<>> => reply'[d].id = call[mutex[d]].id
                           /\ outbox[d] # <<>> => outbox[d][1].id = call[mutex[d]].id
                      /\ reply'[d] # <<>> => Earned(reply'[d])
                      /\ outbox[d] # <<>> => Earned(outbox[d][1])
    BY DEF InFlightIsOfHolder, Earned
  <2>1. CASE d = c
    BY <1>2, <1>4, <1>6, <2>1 DEF StreamInv, InFlightIsOfHolder, Earned
  <2>2. CASE d # c
    <3>1. inbox'[d] = inbox[d] /\ reply'[d] = reply[d]
      BY <1>4, <1>6, <2>2
    <3>2. QED
      BY <3>1 DEF StreamInv, InFlightIsOfHolder
  <2>3. QED
    BY <2>1, <2>2
<1>10. AnswersTheirCall'
  BY DEF StreamInv, AnswersTheirCall
<1>11. QED
  BY <1>7, <1>8, <1>9, <1>10 DEF StreamInv

LEMMA ReplyIsAnswer ==
  ASSUME TypeOK, OneInFlight, NEW c \in Clients, handler[c] \in {"execute", "write"}
  PROVE  reply[c] \in Answer /\ reply[c] # <<>> /\ outbox[c] = <<>>
BY DEF TypeOK, OneInFlight

LEMMA ExecuteKeepsStream ==
  ASSUME TypeOK, StreamInv, NEW c \in Clients, Execute(c)
  PROVE  StreamInv'
<1>1. PICK as \in {"result", "error"} :
        /\ ToWrite(c, reply[c].id, as)
        /\ executed \subseteq executed'
        /\ as = "result" => reply[c].id \in executed'
  BY DEF Execute
<1>2. reply[c] \in Answer /\ reply[c] # <<>>
  BY ReplyIsAnswer DEF Execute, StreamInv
<1> DEFINE a == [id |-> reply[c].id, as |-> as]
<1>3. a \in Answer /\ a.id = reply[c].id /\ a.as = as
  BY <1>2 DEF Answer
<1>4. a # <<>>
  BY <1>3, AnswerIsRecord
<1>5. \A d \in Clients : handler'[d] = IF d = c THEN "write" ELSE handler[d]
  BY <1>1 DEF ToWrite, TypeOK
<1>6. \A d \in Clients : reply'[d] = IF d = c THEN a ELSE reply[d]
  BY <1>1 DEF ToWrite, TypeOK
<1>7. UNCHANGED <<link, inbox, outbox, mutex, call, answers>>
  BY DEF Execute, wire, client
<1> HIDE DEF a
<1>8. HeldByReader'
  BY <1>7 DEF StreamInv, HeldByReader
<1>9. OneInFlight'
  BY <1>2, <1>4, <1>5, <1>6, <1>7 DEF StreamInv, OneInFlight, Quiet, Execute
<1>10. InFlightIsOfHolder'
  BY <1>1, <1>2, <1>3, <1>6, <1>7 DEF StreamInv, InFlightIsOfHolder, Earned
<1>11. AnswersTheirCall'
  BY <1>1, <1>7 DEF StreamInv, AnswersTheirCall
<1>12. QED
  BY <1>8, <1>9, <1>10, <1>11 DEF StreamInv

LEMMA WriteReplyKeepsStream ==
  ASSUME TypeOK, StreamInv, NEW c \in Clients, WriteReply(c)
  PROVE  StreamInv'
<1>1. CASE link[c] # "open"
  BY <1>1, HandlerEndsKeepsStream DEF WriteReply
<1>2. CASE link[c] = "open"
  <2>1. reply[c] \in Answer /\ reply[c] # <<>> /\ outbox[c] = <<>>
    BY ReplyIsAnswer DEF WriteReply, StreamInv
  <2>2. \A d \in Clients : outbox'[d] = IF d = c THEN <<reply[c]>> ELSE outbox[d]
    BY <1>2, <2>1, OneElement DEF WriteReply, TypeOK
  <2>3. <<reply[c]>> # <<>> /\ <<reply[c]>>[1] = reply[c]
    BY OneElement
  <2>4. /\ \A d \in Clients : handler'[d] = IF d = c THEN "read" ELSE handler[d]
        /\ \A d \in Clients : reply'[d] = IF d = c THEN <<>> ELSE reply[d]
    BY <1>2 DEF WriteReply, TypeOK
  <2>5. UNCHANGED <<link, inbox, mutex, call, answers, executed>>
    BY <1>2 DEF WriteReply, client
  <2>6. HeldByReader'
    BY <2>5 DEF StreamInv, HeldByReader
  <2>7. OneInFlight'
    BY <2>1, <2>2, <2>4, <2>5 DEF StreamInv, OneInFlight, Quiet
  <2>8. InFlightIsOfHolder'
    BY <2>1, <2>2, <2>3, <2>4, <2>5 DEF StreamInv, InFlightIsOfHolder, Earned
  <2>9. AnswersTheirCall'
    BY <2>5 DEF StreamInv, AnswersTheirCall
  <2>10. QED
    BY <2>6, <2>7, <2>8, <2>9 DEF StreamInv
<1>3. QED
  BY <1>1, <1>2

LEMMA HandlersKeepStream ==
  ASSUME TypeOK, StreamInv, NEW c \in Clients, HandlerStep(c) \/ EnginePanics(c)
  PROVE  StreamInv'
<1>1. CASE Authenticate(c)
  <2>1. CASE c \in Refused
    BY <1>1, <2>1, HandlerEndsKeepsStream DEF Authenticate
  <2>2. CASE c \notin Refused
    <3>1. \A d \in Clients : handler'[d] \in {"execute", "write"}
                               <=> handler[d] \in {"execute", "write"}
      BY <1>1, <2>2 DEF Authenticate, TypeOK
    <3>2. QED
      BY <1>1, <2>2, <3>1, StreamUntouched DEF Authenticate, client
  <2>3. QED
    BY <2>1, <2>2
<1>2. CASE ReadFrame(c)
  <2>1. CASE HandlerEnds(c)
    BY <1>2, <2>1, HandlerEndsKeepsStream DEF ReadFrame
  <2>2. CASE ~HandlerEnds(c)
    <3> DEFINE id == Head(inbox[c]).id
    <3>1. /\ inbox[c] # <<>> /\ inbox' = [inbox EXCEPT ![c] = Tail(@)]
          /\ UNCHANGED <<link, outbox, mutex, call, answers, executed>>
      BY <1>2, <2>2 DEF ReadFrame, client
    <3>2. \/ /\ handler' = [handler EXCEPT ![c] = "execute"]
             /\ reply' = [reply EXCEPT ![c] = [id |-> id, as |-> "pending"]]
          \/ /\ handler' = [handler EXCEPT ![c] = "write"]
             /\ reply' = [reply EXCEPT ![c] = [id |-> id, as |-> "error"]]
      BY <1>2, <2>2 DEF ReadFrame, ToWrite
    <3>3. QED
      BY <3>1, <3>2, FrameIsTaken
  <2>3. QED
    BY <2>1, <2>2
<1>3. CASE StreamEnds(c)
  BY <1>3, HandlerEndsKeepsStream DEF StreamEnds
<1>4. CASE EnginePanics(c)
  BY <1>4, HandlerEndsKeepsStream DEF EnginePanics
<1>5. QED
  BY <1>1, <1>2, <1>3, <1>4, ExecuteKeepsStream, WriteReplyKeepsStream DEF HandlerStep

(* A thread that leaves the stream.                                        *)
LEMMA LeavesKeepsHeld ==
  ASSUME TypeOK, HeldByReader, NEW t \in Threads, call[t] # <<>>,
         call[t].at = "read", Leaves(t)
  PROVE  /\ HeldByReader'
         /\ mutex[call[t].client] = t /\ call[t].client \in Clients
         /\ \A c \in Clients : mutex'[c] = IF c = call[t].client THEN Free ELSE mutex[c]
         /\ \A u \in Threads \ {t} : call'[u] = call[u]
<1> DEFINE c == call[t].client
<1>1. call[t] \in Call
  BY DEF TypeOK
<1>2. c \in Clients /\ mutex[c] = t
  BY <1>1 DEF Call, HeldByReader
<1>3. \A d \in Clients : mutex'[d] = IF d = c THEN Free ELSE mutex[d]
  BY <1>2 DEF Leaves, TypeOK
<1>4. \A u \in Threads : call'[u] = IF u = t THEN <<>> ELSE call[u]
  BY DEF Leaves, TypeOK
<1> HIDE DEF c
<1>5. \A d \in Clients : mutex[d] \in Threads \cup {Free}
  BY DEF TypeOK
<1>6. \A d \in Clients : mutex'[d] # Free => mutex'[d] \in Threads \ {t}
  BY <1>2, <1>3, <1>5 DEF HeldByReader, c
<1>7. HeldByReader'
  <2>1. \A d \in Clients : mutex'[d] # Free =>
          call'[mutex'[d]] = call[mutex[d]] /\ mutex'[d] = mutex[d]
    BY <1>3, <1>4, <1>6
  <2>2. \A u \in Threads : (call'[u] # <<>> /\ call'[u].at = "read") =>
          mutex'[call'[u].client] = u
    <3> SUFFICES ASSUME NEW u \in Threads, call'[u] # <<>>, call'[u].at = "read"
                 PROVE  mutex'[call'[u].client] = u
      OBVIOUS
    <3>1. u # t /\ call'[u] = call[u] /\ call[u] \in Call
      BY <1>4 DEF TypeOK
    <3>2. mutex[call[u].client] = u /\ call[u].client \in Clients
      BY <3>1 DEF HeldByReader, Call
    <3>3. QED
      BY <1>2, <1>3, <3>1, <3>2
  <2>3. QED
    BY <2>1, <2>2 DEF HeldByReader
<1>8. QED
  BY <1>2, <1>3, <1>4, <1>7 DEF c

(* A thread that is not reading holds no stream.                           *)
LEMMA OnlyReadersHold ==
  ASSUME TypeOK, HeldByReader, NEW t \in Threads,
         call[t] = <<>> \/ call[t].at = "lock"
  PROVE  \A c \in Clients : mutex[c] # t
<1> SUFFICES ASSUME NEW c \in Clients, mutex[c] = t
             PROVE  FALSE
  OBVIOUS
<1>1. t # Free
  BY CallsAssumption
<1>2. QED
  BY <1>1 DEF HeldByReader

(* A change of one thread's call, which holds no stream before or after.   *)
LEMMA CallOutsideStream ==
  ASSUME TypeOK, StreamInv, NEW t \in Threads,
         call[t] = <<>> \/ call[t].at = "lock",
         call'[t] = <<>> \/ call'[t].at = "lock",
         \A u \in Threads \ {t} : call'[u] = call[u],
         UNCHANGED <<server, link, inbox, outbox, mutex, answers, executed>>
  PROVE  StreamInv'
<1>1. \A c \in Clients : mutex[c] # Free => mutex[c] \in Threads \ {t}
  BY OnlyReadersHold DEF TypeOK, StreamInv
<1>2. HeldByReader'
  BY <1>1 DEF StreamInv, HeldByReader
<1>3. OneInFlight'
  BY DEF StreamInv, OneInFlight, Quiet, server
<1>4. InFlightIsOfHolder'
  BY <1>1 DEF StreamInv, InFlightIsOfHolder, Earned, server
<1>5. AnswersTheirCall'
  BY DEF StreamInv, AnswersTheirCall
<1>6. QED
  BY <1>2, <1>3, <1>4, <1>5 DEF StreamInv

LEMMA BeginKeepsStream ==
  ASSUME TypeOK, StreamInv, NEW t \in Threads, NEW c \in Clients, NEW k \in Kinds,
         Begin(t, c, k)
  PROVE  StreamInv'
<1>1. /\ call[t] = <<>> /\ call'[t].at = "lock"
      /\ \A u \in Threads \ {t} : call'[u] = call[u]
  BY DEF Begin, TypeOK
<1>2. UNCHANGED <<server, link, inbox, outbox, mutex, answers, executed>>
  BY DEF Begin, wire
<1>3. QED
  BY <1>1, <1>2, CallOutsideStream

LEMMA SendKeepsStream ==
  ASSUME TypeOK, StreamInv, NEW t \in Threads, Send(t)
  PROVE  StreamInv'
<1> DEFINE c == call[t].client
           f == [id |-> call[t].id, kind |-> call[t].kind]
<1>1. call[t] \in Call /\ call[t] # <<>> /\ call[t].at = "lock"
  BY DEF Send, TypeOK
<1>2. c \in Clients /\ f.id = call[t].id
  BY <1>1 DEF Call
<1>3. CASE link[c] = "cut"
  <2>1. call'[t] = <<>> /\ \A u \in Threads \ {t} : call'[u] = call[u]
    BY <1>3 DEF Send, TypeOK
  <2>2. UNCHANGED <<server, link, inbox, outbox, mutex, answers, executed>>
    BY <1>3 DEF Send
  <2>3. QED
    BY <1>1, <2>1, <2>2, CallOutsideStream
<1>4. CASE link[c] # "cut"
  <2>1. mutex[c] = Free /\ Quiet(c)
    BY <1>2, <1>4 DEF Send, StreamFree, StreamInv, OneInFlight
  <2>2. \A d \in Clients : mutex'[d] = IF d = c THEN t ELSE mutex[d]
    BY <1>2, <1>4 DEF Send, TypeOK
  <2>3. \A d \in Clients : inbox'[d] = IF d = c THEN <<f>> ELSE inbox[d]
    <3>1. inbox' = [inbox EXCEPT ![c] = Append(inbox[c], f)]
      BY <1>4 DEF Send
    <3> HIDE DEF f
    <3>2. Append(inbox[c], f) = <<f>>
      BY <2>1, OneElement DEF Quiet
    <3>3. QED
      BY <1>2, <3>1, <3>2 DEF TypeOK
  <2>4. call' = [call EXCEPT ![t].at = "read"]
    BY <1>4 DEF Send
  <2>5. \A u \in Threads \ {t} : call'[u] = call[u]
    BY <2>4 DEF TypeOK
  <2>6. /\ call'[t].client = c /\ call'[t].id = call[t].id /\ call'[t].at = "read"
        /\ call'[t] \in Call
    BY <1>1, <2>4 DEF TypeOK, Call
  <2>7. call'[t] # <<>>
    BY <2>6, AnswerIsRecord
  <2>8. <<f>> # <<>> /\ <<f>>[1] = f
    BY OneElement
  <2>9. UNCHANGED <<handler, reply, link, outbox, answers, executed>>
    BY DEF Send, server
  <2>10. \A d \in Clients : mutex[d] # Free => mutex[d] \in Threads \ {t}
    BY <1>1, OnlyReadersHold DEF TypeOK, StreamInv
  <2>11. t # Free
    BY CallsAssumption
  <2> HIDE DEF c, f
  <2>12. HeldByReader'
    <3>1. ASSUME NEW d \in Clients, mutex'[d] # Free
          PROVE  /\ call'[mutex'[d]] # <<>> /\ call'[mutex'[d]].client = d
                 /\ call'[mutex'[d]].at = "read"
      BY <2>2, <2>5, <2>6, <2>7, <2>10, <3>1 DEF StreamInv, HeldByReader
    <3>2. ASSUME NEW u \in Threads, call'[u] # <<>>, call'[u].at = "read"
          PROVE  mutex'[call'[u].client] = u
      <4>1. CASE u = t
        BY <1>2, <2>2, <2>6, <4>1 DEF c
      <4>2. CASE u # t
        <5>1. call'[u] = call[u] /\ call[u] \in Call
          BY <2>5, <3>2, <4>2 DEF TypeOK
        <5>2. mutex[call[u].client] = u /\ call[u].client \in Clients
          BY <3>2, <5>1 DEF StreamInv, HeldByReader, Call
        <5>3. call[u].client # c
          BY <2>1, <5>2, CallsAssumption
        <5>4. QED
          BY <2>2, <5>1, <5>2, <5>3
      <4>3. QED
        BY <4>1, <4>2
    <3>3. QED
      BY <3>1, <3>2 DEF HeldByReader
  <2>13. OneInFlight'
    <3> SUFFICES ASSUME NEW d \in Clients
                 PROVE  /\ inbox'[d] # <<>> => reply[d] = <<>> /\ outbox[d] = <<>>
                        /\ reply[d] # <<>> => outbox[d] = <<>>
                        /\ reply[d] # <<>> <=> handler[d] \in {"execute", "write"}
                        /\ mutex'[d] = Free /\ link[d] # "cut" =>
                             inbox'[d] = <<>> /\ reply[d] = <<>> /\ outbox[d] = <<>>
      BY <2>9 DEF OneInFlight, Quiet
    <3>1. reply[d] # <<>> <=> handler[d] \in {"execute", "write"}
      BY DEF StreamInv, OneInFlight
    <3>2. CASE d = c
      BY <2>1, <2>2, <2>11, <3>1, <3>2 DEF Quiet
    <3>3. CASE d # c
      BY <2>2, <2>3, <3>3 DEF StreamInv, OneInFlight, Quiet
    <3>4. QED
      BY <3>2, <3>3
  <2>14. InFlightIsOfHolder'
    <3> SUFFICES ASSUME NEW d \in Clients
                 PROVE  /\ mutex'[d] # Free =>
                             /\ inbox'[d] # <<>> => inbox'[d][1].id = call'[mutex'[d]].id
                             /\ reply[d] # <<>> => reply[d].id = call'[mutex'[d]].id
                             /\ outbox[d] # <<>> => outbox[d][1].id = call'[mutex'[d]].id
                        /\ reply[d] # <<>> => Earned(reply[d])
                        /\ outbox[d] # <<>> => Earned(outbox[d][1])
      BY <2>9 DEF InFlightIsOfHolder, Earned
    <3>1. CASE d = c
      BY <1>2, <2>1, <2>2, <2>3, <2>6, <2>8, <3>1 DEF Quiet
    <3>2. CASE d # c
      BY <2>2, <2>3, <2>5, <2>10, <3>2 DEF StreamInv, InFlightIsOfHolder
    <3>3. QED
      BY <3>1, <3>2
  <2>15. AnswersTheirCall'
    BY <2>9 DEF StreamInv, AnswersTheirCall
  <2>16. QED
    BY <2>12, <2>13, <2>14, <2>15 DEF StreamInv
<1>5. QED
  BY <1>3, <1>4

LEMMA ReceiveKeepsStream ==
  ASSUME TypeOK, StreamInv, NEW t \in Threads, Receive(t)
  PROVE  StreamInv'
<1> DEFINE c == call[t].client
           a == Head(outbox[c])
<1>1. /\ HeldByReader' /\ mutex[c] = t /\ c \in Clients
      /\ \A d \in Clients : mutex'[d] = IF d = c THEN Free ELSE mutex[d]
      /\ \A u \in Threads \ {t} : call'[u] = call[u]
  BY LeavesKeepsHeld DEF Receive, StreamInv
<1>2. outbox[c] # <<>>
  BY DEF Receive
<1>3. a = outbox[c][1] /\ Tail(outbox[c]) = <<>>
  BY <1>1, <1>2, AnswerArrived
<1>4. \A d \in Clients : outbox'[d] = IF d = c THEN <<>> ELSE outbox[d]
  BY <1>1, <1>3 DEF Receive, TypeOK
<1>5. UNCHANGED <<handler, reply, link, inbox, executed>>
  BY DEF Receive, server
<1>6. inbox[c] = <<>> /\ reply[c] = <<>>
  BY <1>1, <1>2 DEF StreamInv, OneInFlight
<1>7. t # Free
  BY CallsAssumption
<1>8. a.id = call[t].id /\ Earned(a)
  BY <1>1, <1>2, <1>3, <1>7 DEF StreamInv, InFlightIsOfHolder
<1>9. answers' = answers \cup {[call |-> call[t].id, answer |-> a]}
  BY DEF Receive
<1> HIDE DEF a
<1>10. \A d \in Clients \ {c} : mutex'[d] # Free => mutex[d] \in Threads \ {t}
  <2> SUFFICES ASSUME NEW d \in Clients \ {c}, mutex[d] # Free
               PROVE  mutex[d] \in Threads \ {t}
    BY <1>1
  <2>1. mutex[d] \in Threads /\ call[mutex[d]].client = d
    BY DEF TypeOK, StreamInv, HeldByReader
  <2>2. QED
    BY <2>1
<1> HIDE DEF c
<1>11. OneInFlight'
  BY <1>1, <1>4, <1>5, <1>6 DEF StreamInv, OneInFlight, Quiet
<1>12. InFlightIsOfHolder'
  <2> SUFFICES ASSUME NEW d \in Clients
               PROVE  /\ mutex'[d] # Free =>
                           /\ inbox[d] # <<>> => inbox[d][1].id = call'[mutex'[d]].id
                           /\ reply[d] # <<>> => reply[d].id = call'[mutex'[d]].id
                           /\ outbox'[d] # <<>> => outbox'[d][1].id = call'[mutex'[d]].id
                      /\ reply[d] # <<>> => Earned(reply[d])
                      /\ outbox'[d] # <<>> => Earned(outbox'[d][1])
    BY <1>5 DEF InFlightIsOfHolder, Earned
  <2>1. CASE d = c
    BY <1>1, <1>4, <1>6, <2>1
  <2>2. CASE d # c
    BY <1>1, <1>4, <1>10, <2>2 DEF StreamInv, InFlightIsOfHolder
  <2>3. QED
    BY <2>1, <2>2
<1>13. AnswersTheirCall'
  BY <1>5, <1>8, <1>9 DEF StreamInv, AnswersTheirCall, Earned
<1>14. QED
  BY <1>1, <1>11, <1>12, <1>13 DEF StreamInv

LEMMA ReceiveFailsKeepsStream ==
  ASSUME TypeOK, StreamInv, NEW t \in Threads, ReceiveFails(t)
  PROVE  StreamInv'
<1> DEFINE c == call[t].client
<1>1. /\ HeldByReader' /\ mutex[c] = t /\ c \in Clients
      /\ \A d \in Clients : mutex'[d] = IF d = c THEN Free ELSE mutex[d]
      /\ \A u \in Threads \ {t} : call'[u] = call[u]
  BY LeavesKeepsHeld DEF ReceiveFails, StreamInv
<1>2. UNCHANGED <<handler, reply, link, inbox, outbox, answers, executed>>
  BY DEF ReceiveFails, server, wire
<1>3. link[c] = "cut"
  BY DEF ReceiveFails
<1>4. \A d \in Clients \ {c} : mutex'[d] # Free => mutex[d] \in Threads \ {t}
  <2> SUFFICES ASSUME NEW d \in Clients \ {c}, mutex[d] # Free
               PROVE  mutex[d] \in Threads \ {t}
    BY <1>1
  <2>1. mutex[d] \in Threads /\ call[mutex[d]].client = d
    BY DEF TypeOK, StreamInv, HeldByReader
  <2>2. QED
    BY <2>1
<1> HIDE DEF c
<1>5. OneInFlight'
  BY <1>1, <1>2, <1>3 DEF StreamInv, OneInFlight, Quiet
<1>6. InFlightIsOfHolder'
  <2> SUFFICES ASSUME NEW d \in Clients
               PROVE  /\ mutex'[d] # Free =>
                           /\ inbox[d] # <<>> => inbox[d][1].id = call'[mutex'[d]].id
                           /\ reply[d] # <<>> => reply[d].id = call'[mutex'[d]].id
                           /\ outbox[d] # <<>> => outbox[d][1].id = call'[mutex'[d]].id
                      /\ reply[d] # <<>> => Earned(reply[d])
                      /\ outbox[d] # <<>> => Earned(outbox[d][1])
    BY <1>2 DEF InFlightIsOfHolder, Earned
  <2>1. CASE d = c
    BY <1>1, <2>1 DEF StreamInv, InFlightIsOfHolder
  <2>2. CASE d # c
    BY <1>1, <1>4, <2>2 DEF StreamInv, InFlightIsOfHolder
  <2>3. QED
    BY <2>1, <2>2
<1>7. AnswersTheirCall'
  BY <1>2 DEF StreamInv, AnswersTheirCall
<1>8. QED
  BY <1>1, <1>5, <1>6, <1>7 DEF StreamInv

LEMMA RunReturnsKeepsStream ==
  ASSUME TypeOK, StreamInv, RunReturns
  PROVE  StreamInv'
<1>1. UNCHANGED <<inbox, outbox, mutex, call, answers, executed>>
  BY DEF RunReturns, client
<1>2. /\ \A c \in Clients : reply'[c] = <<>> /\ handler'[c] = "none"
      /\ \A c \in Clients : link'[c] # "cut" => link[c] # "cut"
  BY DEF RunReturns
<1>3. HeldByReader'
  BY <1>1 DEF StreamInv, HeldByReader
<1>4. OneInFlight'
  BY <1>1, <1>2 DEF StreamInv, OneInFlight, Quiet
<1>5. InFlightIsOfHolder'
  BY <1>1, <1>2 DEF StreamInv, InFlightIsOfHolder, Earned
<1>6. AnswersTheirCall'
  BY <1>1 DEF StreamInv, AnswersTheirCall
<1>7. QED
  BY <1>3, <1>4, <1>5, <1>6 DEF StreamInv

LEMMA StreamStep ==
  ASSUME TypeOK, PoolInv, StreamInv, [Next]_vars
  PROVE  StreamInv'
<1>1. ASSUME NEW l \in Listeners,
             \/ ListenerStep(l) \/ ListenerFails(l) \/ Interrupted(l)
      PROVE  StreamInv'
  <2>1. UNCHANGED <<reply, inbox, outbox, mutex, call, answers, executed>>
    BY <1>1 DEF ListenerStep, Acquire, Accept, WouldBlock, ListenerFails, Interrupted,
       client, wire
  <2>3. \A c \in Clients : link'[c] # "cut" => link[c] # "cut"
    BY <1>1 DEF ListenerStep, Acquire, Accept, WouldBlock, ListenerFails, Interrupted,
       Waiting, Ended, wire, TypeOK
  <2>4. CASE UNCHANGED handler
    BY <2>1, <2>3, <2>4, StreamUntouched
  <2>5. ASSUME NEW c \in Clients, Accept(l, c)
        PROVE  StreamInv'
    <3>1. handler[c] = "none"
      BY <2>5 DEF Accept, Waiting, PoolInv
    <3>2. \A d \in Clients : handler'[d] = IF d = c THEN
                               IF l \in Tls THEN "handshake" ELSE "read" ELSE handler[d]
      BY <2>5 DEF Accept, TypeOK
    <3>3. QED
      BY <2>1, <2>3, <3>1, <3>2, StreamUntouched
  <2>6. QED
    BY <1>1, <2>4, <2>5 DEF ListenerStep, Acquire, WouldBlock, ListenerFails, Interrupted
<1>2. ASSUME NEW c \in Clients, HandlerStep(c) \/ EnginePanics(c)
      PROVE  StreamInv'
  BY <1>2, HandlersKeepStream
<1>3. ASSUME NEW c \in Clients, Open(c) \/ Close(c) \/ ConnectionBreaks(c)
      PROVE  StreamInv'
  <2>1. /\ UNCHANGED <<reply, inbox, outbox, mutex, call, answers, executed, handler>>
        /\ \A d \in Clients : link'[d] # "cut" => link[d] # "cut"
    BY <1>3 DEF Open, Close, ConnectionBreaks, server, client, TypeOK
  <2>2. QED
    BY <2>1, StreamUntouched
<1>4. ASSUME NEW t \in Threads, ThreadStep(t)
      PROVE  StreamInv'
  BY <1>4, SendKeepsStream, ReceiveKeepsStream, ReceiveFailsKeepsStream DEF ThreadStep
<1>5. ASSUME NEW t \in Threads, NEW c \in Clients, NEW k \in Kinds, Begin(t, c, k)
      PROVE  StreamInv'
  BY <1>5, BeginKeepsStream
<1>6. CASE RunReturns
  BY <1>6, RunReturnsKeepsStream
<1>7. CASE UNCHANGED vars
  BY <1>7, StreamUntouched DEF vars, server, wire, client
<1>8. QED
  BY <1>1, <1>2, <1>3, <1>4, <1>5, <1>6, <1>7 DEF Next, Fault

---------------------------------------------------------------------------
(* Types.                                                                  *)

(* A pool's count is bounded because it counts handlers.                   *)
LEMMA ActiveBounded ==
  ASSUME PoolInv', active' \in [Listeners -> Nat]
  PROVE  active' \in [Listeners -> 0..Cardinality(Clients) + 1]
<1>1. Cardinality(Clients) \in Nat
  BY FS_CardinalityType, ListenersAssumption
<1>2. ASSUME NEW l \in Listeners
      PROVE  active'[l] <= Cardinality(Clients) + 1
  <2>1. CASE ~running' \/ ~Limited(l)'
    BY <1>1, <2>1 DEF PoolInv
  <2>2. CASE running' /\ Limited(l)'
    <3>1. HandlersOf(l)' \in SUBSET Clients
      BY DEF HandlersOf
    <3>2. Cardinality(HandlersOf(l)') \in Nat
          /\ Cardinality(HandlersOf(l)') <= Cardinality(Clients)
      BY <3>1, FS_Subset, FS_CardinalityType, ListenersAssumption
    <3>3. active'[l] = Cardinality(HandlersOf(l)')
                       + IF listening'[l] = "accept" THEN 1 ELSE 0
      BY <2>2 DEF PoolInv, PermitsMatchHandlers
    <3>4. QED
      BY <1>1, <3>2, <3>3
  <2>3. QED
    BY <2>1, <2>2
<1>3. \A l \in Listeners : active'[l] \in 0..Cardinality(Clients) + 1
  BY <1>1, <1>2
<1>4. QED
  BY <1>3

(* The types of what the server's threads change.                          *)
ServerTypes ==
  /\ limit \in Limits
  /\ running \in BOOLEAN
  /\ listening \in
       [Listeners -> {"acquire", "wait", "accept", "ok", "failed"}]
  /\ active \in [Listeners -> Nat]
  /\ idlePolls \in [Listeners -> 0..PollLimit]
  /\ handler \in
       [Clients -> {"none", "handshake", "read", "execute", "write"}]
  /\ reply \in [Clients -> {<<>>} \cup Answer]
  /\ link \in [Clients -> {"unopened", "backlog", "open", "cut", "closed"}]
  /\ faults \in 0..MaxFaults

(* The types of the streams and the calls.                                 *)
StreamTypes ==
  /\ inbox \in [Clients -> {<<>>} \cup {<<f>> : f \in Frame}]
  /\ outbox \in [Clients -> {<<>>} \cup {<<a>> : a \in Answer}]
  /\ mutex \in [Clients -> Threads \cup {Free}]
  /\ call \in [Threads -> {<<>>} \cup Call]
  /\ answers \subseteq [call : Ids, answer : Answer]
  /\ executed \subseteq Ids
  /\ calls \in 0..MaxCalls

LEMMA HandlerEndsTypes ==
  ASSUME TypeOK, NEW c \in Clients, HandlerEnds(c), faults' \in 0..MaxFaults
  PROVE  ServerTypes'
<1>1. ListenerOf[c] \in Listeners
  BY ListenersAssumption
<1>2. active' \in [Listeners -> Nat]
  BY <1>1, ReturnedCounts DEF HandlerEnds
<1>3. listening' \in [Listeners -> {"acquire", "wait", "accept", "ok", "failed"}]
  BY <1>1 DEF HandlerEnds, Woken, TypeOK
<1>4. QED
  BY <1>2, <1>3 DEF HandlerEnds, ServerTypes, TypeOK, process

LEMMA ListenersKeepTypes ==
  ASSUME TypeOK, PoolInv, NEW l \in Listeners,
         \/ ListenerStep(l) \/ ListenerFails(l) \/ Interrupted(l)
  PROVE  ServerTypes'
<1>1. Returned(l) \in [Listeners -> Nat]
  BY ReturnedCounts
<1>2. \A m \in Listeners : active[m] \in Nat
  BY DEF TypeOK
<1>3. CASE Acquire(l)
  <2>1. active' \in [Listeners -> Nat]
    BY <1>2, <1>3 DEF Acquire, Taken, TypeOK
  <2>2. QED
    BY <1>3, <2>1 DEF Acquire, Goto, process, wire, ServerTypes, TypeOK
<1>4. ASSUME NEW c \in Clients, Accept(l, c)
      PROVE  ServerTypes'
  BY <1>2, <1>4, CallsAssumption DEF Accept, Goto, process, ServerTypes, TypeOK
<1>5. CASE ListenerFails(l)
  BY <1>1, <1>5, CallsAssumption DEF ListenerFails, Ended, Goto, process, ServerTypes, TypeOK
<1>6. CASE Interrupted(l)
  BY <1>1, <1>6, CallsAssumption DEF Interrupted, Goto, process, wire, ServerTypes, TypeOK
<1>7. CASE WouldBlock(l)
  <2> DEFINE polls == IF ListenerIsIdle(l, Returned(l)) THEN idlePolls[l] + 1 ELSE 0
  <2>1. polls \in 0..PollLimit
    <3>1. idlePolls[l] \in Nat /\ idlePolls[l] < PollLimit
      BY <1>7 DEF WouldBlock, PoolInv, TypeOK
    <3>2. polls = 0 \/ polls = idlePolls[l] + 1
      OBVIOUS
    <3>3. QED
      BY <3>1, <3>2, CallsAssumption
  <2>2. idlePolls' = [idlePolls EXCEPT ![l] = polls]
    BY <1>7 DEF WouldBlock
  <2> HIDE DEF polls
  <2>3. idlePolls' \in [Listeners -> 0..PollLimit]
    BY <2>1, <2>2 DEF TypeOK
  <2>4. /\ listening' \in [Listeners -> {"acquire", "wait", "accept", "ok", "failed"}]
        /\ link' \in [Clients -> {"unopened", "backlog", "open", "cut", "closed"}]
    BY <1>7 DEF WouldBlock, Ended, Goto, TypeOK
  <2>5. QED
    BY <1>1, <1>7, <2>3, <2>4 DEF WouldBlock, process, ServerTypes, TypeOK
<1>8. QED
  BY <1>3, <1>4, <1>5, <1>6, <1>7 DEF ListenerStep

LEMMA HandlersKeepTypes ==
  ASSUME TypeOK, OneInFlight, NEW c \in Clients, HandlerStep(c) \/ EnginePanics(c)
  PROVE  ServerTypes' /\ StreamTypes'
<1>1. \A l \in Listeners : active[l] \in Nat
  BY DEF TypeOK
<1>2. ASSUME NEW id \in Ids, NEW as \in {"pending", "result", "error"}
      PROVE  [reply EXCEPT ![c] = [id |-> id, as |-> as]]
               \in [Clients -> {<<>>} \cup Answer]
  BY DEF TypeOK, Answer
<1>3. CASE Authenticate(c)
  <2>1. ServerTypes'
    BY <1>1, <1>3, HandlerEndsTypes DEF Authenticate, process, ServerTypes, TypeOK
  <2>2. QED
    BY <1>3, <2>1 DEF Authenticate, HandlerEnds, client, StreamTypes, TypeOK
<1>4. CASE ReadFrame(c)
  <2>1. Head(inbox[c]) \in Frame /\ Tail(inbox[c]) = <<>>
    BY <1>4, FrameArrived DEF ReadFrame
  <2>2. Head(inbox[c]).id \in Ids
    BY <2>1 DEF Frame
  <2>3. ServerTypes'
    <3>1. CASE HandlerEnds(c)
      BY <1>4, <3>1, HandlerEndsTypes DEF ReadFrame, TypeOK
    <3>2. CASE ~HandlerEnds(c)
      <4>1. UNCHANGED <<limit, running, listening, active, idlePolls, link, faults>>
        BY <1>4, <3>2 DEF ReadFrame, process
      <4>2. reply' \in [Clients -> {<<>>} \cup Answer]
        BY <1>2, <1>4, <2>2, <3>2 DEF ReadFrame, ToWrite
      <4>3. handler' \in [Clients -> {"none", "handshake", "read", "execute", "write"}]
        BY <1>4, <3>2 DEF ReadFrame, ToWrite, TypeOK
      <4>4. QED
        BY <1>1, <4>1, <4>2, <4>3 DEF ServerTypes, TypeOK
    <3>3. QED
      BY <3>1, <3>2
  <2>4. inbox' \in [Clients -> {<<>>} \cup {<<f>> : f \in Frame}]
    BY <1>4, <2>1 DEF ReadFrame, TypeOK
  <2>5. UNCHANGED <<outbox, mutex, call, answers, executed, calls>>
    BY <1>4 DEF ReadFrame, HandlerEnds, client
  <2>6. QED
    BY <2>3, <2>4, <2>5 DEF StreamTypes, TypeOK
<1>5. CASE StreamEnds(c)
  <2>1. ServerTypes'
    BY <1>5, HandlerEndsTypes DEF StreamEnds, TypeOK
  <2>2. QED
    BY <1>5, <2>1 DEF StreamEnds, HandlerEnds, client, StreamTypes, TypeOK
<1>6. ASSUME Execute(c) \/ EnginePanics(c)
      PROVE  executed' \subseteq Ids /\ reply[c].id \in Ids
  <2>1. reply[c] \in Answer
    BY <1>6, ReplyIsAnswer DEF Execute, EnginePanics
  <2>2. reply[c].id \in Ids
    BY <2>1 DEF Answer
  <2>3. QED
    BY <1>6, <2>2 DEF Execute, EnginePanics, TypeOK
<1>7. CASE Execute(c)
  <2>1. reply' \in [Clients -> {<<>>} \cup Answer]
    BY <1>2, <1>6, <1>7 DEF Execute, ToWrite
  <2>2. handler' \in [Clients -> {"none", "handshake", "read", "execute", "write"}]
    BY <1>7 DEF Execute, ToWrite, TypeOK
  <2>3. UNCHANGED <<process, listening, active, idlePolls, wire, client, faults>>
    BY <1>7 DEF Execute
  <2>4. QED
    BY <1>1, <1>6, <1>7, <2>1, <2>2, <2>3
    DEF process, wire, client, ServerTypes, StreamTypes, TypeOK
<1>8. CASE EnginePanics(c)
  <2>1. faults' \in 0..MaxFaults
    BY <1>8, CallsAssumption DEF EnginePanics, TypeOK
  <2>2. HandlerEnds(c) /\ UNCHANGED <<inbox, outbox>>
    BY <1>8 DEF EnginePanics
  <2>3. ServerTypes'
    BY <2>1, <2>2, HandlerEndsTypes
  <2>4. QED
    BY <1>6, <1>8, <2>2, <2>3 DEF HandlerEnds, client, StreamTypes, TypeOK
<1>9. CASE WriteReply(c)
  <2>1. reply[c] \in Answer /\ outbox[c] = <<>>
    BY <1>9, ReplyIsAnswer DEF WriteReply
  <2>2. Append(outbox[c], reply[c]) = <<reply[c]>>
    BY <2>1, OneElement
  <2>3. outbox' = outbox \/ outbox' = [outbox EXCEPT ![c] = <<reply[c]>>]
    BY <1>9, <2>2 DEF WriteReply
  <2>4. outbox' \in [Clients -> {<<>>} \cup {<<a>> : a \in Answer}]
    BY <2>1, <2>3 DEF TypeOK
  <2>5. ServerTypes'
    <3>1. CASE link[c] = "open"
      BY <1>1, <1>9, <3>1 DEF WriteReply, process, ServerTypes, TypeOK
    <3>2. CASE link[c] # "open"
      BY <1>9, <3>2, HandlerEndsTypes DEF WriteReply, TypeOK
    <3>3. QED
      BY <3>1, <3>2
  <2>6. UNCHANGED <<inbox, mutex, call, answers, executed, calls>>
    BY <1>9 DEF WriteReply, HandlerEnds, client
  <2>7. QED
    BY <2>4, <2>5, <2>6 DEF StreamTypes, TypeOK
<1>10. QED
  BY <1>3, <1>4, <1>5, <1>7, <1>8, <1>9 DEF HandlerStep

(* The steps of the clients leave the server's threads as they are.        *)
LEMMA LinkChangesTypes ==
  ASSUME TypeOK, UNCHANGED server, faults' \in 0..MaxFaults,
         link' \in [Clients -> {"unopened", "backlog", "open", "cut", "closed"}]
  PROVE  ServerTypes'
BY DEF server, process, ServerTypes, TypeOK

LEMMA LeavesTypes ==
  ASSUME TypeOK, NEW t \in Threads, call[t] # <<>>, Leaves(t)
  PROVE  /\ call' \in [Threads -> {<<>>} \cup Call]
         /\ mutex' \in [Clients -> Threads \cup {Free}]
BY DEF Leaves, TypeOK

LEMMA ThreadsKeepTypes ==
  ASSUME TypeOK, OneInFlight, NEW t \in Threads,
         \/ ThreadStep(t)
         \/ \E c \in Clients, k \in Kinds : Begin(t, c, k)
  PROVE  StreamTypes' /\ UNCHANGED <<server, link, faults>>
<1>1. ASSUME NEW c \in Clients, NEW k \in Kinds, Begin(t, c, k)
      PROVE  StreamTypes' /\ UNCHANGED <<server, link, faults>>
  <2>1. calls + 1 \in Ids /\ calls' \in 0..MaxCalls
    BY <1>1, CallsAssumption DEF Begin, TypeOK, Ids
  <2>2. [client |-> c, id |-> calls + 1, kind |-> k, at |-> "lock"] \in Call
    BY <2>1 DEF Call
  <2>3. call' \in [Threads -> {<<>>} \cup Call]
    BY <1>1, <2>2 DEF Begin, TypeOK
  <2>4. QED
    BY <1>1, <2>1, <2>3 DEF Begin, wire, StreamTypes, TypeOK
<1>2. CASE Send(t)
  <2>1. call[t] \in Call
    BY <1>2 DEF Send, TypeOK
  <2> DEFINE c == call[t].client
             f == [id |-> call[t].id, kind |-> call[t].kind]
  <2>2. c \in Clients /\ f \in Frame
    BY <2>1 DEF Call, Frame
  <2>3. CASE link[c] = "cut"
    BY <1>2, <2>3 DEF Send, StreamTypes, TypeOK
  <2>4. CASE link[c] # "cut"
    <3>1. inbox[c] = <<>>
      BY <1>2, <2>2, <2>4 DEF Send, StreamFree, OneInFlight, Quiet
    <3>2. inbox' = [inbox EXCEPT ![c] = <<f>>]
      BY <1>2, <2>4, <3>1, OneElement DEF Send
    <3>3. inbox' \in [Clients -> {<<>>} \cup {<<g>> : g \in Frame}]
      BY <2>2, <3>2 DEF TypeOK
    <3>4. [call[t] EXCEPT !.at = "read"] \in Call
      BY <2>1 DEF Call
    <3>5. call' = [call EXCEPT ![t] = [call[t] EXCEPT !.at = "read"]]
      BY <1>2, <2>4 DEF Send
    <3>6. call' \in [Threads -> {<<>>} \cup Call]
      BY <3>4, <3>5 DEF TypeOK
    <3>7. mutex' \in [Clients -> Threads \cup {Free}]
      BY <1>2, <2>4 DEF Send, TypeOK
    <3>8. QED
      BY <1>2, <3>3, <3>6, <3>7 DEF Send, StreamTypes, TypeOK
  <2>5. UNCHANGED <<server, link, faults>>
    BY <1>2 DEF Send
  <2>6. QED
    BY <2>3, <2>4, <2>5
<1>3. CASE Receive(t)
  <2>1. call[t] \in Call /\ call[t] # <<>> /\ Leaves(t)
    BY <1>3 DEF Receive, TypeOK
  <2> DEFINE c == call[t].client
  <2>2. c \in Clients /\ call[t].id \in Ids
    BY <2>1 DEF Call
  <2>3. Head(outbox[c]) \in Answer /\ Tail(outbox[c]) = <<>>
    BY <1>3, <2>2, AnswerArrived DEF Receive
  <2>4. outbox' \in [Clients -> {<<>>} \cup {<<a>> : a \in Answer}]
    BY <1>3, <2>3 DEF Receive, TypeOK
  <2>5. answers' \subseteq [call : Ids, answer : Answer]
    BY <1>3, <2>2, <2>3 DEF Receive, TypeOK
  <2>6. QED
    BY <1>3, <2>1, <2>4, <2>5, LeavesTypes DEF Receive, StreamTypes, TypeOK
<1>4. CASE ReceiveFails(t)
  <2>1. call[t] # <<>> /\ Leaves(t)
    BY <1>4 DEF ReceiveFails
  <2>2. QED
    BY <1>4, <2>1, LeavesTypes DEF ReceiveFails, wire, StreamTypes, TypeOK
<1>5. QED
  BY <1>1, <1>2, <1>3, <1>4 DEF ThreadStep

LEMMA TypeStep ==
  ASSUME TypeOK, PoolInv, OneInFlight, [Next]_vars
  PROVE  TypeOK'
<1>1. PoolInv'
  BY PoolStep
<1>2. ASSUME ServerTypes', StreamTypes'
      PROVE  TypeOK'
  <2>1. active' \in [Listeners -> 0..Cardinality(Clients) + 1]
    BY <1>1, <1>2, ActiveBounded DEF ServerTypes
  <2>2. QED
    BY <1>2, <2>1 DEF ServerTypes, StreamTypes, TypeOK
<1>3. ASSUME UNCHANGED <<inbox, outbox, client, executed>>
      PROVE  StreamTypes'
  BY <1>3 DEF client, StreamTypes, TypeOK
<1>4. CASE UNCHANGED vars
  BY <1>4 DEF vars, server, process, wire, client, TypeOK
<1>5. ASSUME NEW l \in Listeners,
             ListenerStep(l) \/ ListenerFails(l) \/ Interrupted(l)
      PROVE  TypeOK'
  <2>1. UNCHANGED <<inbox, outbox, client, executed>>
    BY <1>5 DEF ListenerStep, Acquire, WouldBlock, Accept, ListenerFails, Interrupted, wire
  <2>2. QED
    BY <1>2, <1>3, <1>5, <2>1, ListenersKeepTypes
<1>6. ASSUME NEW c \in Clients, HandlerStep(c) \/ EnginePanics(c)
      PROVE  TypeOK'
  BY <1>2, <1>6, HandlersKeepTypes
<1>7. ASSUME NEW c \in Clients, Open(c) \/ Close(c) \/ ConnectionBreaks(c)
      PROVE  TypeOK'
  <2>1. link' \in [Clients -> {"unopened", "backlog", "open", "cut", "closed"}]
    BY <1>7 DEF Open, Close, ConnectionBreaks, TypeOK
  <2>2. faults' \in 0..MaxFaults
    BY <1>7, CallsAssumption DEF Open, Close, ConnectionBreaks, TypeOK
  <2>3. UNCHANGED <<server, inbox, outbox, client, executed>>
    BY <1>7 DEF Open, Close, ConnectionBreaks
  <2>4. QED
    BY <1>2, <1>3, <2>1, <2>2, <2>3, LinkChangesTypes
<1>8. ASSUME NEW t \in Threads,
             ThreadStep(t) \/ \E c \in Clients, k \in Kinds : Begin(t, c, k)
      PROVE  TypeOK'
  <2>1. StreamTypes' /\ UNCHANGED <<server, link, faults>>
    BY <1>8, ThreadsKeepTypes
  <2>2. ServerTypes'
    BY <2>1, LinkChangesTypes DEF TypeOK
  <2>3. QED
    BY <1>2, <2>1, <2>2
<1>9. CASE RunReturns
  <2>1. ServerTypes'
    BY <1>9 DEF RunReturns, ServerTypes, TypeOK
  <2>2. QED
    BY <1>2, <1>3, <1>9, <2>1 DEF RunReturns
<1>10. QED
  BY <1>4, <1>5, <1>6, <1>7, <1>8, <1>9 DEF Next, Fault

---------------------------------------------------------------------------
LEMMA InvInit ==
  ASSUME Init
  PROVE  Inv
<1>1. Cardinality(Clients) \in Nat
  BY FS_CardinalityType, ListenersAssumption
<1>2. TypeOK
  BY <1>1, CallsAssumption DEF Init, TypeOK
<1>3. \A l \in Listeners : HandlersOf(l) = {}
  BY DEF Init, HandlersOf
<1>4. Cardinality({}) = 0
  BY FS_EmptySet
<1>5. \A l \in Listeners : limit[l] \in Nat
  BY <1>2, LimitIsNumber
<1>6. PermitsMatchHandlers
  <2>1. \A l \in Listeners : Cardinality(HandlersOf(l)) = 0
    BY <1>3, <1>4
  <2>2. \A l \in Listeners : active[l] = 0 /\ listening[l] # "accept"
    BY DEF Init
  <2>3. QED
    BY <1>5, <2>1, <2>2 DEF PermitsMatchHandlers, Limited
<1>7. IdleEndServesNobody
  BY <1>3 DEF IdleEndServesNobody
<1>8. PoolInv
  BY <1>6, <1>7, CallsAssumption DEF Init, PoolInv
<1>9. HeldByReader /\ OneInFlight
  BY CallsAssumption DEF Init, HeldByReader, OneInFlight, Quiet
<1>10. InFlightIsOfHolder /\ AnswersTheirCall
  BY DEF Init, InFlightIsOfHolder, AnswersTheirCall
<1>11. QED
  BY <1>2, <1>8, <1>9, <1>10 DEF Inv, StreamInv

LEMMA InvStep ==
  ASSUME Inv, [Next]_vars
  PROVE  Inv'
<1>1. TypeOK /\ PoolInv /\ StreamInv /\ OneInFlight
  BY DEF Inv, StreamInv
<1>2. QED
  BY <1>1, PoolStep, StreamStep, TypeStep DEF Inv

LEMMA InvAlways == Spec => []Inv
<1>1. Init => Inv
  BY InvInit
<1>2. Inv /\ [Next]_vars => Inv'
  BY InvStep
<1>3. QED
  BY <1>1, <1>2, PTL DEF Spec

(* The state of the server, its streams and its clients stays within its   *)
(* types: a count is never more than the clients and the listener itself,  *)
(* the idle polls stop at their limit, and a stream carries one frame.     *)
THEOREM TypeCorrect == Spec => []TypeOK
<1>1. Inv => TypeOK
  BY DEF Inv
<1>2. QED
  BY <1>1, InvAlways, PTL

(* Whatever the limits and however handlers, listeners and connections     *)
(* fail, a pool counts exactly the permits that exist and never more than  *)
(* its limit.                                                              *)
THEOREM PoolCountsPermits == Spec => []PermitsMatchHandlers
<1>1. Inv => PermitsMatchHandlers
  BY DEF Inv, PoolInv
<1>2. QED
  BY <1>1, InvAlways, PTL

(* A listener with a limit that gives up as idle has no handler left.      *)
THEOREM IdleEndIsClean == Spec => []IdleEndServesNobody
<1>1. Inv => IdleEndServesNobody
  BY DEF Inv, PoolInv
<1>2. QED
  BY <1>1, InvAlways, PTL

(* However many threads share a client and wherever its calls fail, an     *)
(* answer belongs to the call that gets it, and a result to a command that *)
(* was executed.                                                           *)
THEOREM CallsGetTheirAnswers == Spec => []AnswersTheirCall
<1>1. Inv => AnswersTheirCall
  BY DEF Inv, StreamInv
<1>2. QED
  BY <1>1, InvAlways, PTL
=============================================================================
