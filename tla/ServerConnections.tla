------------------------- MODULE ServerConnections -------------------------
(***************************************************************************)
(* The server's listeners, connection pools and connection handlers        *)
(* (server/src/lib.rs) with the client transport that talks to them        *)
(* (client/src/wrdb_lib/transport).                                        *)
(*                                                                         *)
(* Each listener is a thread with a pool of its own.  It takes a permit    *)
(* before it accepts, the handler it spawns owns the permit, and the       *)
(* permit's drop wakes the listener.  A handler answers the frames of one  *)
(* connection in order, with a frame for each, until the stream ends.      *)
(* A client has one stream, which the threads that share it take by a      *)
(* mutex for one frame out and one frame back.                             *)
(*                                                                         *)
(* What a frame carries is left out but for what the handler makes of it   *)
(* and the call it belongs to.  The engine answers or refuses.             *)
(***************************************************************************)
EXTENDS Naturals, Sequences, FiniteSets

CONSTANTS
  Listeners,     \* the listeners of the configuration
  JoinOrder,     \* the order in which run joins them: TCP, then the socket
  Limits,        \* connection limits of the listeners, 0 for none
  Tls,           \* the listeners that authenticate their clients
  Nonblocking,   \* the listeners handed over in nonblocking mode
  PollLimit,     \* nonblocking_idle_poll_limit
  Clients,       \* client drivers, each with one stream
  ListenerOf,    \* the listener each client connects to
  Refused,       \* clients whose certificate is revoked or has no user
  Threads,       \* the threads that call the clients
  Kinds,         \* the frames a client may send
  Free,          \* a mutex nobody holds
  MaxCalls,      \* how many calls may begin
  MaxFaults      \* how many faults of the system or the engine may occur

FrameKinds == {"command", "undecodable", "not_a_command", "bad_magic"}

ASSUME ListenersAssumption ==
  /\ IsFiniteSet(Listeners) /\ IsFiniteSet(Clients)
  /\ JoinOrder \in Seq(Listeners)
  /\ {JoinOrder[i] : i \in DOMAIN JoinOrder} = Listeners
  /\ Limits \subseteq [Listeners -> Nat]
  /\ Tls \cup Nonblocking \subseteq Listeners
  /\ ListenerOf \in [Clients -> Listeners]
  /\ Refused \subseteq Clients
ASSUME CallsAssumption ==
  /\ Kinds \subseteq FrameKinds
  /\ Free \notin Threads
  /\ PollLimit \in Nat \ {0} /\ MaxCalls \in Nat /\ MaxFaults \in Nat

VARIABLES
  limit,      \* connection_pool_limit of each listener
  running,    \* the server process runs
  listening,  \* where each listener is in its loop, or how it ended
  active,     \* active_connections of each listener's pool
  idlePolls,  \* idle_polls of each listener
  handler,    \* where the thread that serves a client's connection is
  reply,      \* what that thread is about to write
  link,       \* the connection of each client
  inbox,      \* frames on their way to the server
  outbox,     \* frames on their way to the client
  mutex,      \* the thread that holds a client's stream
  call,       \* the call each thread is in
  answers,    \* history: what the calls were answered
  executed,   \* history: the calls the engine has executed
  calls,      \* calls begun so far
  faults      \* faults so far

process == <<limit, running>>
server == <<process, listening, active, idlePolls, handler, reply>>
client == <<mutex, call, answers, calls>>
wire == <<link, inbox, outbox>>
vars == <<server, wire, client, executed, faults>>

Ids == 1..MaxCalls
Frame == [id : Ids, kind : Kinds]
Answer == [id : Ids, as : {"pending", "result", "error"}]
Call == [client : Clients, id : Ids, kind : Kinds, at : {"lock", "read"}]

TypeOK ==
  /\ limit \in Limits
  /\ running \in BOOLEAN
  /\ listening \in
       [Listeners -> {"acquire", "wait", "accept", "ok", "failed"}]
  /\ active \in [Listeners -> 0..Cardinality(Clients) + 1]
  /\ idlePolls \in [Listeners -> 0..PollLimit]
  /\ handler \in
       [Clients -> {"none", "handshake", "read", "execute", "write"}]
  /\ reply \in [Clients -> {<<>>} \cup Answer]
  /\ link \in [Clients -> {"unopened", "backlog", "open", "cut", "closed"}]
  /\ inbox \in [Clients -> {<<>>} \cup {<<f>> : f \in Frame}]
  /\ outbox \in [Clients -> {<<>>} \cup {<<a>> : a \in Answer}]
  /\ mutex \in [Clients -> Threads \cup {Free}]
  /\ call \in [Threads -> {<<>>} \cup Call]
  /\ answers \subseteq [call : Ids, answer : Answer]
  /\ executed \subseteq Ids
  /\ calls \in 0..MaxCalls /\ faults \in 0..MaxFaults

Init ==
  /\ limit \in Limits
  /\ running = TRUE
  /\ listening = [l \in Listeners |-> "acquire"]
  /\ active = [l \in Listeners |-> 0]
  /\ idlePolls = [l \in Listeners |-> 0]
  /\ handler = [c \in Clients |-> "none"]
  /\ reply = [c \in Clients |-> <<>>]
  /\ link = [c \in Clients |-> "unopened"]
  /\ inbox = [c \in Clients |-> <<>>]
  /\ outbox = [c \in Clients |-> <<>>]
  /\ mutex = [c \in Clients |-> Free]
  /\ call = [t \in Threads |-> <<>>]
  /\ answers = {} /\ executed = {}
  /\ calls = 0 /\ faults = 0

-----------------------------------------------------------------------------
(* The connection pool                                                     *)

Limited(l) == limit[l] > 0
BugSlotFree(l) == ~Limited(l) \/ active[l] <= limit[l]
SlotFree(l) == ~Limited(l) \/ active[l] < limit[l]

Taken(l) == IF Limited(l) THEN [active EXCEPT ![l] = @ + 1] ELSE active

(* ConnectionPoolPermit::drop: the count goes down, and the listener that  *)
(* waits for a slot, the only one that can, is woken to look again.        *)
Returned(l) ==
  IF Limited(l) /\ active[l] > 0 THEN [active EXCEPT ![l] = @ - 1] ELSE active
BugWoken(l) == listening
Woken(l) ==
  IF Limited(l) /\ listening[l] = "wait"
  THEN [listening EXCEPT ![l] = "acquire"]
  ELSE listening

PoolIsIdle(l, count) == ~Limited(l) \/ count[l] = 0

-----------------------------------------------------------------------------
(* The listener threads                                                    *)

Goto(l, at) == listening' = [listening EXCEPT ![l] = at]

Acquire(l) ==
  /\ running /\ listening[l] = "acquire"
  /\ IF SlotFree(l)
     THEN active' = Taken(l) /\ Goto(l, "accept")
     ELSE Goto(l, "wait") /\ UNCHANGED active
  /\ UNCHANGED <<process, idlePolls, handler, reply, wire, client, executed,
                 faults>>

Waiting(l) == {c \in Clients : ListenerOf[c] = l /\ link[c] = "backlog"}

(* The permit moves from the listener to the handler it spawns.            *)
Accept(l, c) ==
  /\ running /\ listening[l] = "accept" /\ c \in Waiting(l)
  /\ link' = [link EXCEPT ![c] = "open"]
  /\ handler' = [handler EXCEPT ![c] = IF l \in Tls THEN "handshake" ELSE "read"]
  /\ idlePolls' = [idlePolls EXCEPT ![l] = 0]
  /\ Goto(l, "acquire")
  /\ UNCHANGED <<process, active, reply, inbox, outbox, client, executed,
                 faults>>

(* The listener's socket goes with it, and the connections still in its    *)
(* backlog are reset.                                                      *)
Ended(l, how) ==
  /\ Goto(l, how)
  /\ link' = [c \in Clients |-> IF c \in Waiting(l) THEN "cut" ELSE link[c]]

(* accept fails, or an accepted stream cannot be configured.               *)
ListenerFails(l) ==
  /\ running /\ listening[l] = "accept" /\ faults < MaxFaults
  /\ active' = Returned(l)
  /\ Ended(l, "failed")
  /\ faults' = faults + 1
  /\ UNCHANGED <<process, idlePolls, handler, reply, inbox, outbox, client,
                 executed>>

Interrupted(l) ==
  /\ running /\ listening[l] = "accept" /\ faults < MaxFaults
  /\ active' = Returned(l)
  /\ Goto(l, "acquire")
  /\ faults' = faults + 1
  /\ UNCHANGED <<process, idlePolls, handler, reply, wire, client, executed>>

BugListenerIsIdle(l, count) == TRUE
ListenerIsIdle(l, count) == PoolIsIdle(l, count)

WouldBlock(l) ==
  LET polls == IF ListenerIsIdle(l, Returned(l)) THEN idlePolls[l] + 1 ELSE 0 IN
  /\ running /\ listening[l] = "accept"
  /\ l \in Nonblocking /\ Waiting(l) = {}
  /\ active' = Returned(l)
  /\ idlePolls' = [idlePolls EXCEPT ![l] = polls]
  /\ IF polls >= PollLimit
     THEN Ended(l, "ok")
     ELSE Goto(l, "acquire") /\ UNCHANGED link
  /\ UNCHANGED <<process, handler, reply, inbox, outbox, client, executed,
                 faults>>

(* run joins the listeners in order.  The first that failed makes it       *)
(* return, and the last; the process ends with every handler in it.        *)
Joined(i) == \A j \in 1..i - 1 : listening[JoinOrder[j]] = "ok"
RunReturns ==
  /\ running
  /\ \E i \in DOMAIN JoinOrder :
       /\ Joined(i)
       /\ \/ listening[JoinOrder[i]] = "failed"
          \/ i = Len(JoinOrder) /\ listening[JoinOrder[i]] = "ok"
  /\ running' = FALSE
  /\ link' = [c \in Clients |->
                IF link[c] \in {"backlog", "open"} THEN "cut" ELSE link[c]]
  /\ handler' = [c \in Clients |-> "none"]
  /\ reply' = [c \in Clients |-> <<>>]
  /\ listening' = [l \in Listeners |->
                     IF listening[l] = "ok" THEN "ok" ELSE "failed"]
  /\ active' = [l \in Listeners |-> 0]
  /\ UNCHANGED <<limit, idlePolls, inbox, outbox, client, executed, faults>>

-----------------------------------------------------------------------------
(* The connection handlers                                                 *)

(* A handler's thread returns or unwinds: its permit and stream drop.      *)
HandlerEnds(c) ==
  /\ handler' = [handler EXCEPT ![c] = "none"]
  /\ reply' = [reply EXCEPT ![c] = <<>>]
  /\ active' = Returned(ListenerOf[c])
  /\ listening' = Woken(ListenerOf[c])
  /\ link' = [link EXCEPT ![c] = IF @ = "open" THEN "cut" ELSE @]
  /\ UNCHANGED <<process, idlePolls, client>>

(* The client's first write drives the handshake.                          *)
Authenticate(c) ==
  /\ handler[c] = "handshake" /\ inbox[c] # <<>> /\ link[c] = "open"
  /\ IF c \in Refused
     THEN HandlerEnds(c)
     ELSE /\ handler' = [handler EXCEPT ![c] = "read"]
          /\ UNCHANGED <<process, listening, active, idlePolls, reply, link,
                         client>>
  /\ UNCHANGED <<inbox, outbox, executed, faults>>

ToWrite(c, id, as) ==
  /\ handler' = [handler EXCEPT ![c] = "write"]
  /\ reply' = [reply EXCEPT ![c] = [id |-> id, as |-> as]]

ReadFrame(c) ==
  LET frame == Head(inbox[c]) IN
  /\ handler[c] = "read" /\ inbox[c] # <<>>
  /\ inbox' = [inbox EXCEPT ![c] = Tail(@)]
  /\ \/ /\ frame.kind = "command"
        /\ handler' = [handler EXCEPT ![c] = "execute"]
        /\ reply' = [reply EXCEPT ![c] = [id |-> frame.id, as |-> "pending"]]
        /\ UNCHANGED <<process, listening, active, idlePolls, link, client>>
     \/ /\ frame.kind \in {"undecodable", "not_a_command"}
        /\ ToWrite(c, frame.id, "error")
        /\ UNCHANGED <<process, listening, active, idlePolls, link, client>>
     \/ frame.kind = "bad_magic" /\ HandlerEnds(c)
  /\ UNCHANGED <<outbox, executed, faults>>

(* The stream is at its end or reset, in the handshake or between frames.  *)
StreamEnds(c) ==
  /\ handler[c] \in {"handshake", "read"}
  /\ link[c] = "cut" \/ (link[c] = "closed" /\ inbox[c] = <<>>)
  /\ HandlerEnds(c)
  /\ UNCHANGED <<inbox, outbox, executed, faults>>

(* A command the engine refuses may have been executed in part.            *)
Execute(c) ==
  /\ handler[c] = "execute"
  /\ \/ /\ ToWrite(c, reply[c].id, "result")
        /\ executed' = executed \cup {reply[c].id}
     \/ /\ ToWrite(c, reply[c].id, "error")
        /\ UNCHANGED executed
  /\ UNCHANGED <<process, listening, active, idlePolls, wire, client, faults>>

EnginePanics(c) ==
  /\ handler[c] = "execute" /\ faults < MaxFaults
  /\ faults' = faults + 1
  /\ \/ executed' = executed \cup {reply[c].id}
     \/ UNCHANGED executed
  /\ HandlerEnds(c)
  /\ UNCHANGED <<inbox, outbox>>

WriteReply(c) ==
  /\ handler[c] = "write"
  /\ IF link[c] = "open"
     THEN /\ outbox' = [outbox EXCEPT ![c] = Append(@, reply[c])]
          /\ handler' = [handler EXCEPT ![c] = "read"]
          /\ reply' = [reply EXCEPT ![c] = <<>>]
          /\ UNCHANGED <<process, listening, active, idlePolls, link, client>>
     ELSE HandlerEnds(c) /\ UNCHANGED outbox
  /\ UNCHANGED <<inbox, executed, faults>>

ConnectionBreaks(c) ==
  /\ link[c] = "open" /\ faults < MaxFaults
  /\ link' = [link EXCEPT ![c] = "cut"]
  /\ faults' = faults + 1
  /\ UNCHANGED <<server, inbox, outbox, client, executed>>

-----------------------------------------------------------------------------
(* The clients                                                             *)

(* ClientDriver::open connects once; nothing connects again.  A TLS        *)
(* handshake is left to the first write.                                   *)
Open(c) ==
  /\ link[c] = "unopened"
  /\ link' = [link EXCEPT ![c] =
                IF running /\ listening[ListenerOf[c]] \notin {"ok", "failed"}
                THEN "backlog" ELSE "closed"]
  /\ UNCHANGED <<server, inbox, outbox, client, executed, faults>>

Begin(t, c, k) ==
  /\ call[t] = <<>> /\ calls < MaxCalls
  /\ link[c] \in {"backlog", "open", "cut"}
  /\ calls' = calls + 1
  /\ call' = [call EXCEPT ![t] =
                [client |-> c, id |-> calls + 1, kind |-> k, at |-> "lock"]]
  /\ UNCHANGED <<server, wire, mutex, answers, executed, faults>>

BugStreamFree(c) == TRUE
StreamFree(c) == mutex[c] = Free

(* The mutex is taken and the frame written; a stream that is gone fails   *)
(* the call.                                                               *)
Send(t) ==
  /\ call[t] # <<>> /\ call[t].at = "lock"
  /\ LET c == call[t].client IN
     /\ StreamFree(c)
     /\ IF link[c] = "cut"
        THEN /\ call' = [call EXCEPT ![t] = <<>>]
             /\ UNCHANGED <<mutex, inbox>>
        ELSE /\ mutex' = [mutex EXCEPT ![c] = t]
             /\ call' = [call EXCEPT ![t].at = "read"]
             /\ inbox' = [inbox EXCEPT ![c] =
                  Append(@, [id |-> call[t].id, kind |-> call[t].kind])]
  /\ UNCHANGED <<server, link, outbox, answers, calls, executed, faults>>

Leaves(t) ==
  /\ call' = [call EXCEPT ![t] = <<>>]
  /\ mutex' = [mutex EXCEPT ![call[t].client] = Free]

Receive(t) ==
  /\ call[t] # <<>> /\ call[t].at = "read"
  /\ LET c == call[t].client IN
     /\ outbox[c] # <<>>
     /\ outbox' = [outbox EXCEPT ![c] = Tail(@)]
     /\ answers' = answers \cup
          {[call |-> call[t].id, answer |-> Head(outbox[c])]}
  /\ Leaves(t)
  /\ UNCHANGED <<server, link, inbox, calls, executed, faults>>

ReceiveFails(t) ==
  /\ call[t] # <<>> /\ call[t].at = "read"
  /\ link[call[t].client] = "cut"
  /\ Leaves(t)
  /\ UNCHANGED <<server, wire, answers, calls, executed, faults>>

CallsOn(c) == {t \in Threads : call[t] # <<>> /\ call[t].client = c}

(* The application drops the client, which no call can be using.           *)
Close(c) ==
  /\ link[c] \in {"backlog", "open"}
  /\ CallsOn(c) = {}
  /\ link' = [link EXCEPT ![c] = "closed"]
  /\ UNCHANGED <<server, inbox, outbox, client, executed, faults>>

-----------------------------------------------------------------------------
ListenerStep(l) ==
  Acquire(l) \/ WouldBlock(l) \/ \E c \in Clients : Accept(l, c)
HandlerStep(c) ==
  \/ Authenticate(c) \/ ReadFrame(c) \/ StreamEnds(c)
  \/ Execute(c) \/ WriteReply(c)
ThreadStep(t) == Send(t) \/ Receive(t) \/ ReceiveFails(t)
Fault ==
  \/ \E l \in Listeners : ListenerFails(l) \/ Interrupted(l)
  \/ \E c \in Clients : EnginePanics(c) \/ ConnectionBreaks(c)

Next ==
  \/ \E l \in Listeners : ListenerStep(l)
  \/ \E c \in Clients : HandlerStep(c) \/ Open(c) \/ Close(c)
  \/ \E t \in Threads :
       ThreadStep(t) \/ \E c \in Clients, k \in Kinds : Begin(t, c, k)
  \/ RunReturns \/ Fault

(* The system schedules the server's threads and the callers, and an       *)
(* application ends by dropping its clients: otherwise a client that is    *)
(* idle keeps its permit and one behind it may wait for ever.              *)
Fairness ==
  /\ \A l \in Listeners : WF_vars(ListenerStep(l))
  /\ \A c \in Clients : WF_vars(HandlerStep(c)) /\ WF_vars(Close(c))
  /\ \A t \in Threads : WF_vars(ThreadStep(t))
  /\ WF_vars(RunReturns)

Spec == Init /\ [][Next]_vars /\ Fairness

-----------------------------------------------------------------------------
(* A pool counts the permits that exist, one for each live handler and one *)
(* for the listener that is accepting, and never more than its limit: an   *)
(* accept that fails, a refused client, a handler that panics and a reset  *)
(* connection all give their permit back, once.                            *)
HandlersOf(l) == {c \in Clients : ListenerOf[c] = l /\ handler[c] # "none"}
PermitsMatchHandlers ==
  \A l \in Listeners : (running /\ Limited(l)) =>
    /\ active[l] = Cardinality(HandlersOf(l))
                   + IF listening[l] = "accept" THEN 1 ELSE 0
    /\ active[l] <= limit[l]

(* A listener that gives up because it is idle leaves no connection behind *)
(* that it counted: not one in its handshake, not one in the middle of a   *)
(* command.  (Without a limit nothing is counted.)                         *)
IdleEndServesNobody ==
  \A l \in Listeners : (Limited(l) /\ listening[l] = "ok") => HandlersOf(l) = {}

(* What a call is answered is the answer to that call, though threads share *)
(* the stream and calls fail half way, and a result means that the engine   *)
(* executed the command.                                                    *)
AnswersTheirCall ==
  \A a \in answers :
    /\ a.answer.id = a.call
    /\ a.answer.as = "result" => a.call \in executed

(* Every call comes to an end: a connection in the backlog of a full pool  *)
(* is accepted when a slot is free or reset when the listener ends.        *)
EveryCallEnds == \A t \in Threads : call[t] # <<>> ~> call[t] = <<>>

=============================================================================
