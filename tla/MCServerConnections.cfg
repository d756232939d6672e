CONSTANTS
  tcp = tcp
  sock = sock
  c1 = c1
  c2 = c2
  t1 = t1
  t2 = t2
  Free = Free
  Listeners = {tcp, sock}
  Clients = {c1, c2}
  Threads = {t1, t2}
  Kinds = {"command", "undecodable", "bad_magic"}
  JoinOrder <- MCJoinOrder
  Limits <- MCLimits
  ListenerOf <- MCListenerOf
  Tls = {tcp}
  Nonblocking = {tcp}
  Refused = {c2}
  PollLimit = 2
  MaxCalls = 2
  MaxFaults = 1
CHECK_DEADLOCK FALSE
SPECIFICATION Spec
INVARIANTS TypeOK PermitsMatchHandlers IdleEndServesNobody AnswersTheirCall
PROPERTY EveryCallEnds
