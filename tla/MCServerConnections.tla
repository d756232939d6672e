----------------------- MODULE MCServerConnections -----------------------
(* A TLS listener with two clients, handed over in nonblocking mode, for   *)
(* one connection at a time and for two, and a socket listener without a   *)
(* limit that nobody connects to.                                          *)
EXTENDS ServerConnections
CONSTANTS tcp, sock, c1, c2, t1, t2
MCJoinOrder == <<tcp, sock>>
MCLimits ==
  {[l \in Listeners |-> IF l = tcp THEN n ELSE 0] : n \in {1, 2}}
MCListenerOf == [c \in Clients |-> tcp]
=============================================================================
