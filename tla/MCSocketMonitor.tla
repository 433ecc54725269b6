--------------------------- MODULE MCSocketMonitor --------------------------
(* Instances of SocketMonitor: the codes are libzmq's, and a value is a    *)
(* descriptor, an errno, an interval or nothing.                           *)
EXTENDS SocketMonitor

CONNECTED == 1
CONNECT_DELAYED == 2
CONNECT_RETRIED == 4
DISCONNECTED == 512
MONITOR_STOPPED == 1024
HANDSHAKE_SUCCEEDED == 4096

Names == {CONNECTED, CONNECT_DELAYED, CONNECT_RETRIED, DISCONNECTED,
          MONITOR_STOPPED, HANDSHAKE_SUCCEEDED}
OfReconnection == Names \ {MONITOR_STOPPED}

\* A connection as libzmq reports it: connected on descriptor 4.
Connection ==
  {[code |-> CONNECTED, value |-> 4], [code |-> HANDSHAKE_SUCCEEDED, value |-> 0]}
=============================================================================
