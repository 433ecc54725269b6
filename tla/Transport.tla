----------------------------- MODULE Transport -----------------------------
(***************************************************************************)
(* The two ZeroMQ sockets of the reproducer as worker.py and broker.py use *)
(* them: the worker's DEALER, which may be connected twice in a run, and   *)
(* the broker's ROUTER.  Both belong to libzmq, which is not in src/.      *)
(*                                                                         *)
(* A connection has a queue towards the broker (up) and one towards the    *)
(* worker (down).  The ROUTER knows its peers by routing id and, without   *)
(* ROUTER_HANDOVER, ignores a new connection whose routing id is still     *)
(* held by another: the worker sees a working connection, and what it      *)
(* sends is lost.  LINGER is 0 on both sides (config.py 45), so a socket   *)
(* that closes loses what it has not handed over yet.                      *)
(*                                                                         *)
(* Bound: a HEARTBEAT is not queued again while the same one waits in the  *)
(* queue; the next one is, once that one has been read.                    *)
(***************************************************************************)
EXTENDS Naturals, Sequences

CONSTANTS
  Sessions, Routes, Jobs, None,
  RouteOf      \* the routing id of each connection

\* The first connection and the one a reconnect makes.
Conns == 1..2

VARIABLES
  config,  \* the options of the run, set once by the harness
  link,    \* per connection: its state, as seen by the ROUTER
  up,      \* per connection: sent by the worker, not yet read
  down,    \* per connection: sent by the broker, not yet read
  bound    \* the ROUTER socket is open

transport == <<link, up, down, bound>>

\* ZMQ_IMMEDIATE: no queue before the connection is complete.
Immediate == config.immediate = 1

\* "closing": closed by the worker, not yet noticed by the ROUTER.
LinkStates == {"unused", "connecting", "attached", "refused", "closing",
               "gone"}

Msg(type, route, session, job) ==
  [type |-> type, route |-> route, session |-> session, job |-> job]

TransportInit ==
  /\ link = [c \in Conns |-> "unused"]
  /\ up = [c \in Conns |-> <<>>]
  /\ down = [c \in Conns |-> <<>>]
  /\ bound = TRUE

Prefixes(q) == {SubSeq(q, 1, n) : n \in 0..Len(q)}

Queued(q, m) ==
  IF m.type = "HEARTBEAT" /\ \E i \in 1..Len(q) : q[i] = m THEN q
  ELSE Append(q, m)

\* The ROUTER still knows a peer by the routing id of c.
Held(c) ==
  \E d \in Conns \ {c} :
    RouteOf[d] = RouteOf[c] /\ link[d] \in {"attached", "closing"}

\* The handshake of c completes.
Attach(c) ==
  /\ bound
  /\ link[c] = "connecting"
  /\ IF Held(c)
       THEN /\ link' = [link EXCEPT ![c] = "refused"]
            /\ up' = [up EXCEPT ![c] = <<>>]
       ELSE /\ link' = [link EXCEPT ![c] = "attached"]
            /\ UNCHANGED up
  /\ UNCHANGED <<down, bound>>

\* The ROUTER has read all that arrived on a closed connection.
Forget(c) ==
  /\ link[c] = "closing"
  /\ up[c] = <<>>
  /\ link' = [link EXCEPT ![c] = "gone"]
  /\ UNCHANGED <<up, down, bound>>

\* The broker closes its socket; libzmq goes on connecting the worker's.
Unbind ==
  /\ bound
  /\ bound' = FALSE
  /\ link' = [c \in Conns |->
                CASE link[c] \in {"attached", "refused"} -> "connecting"
                  [] link[c] = "closing" -> "gone"
                  [] OTHER -> link[c]]
  /\ up' = [c \in Conns |-> <<>>]
  /\ \E q \in [Conns -> UNION {Prefixes(down[c]) : c \in Conns}] :
       /\ \A c \in Conns : q[c] \in Prefixes(down[c])
       /\ down' = q

\* A send finds a queue unless IMMEDIATE asks for a complete connection.
Writable(c) == link[c] \in {"attached", "refused"} \/ ~Immediate

\* up and link once the worker has sent m on c.
WithSent(c, m) ==
  IF link[c] = "refused" \/ ~bound THEN up
  ELSE [up EXCEPT ![c] = Queued(@, m)]

\* What may have reached the ROUTER of a connection the worker closes.
HandedOver(c) ==
  CASE link[c] = "attached" -> Prefixes(up[c])
    [] link[c] = "closing" -> {up[c]}
    [] OTHER -> {<<>>}

Closed(c) == IF link[c] \in {"attached", "closing"} THEN "closing" ELSE "gone"

\* A message the broker sends goes to the connection its routing id names, if
\* there is one, and nowhere otherwise.
Routed(m) ==
  [c \in Conns |->
     IF link[c] = "attached" /\ RouteOf[c] = m.route
       THEN Queued(down[c], m) ELSE down[c]]
=============================================================================
