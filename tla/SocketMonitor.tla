--------------------------- MODULE SocketMonitor ----------------------------
(***************************************************************************)
(* socket_monitor.py beside the WorkerSocket that owns it: a thread reads  *)
(* the events libzmq sends of the socket through an inproc PAIR, labels    *)
(* them with the socket generation it asks its owner for, and counts those *)
(* of a reconnection.  A full reconnect stops the thread, closes both      *)
(* sockets and makes new ones, with a new monitor and a new count.         *)
(* join(2.0) may expire before the thread has ended, so a monitor may be   *)
(* left behind: the state of monitor g, of the socket of generation g, is  *)
(* at index g.                                                             *)
(*                                                                         *)
(* An event is [code, value]; libzmq packs them in the first frame, 16     *)
(* bits and 32 bits, little-endian, and sends the endpoint in the second.  *)
(*                                                                         *)
(* Bounds: MaxReconnects full reconnects, MaxEvents events of a behaviour. *)
(***************************************************************************)
EXTENDS Naturals, Sequences, Functions

CONSTANTS
  EventNames,        \* the codes EVENT_NAMES has a name for
  ReconnectEvents,   \* the codes RECONNECT_EVENTS counts
  None,
  Events,            \* what libzmq may report: [code, value]
  MaxReconnects, MaxEvents

ASSUME MonitorAssumption ==
  /\ EventNames \subseteq 0..(2^16 - 1) /\ ReconnectEvents \subseteq EventNames
  /\ \A e \in Events : e.code \in EventNames /\ e.value \in Nat
  /\ MaxReconnects \in Nat /\ MaxEvents \in Nat

VARIABLES
  owner,               \* where the thread that owns the socket is
  socket_generation,
  stop,                \* the event of that name, of each monitor
  thread,              \* each monitor's thread: where it is
  held,                \* the event it has taken
  reconnect_event_count,
  pipe,                \* the queue of the current PAIR: events, each with its socket
  timeline,            \* what the monitors reported
  reconnect_events,    \* what the run ended up with in its statistics
  outlived,            \* (history) the monitors whose join expired
  emitted

monitors == <<stop, thread, held, reconnect_event_count>>
reports == <<timeline, reconnect_events>>
vars == <<owner, socket_generation, monitors, pipe, reports, outlived, emitted>>

Generations == 0..MaxReconnects

Init ==
  /\ owner = "connect"
  /\ socket_generation = 0
  /\ stop = [g \in Generations |-> FALSE]
  /\ thread = [g \in Generations |-> "off"]
  /\ held = [g \in Generations |-> None]
  /\ reconnect_event_count = [g \in Generations |-> 0]
  /\ pipe = <<>>
  /\ timeline = <<>>
  /\ reconnect_events = 0
  /\ outlived = {}
  /\ emitted = 0

-----------------------------------------------------------------------------
(* libzmq.                                                                 *)

FirstFrame(e) == e.code + 2^16 * e.value

\* Before the PAIR is connected an event may be lost; once it is closed, all are.
Emit(e) ==
  /\ emitted < MaxEvents
  /\ owner \notin {"connect", "create", "closed"}
  /\ emitted' = emitted + 1
  /\ \/ /\ owner # "close"
        /\ pipe' = Append(pipe, [first |-> FirstFrame(e), code |-> e.code,
                                 of |-> socket_generation])
     \/ owner \in {"start", "close"} /\ UNCHANGED pipe
  /\ UNCHANGED <<owner, socket_generation, monitors, reports, outlived>>

-----------------------------------------------------------------------------
(* The owner.                                                              *)

\* _create_socket: a socket with a monitor attached, then socket.connect.
CreateSocket ==
  /\ owner \in {"connect", "create"}
  /\ owner' = "start"
  /\ pipe' = <<>>
  /\ UNCHANGED <<socket_generation, monitors, reports, outlived, emitted>>

\* SocketMonitor.start.
StartMonitor ==
  /\ owner = "start"
  /\ owner' = "use"
  /\ stop' = [stop EXCEPT ![socket_generation] = FALSE]
  /\ thread' = [thread EXCEPT ![socket_generation] = "loop"]
  /\ UNCHANGED <<socket_generation, held, reconnect_event_count, pipe, reports,
                 outlived, emitted>>

\* The end of a blocking run: the statistics take the count of the last monitor.
TakeCount ==
  /\ owner = "use"
  /\ owner' = "end"
  /\ reconnect_events' = reconnect_event_count[socket_generation]
  /\ UNCHANGED <<socket_generation, monitors, pipe, timeline, outlived, emitted>>

\* SocketMonitor.stop, called by reconnect_full and by shutdown; only a run that
\* ends in the blocking loop has taken the count before.
StopMonitor ==
  /\ \/ owner = "use" /\ socket_generation < MaxReconnects /\ owner' = "join"
     \/ owner \in {"use", "end"} /\ owner' = "last_join"
  /\ stop' = [stop EXCEPT ![socket_generation] = TRUE]
  /\ UNCHANGED <<socket_generation, thread, held, reconnect_event_count, pipe,
                 reports, outlived, emitted>>

\* Mutant: the monitor is told to stop and not waited for.
JoinAtOnce == owner \in {"join", "last_join"}

\* thread.join(timeout=2.0) sees the thread end, or gives up.
Joined == owner \in {"join", "last_join"} /\ thread[socket_generation] = "ended"
JoinExpires == owner \in {"join", "last_join"} /\ thread[socket_generation] # "ended"

\* Either way the PAIR is closed, what is in it is gone, and _monitor is None.
CloseMonitor ==
  /\ \/ Joined /\ UNCHANGED outlived
     \/ JoinExpires /\ outlived' = outlived \cup {socket_generation}
  /\ owner' = IF owner = "join" THEN "close" ELSE "closed"
  /\ pipe' = <<>>
  /\ UNCHANGED <<socket_generation, monitors, reports, emitted>>

\* The socket is closed; the new generation is set before the new socket is.
CloseSocket ==
  /\ owner = "close"
  /\ owner' = "create"
  /\ socket_generation' = socket_generation + 1
  /\ UNCHANGED <<monitors, pipe, reports, outlived, emitted>>

-----------------------------------------------------------------------------
(* The thread of monitor g.                                                *)

\* Mutant: the low 16 bits of the value taken for the event.
DecodeValue(first) == (first \div 2^16) % 2^16

\* int.from_bytes(msg[0], "little"), of the whole frame.
Decode(first) == first

\* Its PAIR is open.
Open(g) == g = socket_generation /\ owner \in {"use", "end", "join", "last_join"}

\* A round: the flag is read, then poll(200) waits for an event.
StartRound(g) ==
  /\ thread[g] = "loop" /\ ~stop[g]
  /\ thread' = [thread EXCEPT ![g] = "poll"]
  /\ UNCHANGED <<owner, socket_generation, stop, held, reconnect_event_count, pipe,
                 reports, outlived, emitted>>

NothingCame(g) ==
  /\ thread[g] = "poll"
  /\ thread' = [thread EXCEPT ![g] = "loop"]
  /\ UNCHANGED <<owner, socket_generation, stop, held, reconnect_event_count, pipe,
                 reports, outlived, emitted>>

\* The PAIR was closed under it: polling it, or receiving from None, raises.
PairGone(g) ==
  /\ thread[g] = "poll" /\ ~Open(g)
  /\ thread' = [thread EXCEPT ![g] = "ended"]
  /\ UNCHANGED <<owner, socket_generation, stop, held, reconnect_event_count, pipe,
                 reports, outlived, emitted>>

TakeEvent(g) ==
  /\ thread[g] = "poll" /\ Open(g)
  /\ pipe # <<>>
  /\ thread' = [thread EXCEPT ![g] = "report"]
  /\ held' = [held EXCEPT ![g] = Head(pipe)]
  /\ pipe' = Tail(pipe)
  /\ UNCHANGED <<owner, socket_generation, stop, reconnect_event_count, reports,
                 outlived, emitted>>

\* The owner is asked for its generation only now.
Report(g) ==
  /\ thread[g] = "report"
  /\ thread' = [thread EXCEPT ![g] = "loop"]
  /\ held' = [held EXCEPT ![g] = None]
  /\ LET id == Decode(held[g].first)
     IN  /\ timeline' = Append(timeline,
                          [code |-> held[g].code, id |-> id, of |-> held[g].of,
                           generation |-> socket_generation])
         /\ reconnect_event_count' =
              [reconnect_event_count EXCEPT
                 ![g] = @ + (IF id \in ReconnectEvents THEN 1 ELSE 0)]
  /\ UNCHANGED <<owner, socket_generation, stop, pipe, reconnect_events, outlived,
                 emitted>>

ThreadEnds(g) ==
  /\ thread[g] = "loop" /\ stop[g]
  /\ thread' = [thread EXCEPT ![g] = "ended"]
  /\ UNCHANGED <<owner, socket_generation, stop, held, reconnect_event_count, pipe,
                 reports, outlived, emitted>>

Next ==
  \/ \E e \in Events : Emit(e)
  \/ CreateSocket
  \/ StartMonitor
  \/ TakeCount
  \/ StopMonitor
  \/ CloseMonitor
  \/ CloseSocket
  \/ \E g \in Generations :
       \/ StartRound(g)
       \/ NothingCame(g)
       \/ PairGone(g)
       \/ TakeEvent(g)
       \/ Report(g)
       \/ ThreadEnds(g)

Spec == Init /\ [][Next]_vars

-----------------------------------------------------------------------------
Reported == Range(timeline)

Mislabelled(r) == r.generation # r.of

\* socket_monitor.py 97-104, 124: the generation is asked for late, so an event
\* may bear that of a later socket; but only one event of a monitor whose join
\* expired: a thread left behind reports what it holds and nothing more.
GenerationIsTrue ==
  /\ \A r \in Reported : Mislabelled(r) => r.of \in outlived /\ r.generation > r.of
  /\ \A i, j \in DOMAIN timeline :
       Mislabelled(timeline[i]) /\ Mislabelled(timeline[j])
         /\ timeline[i].of = timeline[j].of => i = j

\* An event reported by a name is the event of that name.
NameIsTrue == \A r \in Reported : r.id \in EventNames => r.id = r.code
=============================================================================
