------------------------------- MODULE Worker -------------------------------
(***************************************************************************)
(* The DEALER worker of zmq-reply-reproducer/worker.py: one run of         *)
(* Worker.run().  The network side is the whole run in the mode            *)
(* blocking-network-loop and a thread of its own in the mode               *)
(* separate-job-thread, where a job thread sleeps the job out and the      *)
(* caller waits for the result to be sent.                                 *)
(*                                                                         *)
(* Time is left out: a wait with a deadline may end at any moment without  *)
(* its message, and the job and the caller's 60 s last any time.           *)
(***************************************************************************)
EXTENDS Transport

CONSTANT SessionOf   \* the session id drawn for each socket generation

VARIABLES
  net,                  \* where the network side is
  conn,                 \* the connection in use
  socket_generation,
  socket,               \* the socket is open
  current_session_id,   \* _current_session_id, the last one acknowledged
  stats,                \* WorkerStats
  job_thread,           \* the job: absent, running, or in _result_queue
  stop,                 \* _stop
  caller                \* where run() is

worker == <<net, conn, socket_generation, socket, current_session_id, stats,
            job_thread, stop, caller>>
vars == <<config, transport, worker>>

\* What a run varies of WorkerConfig and ZmqSocketOptions; send_mode is
\* "dontwait" also for a finite SNDTIMEO.
WorkerConfig ==
  [strategy : {"no-reconnect", "auto-reconnect-only",
               "manual-reconnect-immediate", "reconnect-then-delay",
               "manual-reconnect-heartbeat", "manual-reconnect-ready-ack"},
   reconnect_mode : {"light", "full"},
   threading_mode : {"blocking-network-loop", "separate-job-thread"},
   echo_heartbeat : BOOLEAN,
   send_mode : {"blocking", "dontwait"},
   immediate : {0, 1}]

session_id == SessionOf[socket_generation]

Separate == config.threading_mode = "separate-job-thread"

\* The handshake under way is the first one: no job has been taken yet.
Initial == stats.job_id = None

WorkerStats == [send_succeeded : BOOLEAN,
                result_ack_received : BOOLEAN,
                worker_was_ready : BOOLEAN,
                session_validated_heartbeat : BOOLEAN,
                session_validated_ready_ack : BOOLEAN,
                session_validated_result_ack : BOOLEAN,
                manual_reconnect_performed : BOOLEAN,
                job_id : Jobs \union {None}]

WorkerInit ==
  /\ net = "start"
  /\ conn = 1
  /\ socket_generation = 0
  /\ socket = FALSE
  /\ current_session_id = None
  /\ stats = [send_succeeded |-> FALSE,
              result_ack_received |-> FALSE,
              worker_was_ready |-> FALSE,
              session_validated_heartbeat |-> FALSE,
              session_validated_ready_ack |-> FALSE,
              session_validated_result_ack |-> FALSE,
              manual_reconnect_performed |-> FALSE,
              job_id |-> None]
  /\ job_thread = "none"
  /\ stop = FALSE
  /\ caller = "waiting"

-----------------------------------------------------------------------------
(* WorkerSocket.                                                           *)

\* send_message: TRUE once the message is queued; without a queue it waits or,
\* under dontwait, fails.
SendMessage(m, ok) ==
  \/ ok /\ Writable(conn) /\ up' = WithSent(conn, m)
  \/ ~ok /\ ~Writable(conn) /\ config.send_mode = "dontwait" /\ UNCHANGED up

\* recv_message: the next message, if it comes in time.
RecvMessage(m) ==
  /\ socket
  /\ down[conn] # <<>>
  /\ m = Head(down[conn])
  /\ down' = [down EXCEPT ![conn] = Tail(@)]
  /\ UNCHANGED <<link, bound>>

\* A wait ends at its deadline.
Expires == socket /\ UNCHANGED transport

\* connect
Connect ==
  /\ net = "start"
  /\ link' = [link EXCEPT ![conn] = "connecting"]
  /\ socket' = TRUE
  /\ net' = "send_ready"
  /\ UNCHANGED <<up, down, bound, conn, socket_generation, current_session_id,
                 stats, job_thread, stop, caller>>

\* The connection in use is closed, keeping open what the ROUTER may have got.
CloseConnection(open) ==
  /\ link' = [c \in Conns |-> IF c = conn THEN Closed(c)
                              ELSE IF c = conn + 1 /\ open THEN "connecting"
                              ELSE link[c]]
  /\ \E q \in HandedOver(conn) : up' = [up EXCEPT ![conn] = q]
  /\ down' = [down EXCEPT ![conn] = <<>>]
  /\ UNCHANGED bound

\* Mutant: the new socket goes on under the old session id.
SameSessionReconnect(mode) ==
  /\ mode = "light" => socket
  /\ CloseConnection(TRUE)
  /\ conn' = conn + 1
  /\ socket' = TRUE
  /\ UNCHANGED socket_generation

\* reconnect_light asserts that the socket is open; reconnect_full makes a new
\* one either way.  In both the connection is new and unread messages are lost.
Reconnect(mode) ==
  /\ mode = "light" => socket
  /\ CloseConnection(TRUE)
  /\ conn' = conn + 1
  /\ socket' = TRUE
  /\ socket_generation' = socket_generation + IF mode = "full" THEN 1 ELSE 0

-----------------------------------------------------------------------------
(* Heartbeats.                                                             *)

ClassifyHeartbeatSession(m) ==
  IF m.session = session_id THEN "current_session"
  ELSE IF m.session = current_session_id THEN "old_session"
  ELSE "unknown_session"

\* _echo_heartbeat answers under the worker's own session.
EchoOf(m) == Msg("HEARTBEAT", RouteOf[conn], session_id, None)

HandleHeartbeat(m) ==
  /\ stats' = [stats EXCEPT !.session_validated_heartbeat =
                 @ \/ ClassifyHeartbeatSession(m) = "current_session"]
  /\ IF config.echo_heartbeat THEN \E ok \in BOOLEAN : SendMessage(EchoOf(m), ok)
             ELSE UNCHANGED up

-----------------------------------------------------------------------------
(* _send_ready_and_wait_ack.                                               *)

\* Where the network side goes after a handshake.
AfterHandshake(ok) ==
  IF ~Initial THEN "send_result"
  ELSE IF ~ok THEN "end"
  ELSE IF Separate THEN "loop" ELSE "job"

\* A failed first handshake ends the run; separate mode tells its caller so.
HandshakeFails ==
  /\ net' = AfterHandshake(FALSE)
  /\ stop' = (stop \/ (Initial /\ Separate))

\* Mutant: the session counts as acknowledged once READY is sent.
SendReadyUnasked ==
  /\ net = "send_ready"
  /\ socket
  /\ \E ok \in BOOLEAN :
       /\ SendMessage(Msg("READY", RouteOf[conn], session_id, None), ok)
       /\ IF ok THEN net' = "ready_ack" /\ UNCHANGED stop ELSE HandshakeFails
  /\ current_session_id' = session_id
  /\ UNCHANGED <<link, down, bound, conn, socket_generation, socket, stats,
                 job_thread, caller>>

SendReady ==
  /\ net = "send_ready"
  /\ socket
  /\ \E ok \in BOOLEAN :
       /\ SendMessage(Msg("READY", RouteOf[conn], session_id, None), ok)
       /\ IF ok THEN net' = "ready_ack" /\ UNCHANGED stop ELSE HandshakeFails
  /\ UNCHANGED <<link, down, bound, conn, socket_generation, socket,
                 current_session_id, stats, job_thread, caller>>

\* Mutant: the first message of the new session will do.
AnyOfSession(m) == m.session = session_id

Acknowledges(m) == m.type = "READY_ACK" /\ m.session = session_id

WaitReadyAck(m) ==
  /\ net = "ready_ack"
  /\ RecvMessage(m)
  /\ \/ /\ Acknowledges(m)
        /\ current_session_id' = m.session
        /\ stats' = [stats EXCEPT !.worker_was_ready = TRUE,
                                  !.session_validated_ready_ack = TRUE]
        /\ net' = AfterHandshake(TRUE)
        /\ UNCHANGED up
     \/ /\ m.type = "HEARTBEAT"
        /\ HandleHeartbeat(m)
        /\ UNCHANGED <<net, current_session_id>>
     \/ /\ ~Acknowledges(m) /\ m.type # "HEARTBEAT"
        /\ UNCHANGED <<up, net, current_session_id, stats>>
  /\ UNCHANGED <<conn, socket_generation, socket, job_thread, stop, caller>>

ReadyAckTimeout ==
  /\ net = "ready_ack"
  /\ Expires
  /\ HandshakeFails
  /\ UNCHANGED <<conn, socket_generation, socket, current_session_id, stats,
                 job_thread, caller>>

-----------------------------------------------------------------------------
(* The job.                                                                *)

\* The blocking loop takes one message after its handshake; anything but a JOB
\* ends the run.
TakeJob(m) ==
  /\ net = "job"
  /\ RecvMessage(m)
  /\ IF m.type = "JOB"
       THEN /\ stats' = [stats EXCEPT !.job_id = m.job]
            /\ job_thread' = "running"
            /\ net' = "working"
       ELSE net' = "end" /\ UNCHANGED <<stats, job_thread>>
  /\ UNCHANGED <<up, conn, socket_generation, socket, current_session_id,
                 stop, caller>>

NoJob ==
  /\ net = "job"
  /\ Expires
  /\ net' = "end"
  /\ UNCHANGED <<conn, socket_generation, socket, current_session_id, stats,
                 job_thread, stop, caller>>

\* _execute_job_blocking returns; a job thread then queues its result.
FinishJob ==
  /\ job_thread = "running"
  /\ job_thread' = "finished"
  /\ net' = IF Separate THEN net ELSE "strategy"
  /\ UNCHANGED <<transport, conn, socket_generation, socket,
                 current_session_id, stats, stop, caller>>

-----------------------------------------------------------------------------
(* _apply_post_job_strategy.                                               *)

\* Where the network side goes once it has reconnected, if it does.
AfterReconnect ==
  CASE config.strategy = "manual-reconnect-heartbeat" -> "heartbeat"
    [] config.strategy = "manual-reconnect-ready-ack" -> "send_ready"
    [] OTHER -> "send_result"

ReconnectFirst == config.strategy \notin {"no-reconnect", "auto-reconnect-only"}

\* The ready-ack strategy always reconnects in full.
ModeUsed ==
  IF config.strategy = "manual-reconnect-ready-ack" THEN "full" ELSE config.reconnect_mode

ApplyPostJobStrategy ==
  /\ net = "strategy"
  /\ IF ReconnectFirst
       THEN /\ Reconnect(ModeUsed)
            /\ stats' = [stats EXCEPT !.manual_reconnect_performed = TRUE]
            /\ net' = AfterReconnect
       ELSE /\ net' = "send_result"
            /\ UNCHANGED <<transport, conn, socket_generation, socket, stats>>
  /\ UNCHANGED <<current_session_id, job_thread, stop, caller>>

\* _wait_for_heartbeat(expected_session=sock.session_id)
WaitForHeartbeat(m) ==
  /\ net = "heartbeat"
  /\ RecvMessage(m)
  /\ IF m.type = "HEARTBEAT" THEN HandleHeartbeat(m)
                             ELSE UNCHANGED <<up, stats>>
  /\ net' = IF m.type = "HEARTBEAT" /\ m.session = session_id
              THEN "send_result" ELSE net
  /\ UNCHANGED <<conn, socket_generation, socket, current_session_id,
                 job_thread, stop, caller>>

\* Mutant: no deadline.
HeartbeatAwaited == net = "heartbeat" /\ Expires /\ UNCHANGED worker

HeartbeatWaitTimeout ==
  /\ net = "heartbeat"
  /\ Expires
  /\ net' = "send_result"
  /\ UNCHANGED <<conn, socket_generation, socket, current_session_id, stats,
                 job_thread, stop, caller>>

\* _send_result queues the message; the separate loop has emptied its queue by
\* then.
SendResult ==
  /\ net = "send_result"
  /\ socket
  /\ \E ok \in BOOLEAN :
       /\ SendMessage(Msg("RESULT", RouteOf[conn], session_id, stats.job_id), ok)
       /\ net' = IF ok THEN "sent" ELSE "not_sent"
  /\ UNCHANGED <<link, down, bound, conn, socket_generation, socket,
                 current_session_id, stats, job_thread, stop, caller>>

\* Mutant: whether it was sent is not kept.
RecordNothing ==
  /\ net \in {"sent", "not_sent"}
  /\ net' = IF Separate THEN "poll" ELSE "result_ack"
  /\ UNCHANGED <<transport, conn, socket_generation, socket,
                 current_session_id, stats, job_thread, stop, caller>>

\* _send_result keeps in the statistics whether it was, a step later: by then
\* the broker may have the message, or run() have returned.
RecordSend ==
  /\ net \in {"sent", "not_sent"}
  /\ stats' = [stats EXCEPT !.send_succeeded = (net = "sent")]
  /\ net' = IF Separate THEN "poll" ELSE "result_ack"
  /\ UNCHANGED <<transport, conn, socket_generation, socket,
                 current_session_id, job_thread, stop, caller>>

\* Mutant: any ack will do.
AnyAnswer(m) == m.type \in {"READY_ACK", "RESULT_ACK"}

Answers(m) == m.type = "RESULT_ACK" /\ m.job = stats.job_id

Answered(s) ==
  [s EXCEPT !.result_ack_received = TRUE, !.session_validated_result_ack = TRUE]

\* _wait_result_ack, run even when the send failed.
WaitResultAck(m) ==
  /\ net = "result_ack"
  /\ RecvMessage(m)
  /\ \/ m.type = "HEARTBEAT" /\ HandleHeartbeat(m) /\ UNCHANGED net
     \/ Answers(m) /\ stats' = Answered(stats) /\ net' = "end" /\ UNCHANGED up
     \/ /\ m.type # "HEARTBEAT" /\ ~Answers(m)
        /\ UNCHANGED <<up, stats, net>>
  /\ UNCHANGED <<conn, socket_generation, socket, current_session_id,
                 job_thread, stop, caller>>

ResultAckTimeout ==
  /\ net = "result_ack"
  /\ Expires
  /\ net' = "end"
  /\ UNCHANGED <<conn, socket_generation, socket, current_session_id, stats,
                 job_thread, stop, caller>>

-----------------------------------------------------------------------------
(* _network_loop_separate_with_strategy.                                   *)

\* The head of the loop: _stop, then the result queue.
Loop ==
  /\ net = "loop"
  /\ net' = IF stop THEN "end"
            ELSE IF job_thread = "finished" THEN "strategy" ELSE "poll"
  /\ job_thread' = IF net' = "strategy" THEN "none" ELSE job_thread
  /\ UNCHANGED <<transport, conn, socket_generation, socket,
                 current_session_id, stats, stop, caller>>

\* Mutant: the poller follows the socket.
PolledAlways == TRUE

\* The poller was given the first socket, which a full reconnect closes.
Polled == socket_generation = 0

\* Only the first JOB is taken; a RESULT_ACK counts whatever job it names.
PollReceives(m) ==
  /\ net = "poll"
  /\ Polled
  /\ RecvMessage(m)
  /\ IF m.type = "JOB" /\ Initial
       THEN /\ stats' = [stats EXCEPT !.job_id = m.job]
            /\ job_thread' = "running"
            /\ UNCHANGED up
       ELSE /\ UNCHANGED job_thread
            /\ CASE m.type = "HEARTBEAT" -> HandleHeartbeat(m)
                 [] m.type = "RESULT_ACK" -> stats' = Answered(stats)
                                               /\ UNCHANGED up
                 [] OTHER -> UNCHANGED <<stats, up>>
  /\ net' = "loop"
  /\ UNCHANGED <<conn, socket_generation, socket, current_session_id, stop,
                 caller>>

\* 200 ms without a message; polling a closed socket finds none or raises.
PollTimeout ==
  /\ net = "poll"
  /\ UNCHANGED transport
  /\ \/ net' = "loop"
     \/ net' = "dead" /\ ~(Polled /\ socket)
  /\ UNCHANGED <<conn, socket_generation, socket, current_session_id, stats,
                 job_thread, stop, caller>>

-----------------------------------------------------------------------------
(* run().                                                                  *)

NetEnded == net \in {"end", "dead"}

\* _run_separate_job_thread: the result is sent, or 60 s are over.
CallerStops ==
  /\ Separate
  /\ caller = "waiting"
  /\ net # "start"
  /\ stop' = (stop \/ ~NetEnded)
  /\ caller' = "joining"
  /\ UNCHANGED <<transport, net, conn, socket_generation, socket,
                 current_session_id, stats, job_thread>>

\* The join, which the network thread may outlast wherever it is, then the
\* shutdown of the finally clause.
Return ==
  /\ \/ ~Separate /\ caller = "waiting" /\ NetEnded
     \/ Separate /\ caller = "joining"
  /\ caller' = "returned"
  /\ socket' = FALSE
  /\ IF socket THEN CloseConnection(FALSE) ELSE UNCHANGED transport
  /\ UNCHANGED <<net, conn, socket_generation, current_session_id, stats,
                 job_thread, stop>>

\* The network thread outlives run() and needs the socket: AssertionError.
UsesClosedSocket ==
  /\ ~socket
  /\ \/ net \in {"send_ready", "ready_ack", "heartbeat", "send_result"}
     \/ net = "strategy" /\ ReconnectFirst /\ ModeUsed = "light"
  /\ net' = "dead"
  /\ UNCHANGED <<transport, conn, socket_generation, socket,
                 current_session_id, stats, job_thread, stop, caller>>

-----------------------------------------------------------------------------
Receives(m) ==
  \/ WaitReadyAck(m)
  \/ TakeJob(m)
  \/ WaitForHeartbeat(m)
  \/ WaitResultAck(m)
  \/ PollReceives(m)

\* The steps the worker takes by itself.
Acts ==
  \/ Connect
  \/ SendReady
  \/ ReadyAckTimeout
  \/ NoJob
  \/ ApplyPostJobStrategy
  \/ HeartbeatWaitTimeout
  \/ SendResult
  \/ RecordSend
  \/ ResultAckTimeout
  \/ Loop
  \/ PollTimeout
  \/ UsesClosedSocket

Network == Acts \/ (down[conn] # <<>> /\ Receives(Head(down[conn])))

Step == (Network \/ FinishJob \/ CallerStops \/ Return) /\ UNCHANGED config

-----------------------------------------------------------------------------
\* Every variable stays in the range of the Python object it stands for.
WorkerTypeOK ==
  /\ link \in [Conns -> LinkStates]
  /\ bound \in BOOLEAN
  /\ net \in {"start", "send_ready", "ready_ack", "job", "working", "strategy",
              "heartbeat", "send_result", "sent", "not_sent", "result_ack", "loop",
              "poll", "end", "dead"}
  /\ conn \in Conns
  /\ socket_generation \in 0..1
  /\ socket \in BOOLEAN
  /\ current_session_id \in Sessions \union {None}
  /\ stats \in WorkerStats
  /\ job_thread \in {"none", "running", "finished"}
  /\ stop \in BOOLEAN
  /\ caller \in {"waiting", "joining", "returned"}
=============================================================================
