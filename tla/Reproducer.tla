----------------------------- MODULE Reproducer -----------------------------
(***************************************************************************)
(* One run of the reproducer as run_scenarios.py and run_campaign.py set   *)
(* it up: a broker in run_once (module Broker), a worker (module Worker),  *)
(* their sockets (module Transport), and the harness that reads the        *)
(* statistics of both and classifies the run (module TransportCase).       *)
(*                                                                         *)
(* The broker is that of Broker.tla, its handlers given the messages this  *)
(* worker really sent in place of the environment assumed there.  That     *)
(* assumption is a property here: every behaviour of the reproducer is one *)
(* of Broker.                                                              *)
(***************************************************************************)
EXTENDS Broker

CONSTANTS RouteOf, SessionOf,
          Configs,    \* the scenarios the harness may draw for the run
          MaxLapsed   \* bound: records older than worker_timeout at a time

VARIABLES config,
          link, up, down, bound,
          net, conn, socket_generation, socket, current_session_id, wstats,
          job_thread, wstop, caller,
          outcome    \* the RunOutcome, once the harness has read both sides

W == INSTANCE Worker WITH stats <- wstats, stop <- wstop

T == INSTANCE TransportCase

sockets == <<link, up, down, bound>>
workerVars == <<config, net, conn, socket_generation, socket,
                current_session_id, wstats, job_thread, wstop, caller>>
workerSide == <<sockets, workerVars>>

sysVars == <<vars, workerSide, outcome>>

ASSUME OneRun ==
  /\ Mode = "run_once"
  /\ Configs \subseteq W!WorkerConfig
  /\ RouteOf \in [W!Conns -> Routes]
  /\ SessionOf \in [0..1 -> Sessions]
  /\ MaxLapsed \in Nat

\* The worker's two sessions are the first of its worker id, a new one drawn by a
\* full reconnect, and RoutesOf names the routing ids of its connections.
ASSUME OneWorker ==
  LET First == SessionOf[0]
      Second == SessionOf[1]
  IN  /\ WorkerOf[First] = WorkerOf[Second]
      /\ Generation[First] < Generation[Second]
      /\ \A e \in Sessions :
           WorkerOf[e] = WorkerOf[First] /\ Generation[e] < Generation[Second]
             => e = First
      /\ RouteOf[1] \in RoutesOf[First]
      /\ RouteOf[2] \in RoutesOf[First] \cap RoutesOf[Second]

SysInit ==
  /\ Init
  /\ W!TransportInit
  /\ W!WorkerInit
  /\ config \in Configs
  /\ outcome = None

-----------------------------------------------------------------------------
(* The broker.                                                             *)

\* What it sends is routed to the worker's connections.
Sends(m) == down' = W!Routed(m) /\ UNCHANGED <<link, up, bound>>

BrokerSends ==
  \/ AckReady /\ Sends(Msg("READY_ACK", msg.route, msg.session, None))
  \/ AckResult /\ Sends(Msg("RESULT_ACK", msg.route, msg.session, msg.job))
  \/ SendJob /\ Sends(Msg("JOB", rec[worker].route, worker, stats.job_id))
  \/ \E s \in Sessions :
       SendBeat(s) /\ Sends(Msg("HEARTBEAT", rec[s].route, s, None))

BrokerKeepsToItself ==
  \/ StartExpiry
  \/ PollTimeout
  \/ EnterGrace
  \/ Finalize
  \/ Shutdown
  \/ RegisterId
  \/ Refresh
  \/ DecideResult
  \/ SettleWorker
  \/ \E s \in Sessions : PickWorker(s)
  \/ \E s \in Sessions : Cardinality(lapsed) < MaxLapsed /\ Lapse(s)
  \/ NothingToDispatch
  \/ \E j \in Jobs : Assign(j)
  \/ \E d \in Deadlines : DeadlinePasses(d)
  \/ Wake
  \/ Rest
  \/ \E t \in Threads : Expire(t)

\* _process_message, on whichever connection's message is read next.
BrokerReads(c) ==
  /\ link[c] \in {"attached", "closing"}
  /\ up[c] # <<>>
  /\ up' = [up EXCEPT ![c] = Tail(@)]
  /\ LET m == Head(up[c])
     IN  CASE m.type = "READY"     -> HandleReady(m)
           [] m.type = "HEARTBEAT" -> HandleHeartbeat(m.route)
           [] m.type = "RESULT"    -> HandleResult(m)
  /\ UNCHANGED <<link, down, bound>>

BrokerStep ==
  \/ BrokerSends /\ UNCHANGED <<workerVars, outcome>>
  \/ BrokerKeepsToItself /\ UNCHANGED <<workerSide, outcome>>
  \/ \E c \in W!Conns : BrokerReads(c) /\ UNCHANGED <<workerVars, outcome>>

-----------------------------------------------------------------------------
(* The worker, the sockets and the harness.                                *)

WorkerStep == W!Step /\ UNCHANGED <<vars, outcome>>

TransportStep ==
  /\ \/ \E c \in W!Conns : W!Attach(c) \/ W!Forget(c)
     \/ stop /\ W!Unbind
  /\ UNCHANGED <<vars, workerVars, outcome>>

Facts ==
  [send_succeeded |-> wstats.send_succeeded,
   raw_message_received |-> stats.raw_message_received,
   result_accepted |-> stats.result_accepted,
   result_rejected |-> stats.result_rejected,
   result_missing |-> stats.result_missing,
   result_ack_received |-> wstats.result_ack_received]

\* worker.run() has returned and the broker's thread has been joined.
Collect ==
  /\ outcome = None
  /\ caller = "returned"
  /\ MainEnded
  /\ outcome' = [facts |-> Facts, transport_case |-> T!ScenarioCase(Facts)]
  /\ UNCHANGED <<vars, workerSide>>

SysNext == BrokerStep \/ WorkerStep \/ TransportStep \/ Collect

SysSpec == SysInit /\ [][SysNext]_sysVars

\* The broker's threads and the worker's run, connections complete and what
\* arrives is read; waits end at their deadlines although messages come.
WaitsEnd ==
  /\ \/ W!ReadyAckTimeout \/ W!NoJob \/ W!HeartbeatWaitTimeout
     \/ W!ResultAckTimeout
  /\ UNCHANGED <<vars, config, outcome>>

SysFairSpec ==
  /\ SysSpec
  /\ WF_sysVars(MainThread /\ SysNext)
  /\ WF_sysVars(HeartbeatLoop /\ SysNext)
  /\ \A d \in Deadlines : WF_sysVars(DeadlinePasses(d) /\ SysNext)
  /\ \A c \in W!Conns : WF_sysVars(BrokerReads(c) /\ SysNext)
  /\ WF_sysVars(TransportStep)
  /\ WF_sysVars(W!Network /\ SysNext)
  /\ WF_sysVars(WaitsEnd)
  /\ WF_sysVars(W!FinishJob /\ SysNext)
  /\ WF_sysVars(W!CallerStops /\ SysNext)
  /\ WF_sysVars(W!Return /\ SysNext)
  /\ WF_sysVars(Collect)
-----------------------------------------------------------------------------
(* Type invariant, and the refinement.                                     *)

\* Both sides keep to their types, and no queue outgrows what one run sends.
SysTypeOK ==
  /\ TypeOK
  /\ W!WorkerTypeOK
  /\ \A c \in W!Conns : \A q \in {up[c], down[c]} :
       Len(q) <= 4 /\ \A i \in 1..Len(q) : q[i] \in Message
  /\ config \in Configs
  /\ outcome # None => outcome.transport_case \in TransportCases

\* The messages a worker of worker.py sends are those Broker's environment may
\* send: READY once per session and in order, a HEARTBEAT only in answer to
\* one, one RESULT, of a JOB it was sent.  So what is proved of Broker holds of
\* the reproducer.
ImplementsBroker == Spec

-----------------------------------------------------------------------------
(* Safety.                                                                 *)

InQueue(q, type) == \E i \in 1..Len(q) : q[i].type = type

\* What the worker takes for an acknowledgement of its result is one: its job
\* is completed, never refused, and the broker sent the ack, whatever was read
\* or dropped around a reconnect.
AckEndToEnd ==
  wstats.result_ack_received =>
    /\ wstats.job_id # None /\ jobs[wstats.job_id] # None
    /\ jobs[wstats.job_id].completed /\ ~jobs[wstats.job_id].rejected
    /\ \E m \in sent : m.type = "RESULT_ACK" /\ m.job = wstats.job_id

\* The case the harness writes down is what happened to the job at the broker:
\* SUCCESS and CASE3 iff it was completed, CASE2 iff it was refused, and of a
\* job without a verdict, CASE1 only if the worker did send its result.
OutcomeIsTruth ==
  outcome # None =>
    LET case == outcome.transport_case
        Verdict(v) == \E j \in Jobs : jobs[j] # None /\ jobs[j][v]
    IN  /\ Verdict("completed") <=> case \in {"SUCCESS",
                                             "CASE3_ACCEPTED_ACK_LOST"}
        /\ Verdict("rejected") <=> case = "CASE2_RECV_REJECTED"
        /\ case = "CASE1_SEND_NO_RECV" =>
             /\ outcome.facts.send_succeeded
             /\ \A m \in sent : m.type # "RESULT_ACK"

\* The two sides report no combination of facts but those the reports of a
\* campaign are built for: a result received got one verdict, and whoever has an
\* ack says that it sent the result.  Only of a worker whose network thread outlived
\* the join may the harness read that a result the broker got was not sent.
FactsArePossible ==
  outcome # None =>
    /\ outcome.facts \in T!PossibleFacts
    /\ outcome.facts.raw_message_received =>
         outcome.facts.send_succeeded \/ W!Separate

\* The connection in use is the one its session was acknowledged on.
Secured ==
  /\ current_session_id = W!session_id
  /\ conn = socket_generation + 1

\* A result sent on a connection with an acknowledged session reaches the
\* broker, unless one of the two sockets is closed first: the ROUTER's refusal
\* of a second connection with the same routing id never hits it.
SecuredResultIsSafe ==
  Secured /\ wstats.send_succeeded =>
    \/ stats.raw_message_received
    \/ \E c \in W!Conns : InQueue(up[c], "RESULT")
    \/ ~bound \/ caller = "returned"

\* After a full reconnect without READY the worker waits for a HEARTBEAT of a
\* session no broker has heard of: none is ever on its way.
NewSessionUnheard ==
  net = "heartbeat" /\ W!ModeUsed = "full" =>
    \A i \in 1..Len(down[conn]) :
      down[conn][i].type = "HEARTBEAT" => down[conn][i].session # W!session_id

\* While the blocking worker waits for its JOB, nothing but a HEARTBEAT can come
\* before it: its handshake left no message behind, and no other thread than the
\* broker's heartbeat can make it give up a job that was sent.
OnlyHeartbeatOvertakesJob ==
  net = "job" =>
    \A i \in 1..Len(down[conn]) : down[conn][i].type \in {"JOB", "HEARTBEAT"}

\* In separate mode the network thread polls its first socket: after a full
\* reconnect it never reads the ack, and no run ends in SUCCESS.
SeparateFullNeverSucceeds ==
  outcome # None /\ W!Separate /\ W!ReconnectFirst /\ W!ModeUsed = "full" =>
    outcome.transport_case # "SUCCESS"

-----------------------------------------------------------------------------
(* Liveness.                                                               *)

\* The run ends: the worker returns, the broker ends, the harness classifies.
RunEnds == <>(outcome # None)

=============================================================================
