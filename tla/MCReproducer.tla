---------------------------- MODULE MCReproducer ----------------------------
(***************************************************************************)
(* Instances of Reproducer for TLC: one worker, its session before and     *)
(* after a full reconnect, and one job.                                    *)
(***************************************************************************)
EXTENDS Reproducer, TLC

CONSTANTS s1, s2, r1, w1, j1

OneWorkerOf == s1 :> w1 @@ s2 :> w1
OneRoutesOf == s1 :> {r1} @@ s2 :> {r1}
TwoGenerations == s1 :> 0 @@ s2 :> 1

\* The worker has a ZMQ identity: both connections have its routing id.
SharedRouteOf == <<r1, r1>>
DrawnSessions == 0 :> s1 @@ 1 :> s2

\* The scenarios.
Scenario(strategy, mode, threading, echo, send, imm) ==
  [strategy |-> strategy, reconnect_mode |-> mode, threading_mode |-> threading,
   echo_heartbeat |-> echo, send_mode |-> send, immediate |-> imm]

Blocking == "blocking-network-loop"
Threaded == "separate-job-thread"

\* Under the strict policy: a reconnect that waits for a HEARTBEAT, with echo.
HeartbeatScenario ==
  {Scenario("manual-reconnect-heartbeat", "full", Blocking, TRUE, "blocking", 0)}

\* Under job-id, READY again before the RESULT, or a light reconnect.
ReadyAckScenarios ==
  {Scenario("manual-reconnect-ready-ack", "full", Blocking, FALSE, "blocking", 0),
   Scenario("manual-reconnect-heartbeat", "light", Blocking, TRUE, "blocking", 0)}

\* Under a caller that gives up on its network thread: a light reconnect whose
\* sends may fail, and a full one.
ThreadedScenarios ==
  {Scenario("manual-reconnect-heartbeat", "light", Threaded, FALSE, "dontwait", 1),
   Scenario("reconnect-then-delay", "full", Threaded, FALSE, "blocking", 0)}
=============================================================================
