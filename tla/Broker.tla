------------------------------- MODULE Broker -------------------------------
(***************************************************************************)
(* The ROUTER broker of zmq-reply-reproducer/broker.py: its worker         *)
(* registry, its jobs and its two threads.  The thread "main" runs         *)
(* run_once or run_forever; the thread "heartbeat" runs _heartbeat_loop.   *)
(* Both call _expire_stale_workers on the same dictionaries without a      *)
(* lock, so that function is one action per effect and the two threads     *)
(* interleave between them (CPython switches threads at its calls and log  *)
(* writes).  Peers are the environment: which messages may arrive is       *)
(* derived from what worker.py sends.                                      *)
(*                                                                         *)
(* A WorkerRecord object is named by its session_id: worker.py sends READY *)
(* once per session, so `is worker` is equality of sessions.  Time is      *)
(* abstracted to the set lapsed of the records whose last_heartbeat is     *)
(* older than worker_timeout, and to the deadlines that have passed.       *)
(***************************************************************************)
EXTENDS Naturals, Sequences, FiniteSets

CONSTANTS
  Sessions,    \* session ids a worker may use
  Routes,      \* ROUTER routing ids
  WorkerIds,
  Jobs,        \* job ids _dispatch_job may draw
  None,        \* Python's None and "absent from the dictionary"
  WorkerOf,    \* the worker that owns a session
  RoutesOf,    \* the routing ids a session's messages may arrive on
  Generation,  \* order in which a worker goes through its sessions
  Policy,      \* config.result_policy
  Mode         \* the entry point the main thread runs

ASSUME PeerAssumption ==
  /\ WorkerOf \in [Sessions -> WorkerIds]
  /\ RoutesOf \in [Sessions -> SUBSET Routes]
  /\ Generation \in [Sessions -> Nat]

ASSUME ConfigAssumption ==
  /\ Policy \in {"strict", "job-id"}
  /\ Mode \in {"run_once", "run_forever"}

VARIABLES
  workers,          \* _workers: routing id -> record
  workers_by_id,    \* _workers_by_id: worker id -> record
  rec,              \* the WorkerRecord objects
  jobs,             \* _jobs
  expired_workers,  \* _expired_workers
  stats,            \* BrokerStats
  lapsed,           \* records older than worker_timeout
  pc, todo, cur,    \* per thread: position, list() snapshot, loop variable
  msg,              \* main: the message being handled
  worker,           \* main: the local `worker` of a handler or of dispatch
  is_reconnect,     \* main: the local of _handle_ready
  changes,          \* _routing_id_changes, _session_changes
  job_sent,         \* main: the local of run_once
  result_handled,   \* _result_handled
  passed,           \* deadlines of run_once that have passed
  stop,             \* _stop
  sent              \* history of the messages put on the ROUTER socket

registry == <<workers, workers_by_id, rec, expired_workers, lapsed>>
locals   == <<msg, worker, is_reconnect, changes, job_sent>>
control  == <<pc, todo, cur>>
vars     == <<registry, jobs, stats, control, locals, result_handled, passed,
              stop, sent>>

Threads == {"main", "heartbeat"}

Deadlines == {"run_timeout", "post_result_grace"}

WorkerStates == {"UNKNOWN", "READY", "BUSY", "EXPIRED", "REMOVED",
                 "RECONNECTED"}

RejectReasons == {"job_unknown", "job_already_completed",
                  "worker_not_in_registry", "worker_not_busy",
                  "session_mismatch", "job_mismatch"}

TransportCases == {"INCONCLUSIVE", "CASE1_SEND_NO_RECV",
                   "CASE2_RECV_REJECTED", "CASE3_ACCEPTED_ACK_LOST",
                   "SUCCESS"}

\* A session with no record yet is in the state "UNKNOWN".
WorkerRecord == [route : Routes \union {None},
                 state : WorkerStates,
                 job   : Jobs \union {None}]

JobRecord == [session : Sessions, completed : BOOLEAN, rejected : BOOLEAN,
              ack : BOOLEAN]

BrokerStats == [worker_expired : BOOLEAN,
                raw_message_received : BOOLEAN,
                result_accepted : BOOLEAN,
                result_rejected : BOOLEAN,
                result_missing : BOOLEAN,
                result_ack_sent : BOOLEAN,
                reject_reason : RejectReasons \union {None},
                job_id : Jobs \union {None},
                transport_case : TransportCases,
                routing_id_changes : Nat,
                session_changes : Nat]

\* What both sides put on the wire; only a RESULT, its ack and a JOB name a job.
Message == [type : {"READY", "READY_ACK", "HEARTBEAT", "JOB", "RESULT",
                    "RESULT_ACK"},
            route : Routes, session : Sessions, job : Jobs \union {None}]

ASSUME NoneAssumption ==
  /\ None \notin Sessions \union Jobs
  /\ None \notin Message \union JobRecord \union RejectReasons

Msg(type, route, session, job) ==
  [type |-> type, route |-> route, session |-> session, job |-> job]

Registered(s) == \E r \in Routes : workers[r] = s

Expired(s) == \E i \in 1..Len(expired_workers) : expired_workers[i] = s

JobsSent == {m \in sent : m.type = "JOB"}

Init ==
  /\ workers = [r \in Routes |-> None]
  /\ workers_by_id = [w \in WorkerIds |-> None]
  /\ rec = [s \in Sessions |-> [route |-> None, state |-> "UNKNOWN",
                                job |-> None]]
  /\ jobs = [j \in Jobs |-> None]
  /\ expired_workers = <<>>
  /\ stats = [worker_expired |-> FALSE,
              raw_message_received |-> FALSE,
              result_accepted |-> FALSE,
              result_rejected |-> FALSE,
              result_missing |-> TRUE,
              result_ack_sent |-> FALSE,
              reject_reason |-> None,
              job_id |-> None,
              transport_case |-> "INCONCLUSIVE",
              routing_id_changes |-> 0,
              session_changes |-> 0]
  /\ lapsed = {}
  /\ pc = [t \in Threads |-> IF t = "main" THEN "loop" ELSE "wake"]
  /\ todo = [t \in Threads |-> {}]
  /\ cur = [t \in Threads |-> None]
  /\ msg = None
  /\ worker = None
  /\ is_reconnect = FALSE
  /\ changes = [routing |-> 0, session |-> 0]
  /\ job_sent = FALSE
  /\ result_handled = FALSE
  /\ passed = {}
  /\ stop = FALSE
  /\ sent = {}

-----------------------------------------------------------------------------
(* Steps of a thread.                                                      *)

At(t, where) == pc[t] = where

Goto(t, where) == pc' = [pc EXCEPT ![t] = where]

MainGoto(where) == Goto("main", where) /\ UNCHANGED <<todo, cur>>

\* worker.state = to_state in _transition; a transition to the same state is
\* the early return.
Transition(s, to) == rec' = [rec EXCEPT ![s].state = to]

Send(m) == sent' = sent \union {m}

-----------------------------------------------------------------------------
(* _expire_stale_workers, run by either thread.                            *)

\* Mutant: iterates over list(self._workers), the keys.
SnapshotOfKeys(t) ==
  /\ todo' = [todo EXCEPT ![t] = {r \in Routes : workers[r] # None}]
  /\ UNCHANGED cur

\* list(self._workers.items())
Snapshot(t) ==
  /\ todo' = [todo EXCEPT ![t] = {s \in Sessions : Registered(s)}]
  /\ UNCHANGED cur

\* The main thread reaches the call at the end of its loop body.
StartExpiry ==
  /\ At("main", "expire")
  /\ Goto("main", "scan")
  /\ Snapshot("main")
  /\ UNCHANGED <<registry, jobs, stats, locals, result_handled, passed, stop,
                 sent>>

\* Mutant: only a worker that holds a job can be too old.
StaleIfBusy(s) == rec[s].state = "BUSY" /\ s \in lapsed

\* The guard of line 219 only skips EXPIRED, not REMOVED.
Stale(s) == rec[s].state # "EXPIRED" /\ s \in lapsed

Scan(t, s) ==
  /\ At(t, "scan")
  /\ s \in todo[t]
  /\ todo' = [todo EXCEPT ![t] = @ \ {s}]
  /\ \/ /\ Stale(s)
        /\ Goto(t, "mark")
        /\ cur' = [cur EXCEPT ![t] = s]
     \/ /\ ~Stale(s)
        /\ UNCHANGED <<pc, cur>>
  /\ UNCHANGED <<registry, jobs, stats, locals, result_handled, passed, stop,
                 sent>>

\* Mutant: the record is not kept in _expired_workers.
MarkAndForget(t) ==
  /\ At(t, "mark")
  /\ Transition(cur[t], "EXPIRED")
  /\ stats' = [stats EXCEPT !.worker_expired = TRUE]
  /\ Goto(t, "remove")
  /\ UNCHANGED <<workers, workers_by_id, expired_workers, lapsed, jobs, todo,
                 cur, locals, result_handled, passed, stop, sent>>

\* -> EXPIRED, statistics, _expired_workers.append.
Mark(t) ==
  /\ At(t, "mark")
  /\ Transition(cur[t], "EXPIRED")
  /\ stats' = [stats EXCEPT !.worker_expired = TRUE]
  /\ expired_workers' = Append(expired_workers, cur[t])
  /\ Goto(t, "remove")
  /\ UNCHANGED <<workers, workers_by_id, lapsed, jobs, todo, cur, locals,
                 result_handled, passed, stop, sent>>

\* Mutant: the record already leaves _workers with its last transition.
RemoveAtOnce(t) ==
  /\ At(t, "remove")
  /\ Transition(cur[t], "REMOVED")
  /\ workers' = [workers EXCEPT ![rec[cur[t]].route] = None]
  /\ Goto(t, "del_route")
  /\ UNCHANGED <<workers_by_id, expired_workers, lapsed, jobs, stats, todo, cur,
                 locals, result_handled, passed, stop, sent>>

\* -> REMOVED, before the record leaves the dictionaries.
Remove(t) ==
  /\ At(t, "remove")
  /\ Transition(cur[t], "REMOVED")
  /\ Goto(t, "del_route")
  /\ UNCHANGED <<workers, workers_by_id, expired_workers, lapsed, jobs, stats,
                 todo, cur, locals, result_handled, passed, stop, sent>>

\* Mutant: the record stays under its routing id.
KeepRoute(t) ==
  /\ At(t, "del_route")
  /\ Goto(t, "check_id")
  /\ UNCHANGED <<registry, jobs, stats, todo, cur, locals, result_handled,
                 passed, stop, sent>>

\* del self._workers[routing_id]: whatever record the key holds by now goes;
\* a missing key raises KeyError, which nothing in the thread catches.
DeleteRoute(t) ==
  LET r == rec[cur[t]].route
  IN  /\ At(t, "del_route")
      /\ Goto(t, IF workers[r] = None THEN "dead" ELSE "check_id")
      /\ workers' = [workers EXCEPT ![r] = None]
      /\ UNCHANGED <<workers_by_id, rec, expired_workers, lapsed, jobs, stats,
                     todo, cur, locals, result_handled, passed, stop, sent>>

\* if self._workers_by_id.get(worker.worker_id) is worker
CheckId(t) ==
  /\ At(t, "check_id")
  /\ IF workers_by_id[WorkerOf[cur[t]]] = cur[t]
       THEN Goto(t, "del_id") /\ UNCHANGED cur
       ELSE Goto(t, "scan") /\ cur' = [cur EXCEPT ![t] = None]
  /\ UNCHANGED <<registry, jobs, stats, todo, locals, result_handled, passed,
                 stop, sent>>

\* del self._workers_by_id[worker.worker_id], again whatever it holds by now.
DeleteId(t) ==
  LET w == WorkerOf[cur[t]]
  IN  /\ At(t, "del_id")
      /\ IF workers_by_id[w] = None
           THEN Goto(t, "dead") /\ UNCHANGED cur
           ELSE Goto(t, "scan") /\ cur' = [cur EXCEPT ![t] = None]
      /\ workers_by_id' = [workers_by_id EXCEPT ![w] = None]
      /\ UNCHANGED <<workers, rec, expired_workers, lapsed, jobs, stats, todo,
                     locals, result_handled, passed, stop, sent>>

\* End of the for loop: main polls again, the heartbeat thread snapshots the
\* registry it is about to send to.
EndExpiry(t) ==
  /\ At(t, "scan")
  /\ todo[t] = {}
  /\ IF t = "main"
       THEN Goto(t, "loop") /\ UNCHANGED <<todo, cur>>
       ELSE Goto(t, "beat") /\ Snapshot(t)
  /\ UNCHANGED <<registry, jobs, stats, locals, result_handled, passed, stop,
                 sent>>

Expire(t) ==
  \/ \E s \in Sessions : Scan(t, s)
  \/ Mark(t)
  \/ Remove(t)
  \/ DeleteRoute(t)
  \/ CheckId(t)
  \/ DeleteId(t)
  \/ EndExpiry(t)

-----------------------------------------------------------------------------
(* _heartbeat_loop.                                                        *)

\* while not self._stop.is_set(), then the first statement of the body.
Wake ==
  /\ At("heartbeat", "wake")
  /\ IF stop
       THEN Goto("heartbeat", "done") /\ UNCHANGED <<todo, cur>>
       ELSE Goto("heartbeat", "scan") /\ Snapshot("heartbeat")
  /\ UNCHANGED <<registry, jobs, stats, locals, result_handled, passed, stop,
                 sent>>

\* One HEARTBEAT per record of the snapshot, even one expired since.
SendBeat(s) ==
  /\ At("heartbeat", "beat")
  /\ s \in todo["heartbeat"]
  /\ Send(Msg("HEARTBEAT", rec[s].route, s, None))
  /\ todo' = [todo EXCEPT !["heartbeat"] = @ \ {s}]
  /\ UNCHANGED <<registry, jobs, stats, pc, cur, locals, result_handled,
                 passed, stop>>

\* Mutant: the body of the loop runs once.
RestForGood ==
  /\ At("heartbeat", "beat")
  /\ todo["heartbeat"] = {}
  /\ Goto("heartbeat", "done")
  /\ UNCHANGED <<registry, jobs, stats, todo, cur, locals, result_handled,
                 passed, stop, sent>>

\* self._stop.wait(heartbeat_interval)
Rest ==
  /\ At("heartbeat", "beat")
  /\ todo["heartbeat"] = {}
  /\ Goto("heartbeat", "wake")
  /\ UNCHANGED <<registry, jobs, stats, todo, cur, locals, result_handled,
                 passed, stop, sent>>

HeartbeatLoop ==
  \/ Wake
  \/ \E s \in Sessions : SendBeat(s)
  \/ Rest
  \/ Expire("heartbeat")

-----------------------------------------------------------------------------
(* The main thread: polling.                                               *)

\* `loop` is the poll of the main loop, `grace` the one after the result.
Receiving ==
  \/ /\ At("main", "loop")
     /\ "run_timeout" \notin passed
     /\ ~result_handled \/ Mode = "run_forever"
  \/ /\ At("main", "grace")
     /\ "post_result_grace" \notin passed

\* Where run_once or run_forever goes on once a message is processed.
AfterMessage ==
  IF Mode = "run_forever" THEN "expire"
  ELSE IF result_handled THEN "grace" ELSE "dispatch"

PollTimeout ==
  /\ Receiving
  /\ At("main", "loop")
  /\ MainGoto(AfterMessage)
  /\ UNCHANGED <<registry, jobs, stats, locals, result_handled, passed, stop,
                 sent>>

EnterGrace ==
  /\ At("main", "loop")
  /\ Mode = "run_once"
  /\ "run_timeout" \notin passed
  /\ result_handled
  /\ MainGoto("grace")
  /\ UNCHANGED <<registry, jobs, stats, locals, result_handled, passed, stop,
                 sent>>

\* Mutant: a refused result is not told apart.
FinalCaseIfAccepted ==
  IF stats.result_accepted THEN "SUCCESS" ELSE stats.transport_case

\* _finalize_transport_case(worker_send_ok=False), as every caller has it.
FinalCase ==
  IF ~stats.raw_message_received THEN "INCONCLUSIVE"
  ELSE IF stats.result_rejected THEN "CASE2_RECV_REJECTED"
  ELSE IF stats.result_accepted /\ ~stats.result_ack_sent
         THEN "CASE3_ACCEPTED_ACK_LOST"
  ELSE IF stats.result_accepted THEN "SUCCESS"
  ELSE stats.transport_case

\* Mutant: the grace loop has no end of its own.
FinalizeOnTimeout ==
  /\ At("main", "loop") /\ "run_timeout" \in passed
  /\ stats' = [stats EXCEPT !.transport_case = FinalCase]
  /\ MainGoto("done")
  /\ UNCHANGED <<registry, jobs, locals, result_handled, passed, stop, sent>>

\* The end of run_once: its timeout, or the grace after the result.  Without a
\* RESULT _finalize_transport_case returns before it copies the counters.
Finalize ==
  /\ \/ At("main", "loop") /\ "run_timeout" \in passed
     \/ At("main", "grace") /\ "post_result_grace" \in passed
  /\ stats' = IF stats.raw_message_received
                THEN [stats EXCEPT !.transport_case = FinalCase,
                                   !.routing_id_changes = changes.routing,
                                   !.session_changes = changes.session]
                ELSE [stats EXCEPT !.transport_case = FinalCase,
                                   !.result_missing = TRUE]
  /\ MainGoto("done")
  /\ UNCHANGED <<registry, jobs, locals, result_handled, passed, stop, sent>>

\* The caller's finally clause; a KeyError of the main thread leads there too.
Shutdown ==
  /\ pc["main"] \in {"done", "dead"}
  /\ ~stop
  /\ stop' = TRUE
  /\ UNCHANGED <<registry, jobs, stats, control, locals, result_handled,
                 passed, sent>>

-----------------------------------------------------------------------------
(* _handle_ready.                                                          *)

\* self._workers[routing_id] = worker
Put(m) == workers' = [workers EXCEPT ![m.route] = m.session]

\* Expiry steps of the other thread between the read of `existing` (254) and the
\* write (291) commute with the rest of this step: what they could change is that
\* `existing` has already left the registry, which only the counters would show.
HandleReady(m) ==
  LET existing == workers_by_id[WorkerOf[m.session]]
      moved == existing # None /\ rec[existing].route # m.route
      renewed == existing # None /\ existing # m.session
  IN  /\ Receiving
      /\ is_reconnect' = moved
      /\ changes' = [routing |-> changes.routing + IF moved THEN 1 ELSE 0,
                     session |-> changes.session + IF renewed THEN 1 ELSE 0]
      /\ rec' = [rec EXCEPT
                   ![m.session] = [route |-> m.route,
                                   state |-> IF moved THEN "RECONNECTED"
                                                      ELSE "READY",
                                   job |-> None]]
      /\ Put(m)
      /\ lapsed' = lapsed \ {m.session}
      /\ msg' = m
      /\ MainGoto("register")
      /\ UNCHANGED <<workers_by_id, expired_workers, jobs, stats, worker,
                     job_sent, result_handled, passed, stop, sent>>

RegisterId ==
  LET s == msg.session
  IN  /\ At("main", "register")
      /\ workers_by_id' = [workers_by_id EXCEPT ![WorkerOf[s]] = s]
      /\ IF is_reconnect THEN Transition(s, "READY") ELSE UNCHANGED rec
      /\ MainGoto("ack_ready")
      /\ UNCHANGED <<workers, expired_workers, lapsed, jobs, stats, locals,
                     result_handled, passed, stop, sent>>

AckReady ==
  /\ At("main", "ack_ready")
  /\ Send(Msg("READY_ACK", msg.route, msg.session, None))
  /\ msg' = None
  /\ is_reconnect' = FALSE
  /\ MainGoto(AfterMessage)
  /\ UNCHANGED <<registry, jobs, stats, worker, changes, job_sent,
                 result_handled, passed, stop>>

-----------------------------------------------------------------------------
(* _handle_heartbeat: it reads nothing of the message but its route.       *)

HandleHeartbeat(r) ==
  /\ Receiving
  /\ IF workers[r] = None
       THEN MainGoto(AfterMessage)
       ELSE MainGoto("refresh")
  /\ worker' = workers[r]
  /\ UNCHANGED <<registry, jobs, stats, msg, is_reconnect, changes, job_sent,
                 result_handled, passed, stop, sent>>

Refresh ==
  /\ At("main", "refresh")
  /\ lapsed' = lapsed \ {worker}
  /\ worker' = None
  /\ MainGoto(AfterMessage)
  /\ UNCHANGED <<workers, workers_by_id, rec, expired_workers, jobs, stats,
                 msg, is_reconnect, changes, job_sent, result_handled, passed,
                 stop, sent>>

-----------------------------------------------------------------------------
(* _handle_result.                                                         *)

HandleResult(m) ==
  /\ Receiving
  /\ msg' = m
  /\ worker' = workers[m.route]
  /\ stats' = [stats EXCEPT !.raw_message_received = TRUE]
  /\ MainGoto("decide")
  /\ UNCHANGED <<registry, jobs, is_reconnect, changes, job_sent,
                 result_handled, passed, stop, sent>>

\* Mutant: whoever answers the job may complete it.
StrictReasonAnySession(w, m) ==
  IF w = None THEN "worker_not_in_registry"
  ELSE IF rec[w].state # "BUSY" THEN "worker_not_busy"
  ELSE IF rec[w].job # m.job THEN "job_mismatch"
  ELSE None

\* Why the strict policy refuses message m, whose route gave record w.
StrictReason(w, m) ==
  IF w = None THEN "worker_not_in_registry"
  ELSE IF rec[w].state # "BUSY" THEN "worker_not_busy"
  ELSE IF w # m.session THEN "session_mismatch"
  ELSE IF rec[w].job # m.job THEN "job_mismatch"
  ELSE None

\* Mutant: a result of a worker out of the registry is not looked at.
JobIdReasonIfKnown(m) ==
  IF workers[m.route] = None THEN "worker_not_in_registry"
  ELSE IF jobs[m.job] = None THEN "job_unknown"
  ELSE IF jobs[m.job].completed THEN "job_already_completed"
  ELSE None

\* Why the job-id policy refuses message m.
JobIdReason(m) ==
  IF jobs[m.job] = None THEN "job_unknown"
  ELSE IF jobs[m.job].completed THEN "job_already_completed"
  ELSE None

RejectReason(w, m) ==
  IF Policy = "job-id" THEN JobIdReason(m) ELSE StrictReason(w, m)

\* Mutant: the job record is not told.
AcceptUnrecorded(m) ==
  /\ stats' = [stats EXCEPT !.result_accepted = TRUE,
                            !.result_missing = FALSE,
                            !.reject_reason = None]
  /\ MainGoto("settle")
  /\ UNCHANGED <<jobs, msg, worker, result_handled>>

Accept(m) ==
  /\ stats' = [stats EXCEPT !.result_accepted = TRUE,
                            !.result_missing = FALSE,
                            !.reject_reason = None]
  /\ jobs' = IF jobs[m.job] = None THEN jobs
             ELSE [jobs EXCEPT ![m.job].completed = TRUE]
  /\ MainGoto("settle")
  /\ UNCHANGED <<msg, worker, result_handled>>

Reject(m, reason) ==
  /\ stats' = [stats EXCEPT !.result_rejected = TRUE,
                            !.result_missing = FALSE,
                            !.reject_reason = reason]
  /\ jobs' = IF jobs[m.job] = None THEN jobs
             ELSE [jobs EXCEPT ![m.job].rejected = TRUE]
  /\ result_handled' = TRUE
  /\ msg' = None
  /\ worker' = None
  /\ MainGoto(AfterMessage)

DecideResult ==
  LET reason == RejectReason(worker, msg)
  IN  /\ At("main", "decide")
      /\ \/ reason = None /\ Accept(msg)
         \/ reason # None /\ Reject(msg, reason)
      /\ UNCHANGED <<registry, is_reconnect, changes, job_sent, passed, stop,
                     sent>>

\* Mutant: the worker keeps the job it answered.
KeepBusy(s) == UNCHANGED rec

FreeWorker(s) == rec' = [rec EXCEPT ![s].state = "READY", ![s].job = None]

\* The record found before the decision is set free, registered or not.
SettleWorker ==
  /\ At("main", "settle")
  /\ IF worker = None THEN UNCHANGED rec ELSE FreeWorker(worker)
  /\ worker' = None
  /\ MainGoto("ack_result")
  /\ UNCHANGED <<workers, workers_by_id, expired_workers, lapsed, jobs, stats,
                 msg, is_reconnect, changes, job_sent, result_handled, passed,
                 stop, sent>>

AckResult ==
  /\ At("main", "ack_result")
  /\ Send(Msg("RESULT_ACK", msg.route, msg.session, msg.job))
  /\ jobs' = IF jobs[msg.job] = None THEN jobs
             ELSE [jobs EXCEPT ![msg.job].ack = TRUE]
  /\ stats' = [stats EXCEPT !.result_ack_sent = TRUE]
  /\ result_handled' = TRUE
  /\ msg' = None
  /\ MainGoto(AfterMessage)
  /\ UNCHANGED <<registry, worker, is_reconnect, changes, job_sent, passed,
                 stop>>

-----------------------------------------------------------------------------
(* Dispatch, in run_once only.                                             *)

\* Mutant: run_once forgets it has sent its job.
DispatchableAgain(s) ==
  Registered(s) /\ rec[s].state \in {"READY", "RECONNECTED"}

Dispatchable(s) ==
  ~job_sent /\ Registered(s) /\ rec[s].state \in {"READY", "RECONNECTED"}

PickWorker(s) ==
  /\ At("main", "dispatch")
  /\ Dispatchable(s)
  /\ Transition(s, "READY")
  /\ worker' = s
  /\ MainGoto("assign")
  /\ UNCHANGED <<workers, workers_by_id, expired_workers, lapsed, jobs, stats,
                 msg, is_reconnect, changes, job_sent, result_handled, passed,
                 stop, sent>>

NothingToDispatch ==
  /\ At("main", "dispatch")
  /\ \A s \in Sessions : ~Dispatchable(s)
  /\ MainGoto("expire")
  /\ UNCHANGED <<registry, jobs, stats, locals, result_handled, passed, stop,
                 sent>>

\* _dispatch_job up to the send; uuid4 draws an id not used before.
Assign(j) ==
  /\ At("main", "assign")
  /\ jobs[j] = None
  /\ rec' = [rec EXCEPT ![worker].state = "BUSY", ![worker].job = j]
  /\ jobs' = [jobs EXCEPT ![j] = [session |-> worker, completed |-> FALSE,
                                  rejected |-> FALSE, ack |-> FALSE]]
  /\ stats' = [stats EXCEPT !.job_id = j]
  /\ MainGoto("send_job")
  /\ UNCHANGED <<workers, workers_by_id, expired_workers, lapsed, locals,
                 result_handled, passed, stop, sent>>

SendJob ==
  /\ At("main", "send_job")
  /\ Send(Msg("JOB", rec[worker].route, worker, stats.job_id))
  /\ job_sent' = TRUE
  /\ worker' = None
  /\ MainGoto("expire")
  /\ UNCHANGED <<registry, jobs, stats, msg, is_reconnect, changes,
                 result_handled, passed, stop>>

-----------------------------------------------------------------------------
(* The environment: what peers send, time, and the operator's Ctrl-C.      *)

\* A worker sends READY once per session and goes through its sessions in order.
ReadyArrives(s, r) ==
  /\ rec[s].state = "UNKNOWN"
  /\ r \in RoutesOf[s]
  /\ \A e \in Sessions :
       WorkerOf[e] = WorkerOf[s] /\ Generation[e] < Generation[s]
         => rec[e].state # "UNKNOWN"
  /\ HandleReady(Msg("READY", r, s, None))

\* --echo-heartbeat: a worker answers a HEARTBEAT it was sent on its route.
HeartbeatArrives(r) ==
  /\ \E m \in sent : m.type = "HEARTBEAT" /\ m.route = r
  /\ HandleHeartbeat(r)

\* A worker answers the JOB it got once, from the session it is in by then,
\* whether or not that session ever sent READY.
ResultArrives(d, s, r) ==
  /\ ~stats.raw_message_received
  /\ WorkerOf[s] = WorkerOf[d.session]
  /\ Generation[s] >= Generation[d.session]
  /\ r \in RoutesOf[s]
  /\ HandleResult(Msg("RESULT", r, s, d.job))

\* A record grows older than worker_timeout.
Lapse(s) ==
  /\ rec[s].state # "UNKNOWN"
  /\ s \notin lapsed
  /\ lapsed' = lapsed \union {s}
  /\ UNCHANGED <<workers, workers_by_id, rec, expired_workers, jobs, stats,
                 control, locals, result_handled, passed, stop, sent>>

\* run_once's deadline, and the grace period, which starts once the result is
\* handled; one that passes before the main thread polls again received nothing.
DeadlinePasses(d) ==
  /\ Mode = "run_once"
  /\ d \notin passed
  /\ d = "post_result_grace" => result_handled
  /\ passed' = passed \union {d}
  /\ UNCHANGED <<registry, jobs, stats, control, locals, result_handled, stop,
                 sent>>

\* KeyboardInterrupt, the only way out of run_forever but an exception.
Interrupt ==
  /\ Mode = "run_forever"
  /\ pc["main"] # "dead"
  /\ MainGoto("dead")
  /\ UNCHANGED <<registry, jobs, stats, locals, result_handled, passed, stop,
                 sent>>

-----------------------------------------------------------------------------
MainThread ==
  \/ StartExpiry
  \/ Expire("main")
  \/ PollTimeout
  \/ EnterGrace
  \/ Finalize
  \/ Shutdown
  \/ RegisterId
  \/ AckReady
  \/ Refresh
  \/ DecideResult
  \/ SettleWorker
  \/ AckResult
  \/ \E s \in Sessions : PickWorker(s)
  \/ NothingToDispatch
  \/ \E j \in Jobs : Assign(j)
  \/ SendJob

Arrival ==
  \/ \E s \in Sessions, r \in Routes : ReadyArrives(s, r)
  \/ \E r \in Routes : HeartbeatArrives(r)
  \/ \E d \in JobsSent, s \in Sessions, r \in Routes : ResultArrives(d, s, r)

Passage ==
  \/ \E s \in Sessions : Lapse(s)
  \/ \E d \in Deadlines : DeadlinePasses(d)
  \/ Interrupt

Next ==
  \/ MainThread
  \/ HeartbeatLoop
  \/ Arrival
  \/ Passage

Spec == Init /\ [][Next]_vars

\* The operating system runs both threads, and the deadlines of run_once come.
\* Nothing is assumed of peers or of Ctrl-C.
FairSpec ==
  /\ Spec
  /\ WF_vars(MainThread)
  /\ WF_vars(HeartbeatLoop)
  /\ \A d \in Deadlines : WF_vars(DeadlinePasses(d))

-----------------------------------------------------------------------------
(* Type invariant.                                                         *)

MainPlaces == {"loop", "grace", "register", "ack_ready", "refresh", "decide",
               "settle", "ack_result", "dispatch", "assign", "send_job",
               "expire"}

ExpiryPlaces == {"scan", "mark", "remove", "del_route", "check_id", "del_id"}

HeartbeatPlaces == {"wake", "beat"}

\* Every variable stays in the range of the Python object it stands for, and
\* the two threads stay at places of their own code.
TypeOK ==
  /\ workers \in [Routes -> Sessions \union {None}]
  /\ workers_by_id \in [WorkerIds -> Sessions \union {None}]
  /\ rec \in [Sessions -> WorkerRecord]
  /\ jobs \in [Jobs -> JobRecord \union {None}]
  /\ expired_workers \in Seq(Sessions)
  /\ stats \in BrokerStats
  /\ lapsed \subseteq Sessions
  /\ pc \in [Threads -> MainPlaces \union ExpiryPlaces \union HeartbeatPlaces
                          \union {"done", "dead"}]
  /\ pc["main"] \notin HeartbeatPlaces
  /\ pc["heartbeat"] \notin MainPlaces
  /\ todo \in [Threads -> SUBSET Sessions]
  /\ cur \in [Threads -> Sessions \union {None}]
  /\ msg \in Message \union {None}
  /\ worker \in Sessions \union {None}
  /\ is_reconnect \in BOOLEAN
  /\ changes \in [routing : Nat, session : Nat]
  /\ job_sent \in BOOLEAN
  /\ result_handled \in BOOLEAN
  /\ passed \subseteq Deadlines
  /\ stop \in BOOLEAN
  /\ sent \subseteq Message

-----------------------------------------------------------------------------
(* Safety.                                                                 *)

\* Whichever of the two threads expires a record, and however they overlap,
\* a record in _expired_workers is out of the registry for good, except while
\* a thread is on its way from the append to the del.
ExpiredLeavesRegistry ==
  \A s \in Sessions : Expired(s) /\ Registered(s) => \E t \in Threads : cur[t] = s

\* No later session of the same worker has a record.
Latest(s) ==
  \A e \in Sessions :
    e # s /\ WorkerOf[e] = WorkerOf[s] /\ Generation[e] >= Generation[s]
      => rec[e].state = "UNKNOWN"

\* broker.py 249, 251: an earlier record of the same worker was expired, so the
\* del of its routing id or of its worker id may have taken the later record.
Crossed(s) ==
  \E e \in Sessions :
    WorkerOf[e] = WorkerOf[s] /\ Generation[e] < Generation[s] /\ Expired(e)

\* Whenever no thread is between the update of one dictionary and the update of
\* the other, or was stopped there, the latest record of a worker is in both or
\* in neither; only its own expiry, or that of an earlier session under the same
\* routing id, takes it out of one alone.
RegistriesAgree ==
  (\A t \in Threads : cur[t] = None) /\ pc["main"] \notin {"register", "dead"} =>
    \A s \in Sessions : Latest(s) =>
      /\ Registered(s) => workers_by_id[WorkerOf[s]] = s \/ Crossed(s)
      /\ workers_by_id[WorkerOf[s]] = s => Registered(s) \/ Expired(s) \/ Crossed(s)

\* A worker that was sent READY_ACK stays registered until its own record is
\* expired or a later session of its own takes its place; what it can lose its
\* record to besides is the expiry of an earlier session, and nothing else.
AckedIsRegistered ==
  \A m \in sent :
    m.type = "READY_ACK" /\ Latest(m.session) /\ ~Expired(m.session)
      => Registered(m.session) \/ Crossed(m.session)

\* A thread of run_once dies of a KeyError only when a second expiry of the same
\* worker, of one record twice or of two of its records, crossed the first.
DeathIsDoubleExpiry ==
  \A t \in Threads : pc[t] = "dead" /\ Mode = "run_once" =>
    \E i, k \in 1..Len(expired_workers) :
      i # k /\ WorkerOf[expired_workers[i]] = WorkerOf[expired_workers[k]]

\* A registered record that is BUSY holds the job it was sent, and that job is
\* still open: the verdict on a job also frees its worker.
BusyHoldsOpenJob ==
  \A s \in Sessions :
    Registered(s) /\ rec[s].state = "BUSY" =>
      /\ rec[s].job # None
      /\ jobs[rec[s].job] # None
      /\ jobs[rec[s].job].session = s
      /\ jobs[rec[s].job].completed => pc["main"] = "settle"

\* run_once sends one JOB at most, to the session its job record names.
OneDispatch ==
  /\ \A m, n \in JobsSent : m = n
  /\ \A m \in JobsSent : jobs[m.job] # None /\ jobs[m.job].session = m.session

\* A worker that reads RESULT_ACK may forget its result: the job is completed,
\* was never refused, and no statistic says otherwise.
AckIsTrue ==
  \A m \in sent : m.type = "RESULT_ACK" =>
    /\ jobs[m.job] # None
    /\ jobs[m.job].completed /\ ~jobs[m.job].rejected
    /\ stats.result_accepted /\ ~stats.result_missing

\* The transport case run_once ends with is what happened to its job: SUCCESS
\* iff it was completed and acknowledged, CASE2 iff it was refused,
\* INCONCLUSIVE, with result_missing, iff no RESULT was processed.
VerdictIsTruth ==
  pc["main"] = "done" =>
    /\ stats.transport_case = "SUCCESS" <=>
         \E j \in Jobs : /\ jobs[j] # None /\ jobs[j].completed
                         /\ \E m \in sent : m.type = "RESULT_ACK" /\ m.job = j
    /\ stats.transport_case = "CASE2_RECV_REJECTED" <=>
         \E j \in Jobs : jobs[j] # None /\ jobs[j].rejected
    /\ stats.transport_case = "INCONCLUSIVE" <=> stats.result_missing

\* Under the job-id policy no RESULT that reached the broker is lost: expiry,
\* replacement and an unknown route change nothing to its verdict.
JobIdRepairs ==
  Policy = "job-id" /\ pc["main"] = "done" /\ stats.raw_message_received =>
    stats.transport_case = "SUCCESS"

\* Under the strict policy a job is completed only by the session it was sent
\* to, whatever the heartbeat thread does to the registry between the lookup,
\* the decision and the update.
StrictSameSession ==
  [][ \A j \in Jobs :
        /\ Policy = "strict"
        /\ jobs[j] # None /\ ~jobs[j].completed /\ jobs'[j].completed
        => msg.session = jobs[j].session ]_vars

-----------------------------------------------------------------------------
(* What README.md says of the states of a record.                          *)

\* README.md 199-204: EXPIRED is the last state of a record.
ExpiredIsFinal ==
  [][ \A s \in Sessions :
        rec[s].state \in {"EXPIRED", "REMOVED"}
          => rec'[s].state \in {"EXPIRED", "REMOVED"} ]_vars

-----------------------------------------------------------------------------
(* Liveness.                                                               *)

MainEnded == pc["main"] \in {"done", "dead"}

\* A registered worker that went silent is expired, is heard again, or is
\* replaced, unless the broker ends first; one thread's death does not matter.
LapsedLeaves ==
  \A s \in Sessions :
    Registered(s) /\ s \in lapsed
      ~> ~Registered(s) \/ s \notin lapsed \/ MainEnded

\* run_once returns or raises, whatever its peers send.
RunOnceEnds == <>MainEnded

\* A worker that is registered and stays so is sent a HEARTBEAT, while the
\* broker runs and its heartbeat thread lives.
BeatReaches ==
  \A s \in Sessions :
    Registered(s)
      ~> \/ ~Registered(s) \/ stop \/ pc["heartbeat"] = "dead"
         \/ \E m \in sent : m.type = "HEARTBEAT" /\ m.session = s

=============================================================================
