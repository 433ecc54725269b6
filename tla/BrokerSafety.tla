---------------------------- MODULE BrokerSafety ----------------------------
(***************************************************************************)
(* The safety properties of Broker that hold of every instance, proved     *)
(* from the inductive invariants of its jobs and of its registry.          *)
(***************************************************************************)
EXTENDS BrokerProofs

-----------------------------------------------------------------------------
(* The invariants.                                                         *)

\* A record's job is a job it was sent.
JobLink ==
  \A s \in Sessions :
    rec[s].job # None =>
      jobs[rec[s].job] # None /\ jobs[rec[s].job].session = s

\* run_once sends its job while job_sent is false, and then sets it.
DispatchOnce ==
  /\ pc["main"] \in {"assign", "send_job"} => ~job_sent
  /\ pc["main"] = "send_job" =>
       jobs[stats.job_id] # None /\ jobs[stats.job_id].session = worker
  /\ JobsSent # {} => job_sent
  /\ OneDispatch

\* What RESULT_ACK says of its job.
Acknowledged(j) ==
  /\ jobs[j] # None
  /\ jobs[j].completed /\ ~jobs[j].rejected
  /\ stats.result_accepted /\ ~stats.result_missing

\* No RESULT has had a verdict.
Undecided ==
  /\ \A j \in Jobs : jobs[j] # None => jobs[j].rejected = FALSE
  /\ \A m \in sent : m.type # "RESULT_ACK"

\* One RESULT is decided: until then no job is refused and no ack is sent, and
\* from then on a job that is about to be acknowledged, or was, stays accepted.
OneDecision ==
  /\ (~stats.raw_message_received \/ pc["main"] = "decide") => Undecided
  /\ pc["main"] \in {"decide", "settle", "ack_result"} =>
       stats.raw_message_received
  /\ pc["main"] \in {"settle", "ack_result"} => Acknowledged(msg.job)
  /\ \A m \in sent : m.type = "RESULT_ACK" => m.job \in Jobs /\ Acknowledged(m.job)

\* A record is registered under its own routing id only, and only a thread that
\* is expiring it can see it both expired and registered.
ExpiryUnderWay ==
  /\ \A r \in Routes : workers[r] # None => rec[workers[r]].route = r
  /\ \A t \in Threads : pc[t] \notin Expiring \union {"dead"} => cur[t] = None
  /\ \A t \in Threads : pc[t] \in {"check_id", "del_id"} => ~Registered(cur[t])
  /\ \A s \in Sessions : Expired(s) => Known(s)
  /\ ExpiredLeavesRegistry

-----------------------------------------------------------------------------
(* A record and the job it was sent.                                       *)

\* Setting a flag of a job record changes nothing else.
LEMMA CompletedEffect ==
  ASSUME jobs \in [Jobs -> JobRecord \union {None}],
         NEW j \in Jobs, jobs[j] # None,
         jobs' = [jobs EXCEPT ![j].completed = TRUE]
  PROVE  /\ jobs'[j] # None /\ jobs'[j].session = jobs[j].session
         /\ jobs'[j].completed /\ jobs'[j].rejected = jobs[j].rejected
         /\ \A k \in Jobs \ {j} : jobs'[k] = jobs[k]
<1>1. jobs[j] \in JobRecord /\ jobs'[j] = [jobs[j] EXCEPT !.completed = TRUE]
  OBVIOUS
<1>2. /\ jobs'[j] \in JobRecord /\ jobs'[j].session = jobs[j].session
      /\ jobs'[j].completed /\ jobs'[j].rejected = jobs[j].rejected
  BY <1>1 DEF JobRecord
<1>3. QED
  BY <1>2, NoneAssumption

LEMMA RejectedEffect ==
  ASSUME jobs \in [Jobs -> JobRecord \union {None}],
         NEW j \in Jobs, jobs[j] # None,
         jobs' = [jobs EXCEPT ![j].rejected = TRUE]
  PROVE  /\ jobs'[j] # None /\ jobs'[j].session = jobs[j].session
         /\ jobs'[j].completed = jobs[j].completed
         /\ \A k \in Jobs \ {j} : jobs'[k] = jobs[k]
<1>1. jobs[j] \in JobRecord /\ jobs'[j] = [jobs[j] EXCEPT !.rejected = TRUE]
  OBVIOUS
<1>2. /\ jobs'[j] \in JobRecord /\ jobs'[j].session = jobs[j].session
      /\ jobs'[j].completed = jobs[j].completed
  BY <1>1 DEF JobRecord
<1>3. QED
  BY <1>2, NoneAssumption

LEMMA AckEffect ==
  ASSUME jobs \in [Jobs -> JobRecord \union {None}],
         NEW j \in Jobs, jobs[j] # None,
         jobs' = [jobs EXCEPT ![j].ack = TRUE]
  PROVE  /\ jobs'[j] # None /\ jobs'[j].session = jobs[j].session
         /\ jobs'[j].completed = jobs[j].completed /\ jobs'[j].rejected = jobs[j].rejected
         /\ \A k \in Jobs \ {j} : jobs'[k] = jobs[k]
<1>1. jobs[j] \in JobRecord /\ jobs'[j] = [jobs[j] EXCEPT !.ack = TRUE]
  OBVIOUS
<1>2. /\ jobs'[j] \in JobRecord /\ jobs'[j].session = jobs[j].session
      /\ jobs'[j].completed = jobs[j].completed /\ jobs'[j].rejected = jobs[j].rejected
  BY <1>1 DEF JobRecord
<1>3. QED
  BY <1>2, NoneAssumption

\* The steps that neither create nor assign: a record keeps its job or is set
\* free, a job keeps its session.
LEMMA JobLinkKept ==
  ASSUME TInv, JobLink,
         \A s \in Sessions : rec'[s].job \in {rec[s].job, None},
         \A j \in Jobs : jobs[j] # None =>
           jobs'[j] # None /\ jobs'[j].session = jobs[j].session
  PROVE  JobLink'
<1>1. \A s \in Sessions : rec[s].job \in Jobs \union {None}
  BY DEF TInv, TypeOK, WorkerRecord
<1>2. QED
  BY <1>1 DEF JobLink

LEMMA ExpireJobLink ==
  ASSUME TInv, JobLink, NEW t \in Threads, Expire(t)
  PROVE  JobLink'
<1>1. jobs' = jobs
  BY DEF Expire, Scan, Mark, Remove, DeleteRoute, CheckId, DeleteId, EndExpiry
<1>2. \/ UNCHANGED rec
      \/ Transition(cur[t], "EXPIRED")
      \/ Transition(cur[t], "REMOVED")
  BY DEF Expire, Scan, Mark, Remove, DeleteRoute, CheckId, DeleteId,
         EndExpiry, registry
<1>3. \A s \in Sessions : rec'[s].job = rec[s].job
  BY <1>2 DEF Transition, TInv, TypeOK, WorkerRecord
<1>4. QED
  BY <1>1, <1>3, JobLinkKept

LEMMA MainJobLink ==
  ASSUME TInv, JobLink, MainThread
  PROVE  JobLink'
<1> USE NoneAssumption DEF TInv, registry, locals
<1>a. TypeOK /\ RecordsExist /\ LocalsSet
  OBVIOUS
<1>1. CASE RegisterId
  <2>1. UNCHANGED jobs
    BY <1>1 DEF RegisterId
  <2>2. rec' = rec \/ Transition(msg.session, "READY")
    BY <1>1 DEF RegisterId
  <2>3. \A s \in Sessions : rec'[s].job = rec[s].job
    BY <2>2 DEF Transition, TypeOK, WorkerRecord
  <2>4. QED
    BY <2>1, <2>3, JobLinkKept
<1>2. CASE DecideResult
  <2>1. rec' = rec /\ msg.job \in Jobs
    BY <1>2 DEF DecideResult, At, LocalsSet
  <2>2. CASE jobs' = jobs
    BY <2>1, <2>2, JobLinkKept
  <2>3. CASE jobs' # jobs
    <3>1. /\ jobs[msg.job] # None
          /\ \/ jobs' = [jobs EXCEPT ![msg.job].completed = TRUE]
             \/ jobs' = [jobs EXCEPT ![msg.job].rejected = TRUE]
      BY <1>2, <2>3 DEF DecideResult, Accept, Reject
    <3>2. QED
      BY <2>1, <3>1, CompletedEffect, RejectedEffect, JobLinkKept DEF TypeOK
  <2>4. QED
    BY <2>2, <2>3
<1>3. CASE SettleWorker
  <2>1. CASE worker = None
    BY <1>3, <2>1, JobLinkKept DEF SettleWorker
  <2>2. CASE worker # None
    <3>1. /\ worker \in Sessions /\ jobs' = jobs
          /\ rec' = [rec EXCEPT ![worker].state = "READY", ![worker].job = None]
      BY <1>3, <2>2 DEF SettleWorker, FreeWorker, TypeOK
    <3>2. /\ rec'[worker].job = None
          /\ \A x \in Sessions \ {worker} : rec'[x] = rec[x]
      BY <2>2, <3>1, AssignmentEffect DEF TypeOK, RecordsExist, WorkerStates
    <3>3. QED
      BY <3>1, <3>2, JobLinkKept
  <2>3. QED
    BY <2>1, <2>2
<1>4. CASE AckResult
  <2>1. rec' = rec /\ msg.job \in Jobs
    BY <1>4 DEF AckResult, At, LocalsSet
  <2>2. CASE jobs[msg.job] = None
    BY <1>4, <2>1, <2>2, JobLinkKept DEF AckResult
  <2>3. CASE jobs[msg.job] # None
    BY <1>4, <2>1, <2>3, AckEffect, JobLinkKept DEF AckResult, TypeOK
  <2>4. QED
    BY <2>2, <2>3
<1>5. ASSUME NEW s \in Sessions, PickWorker(s) PROVE JobLink'
  BY <1>5, JobLinkKept DEF PickWorker, Transition, TypeOK, WorkerRecord
<1>6. ASSUME NEW j \in Jobs, Assign(j) PROVE JobLink'
  <2>1. worker \in Sessions /\ Known(worker)
    BY <1>6 DEF Assign, At, LocalsSet, TypeOK, RecordsExist
  <2>2. /\ rec'[worker].job = j
        /\ \A x \in Sessions \ {worker} : rec'[x] = rec[x]
    BY <1>6, <2>1, AssignmentEffect DEF Assign, TypeOK, WorkerStates
  <2>3. /\ jobs[j] = None /\ jobs'[j] # None /\ jobs'[j].session = worker
        /\ \A k \in Jobs \ {j} : jobs'[k] = jobs[k]
    <3>1. [session |-> worker, completed |-> FALSE, rejected |-> FALSE,
           ack |-> FALSE] \in JobRecord
      BY <2>1 DEF JobRecord
    <3>2. QED
      BY <1>6, <3>1 DEF Assign, TypeOK
  <2>4. \A x \in Sessions : rec[x].job \in (Jobs \ {j}) \union {None}
    BY <2>3 DEF JobLink, TypeOK, WorkerRecord
  <2>5. QED
    BY <2>2, <2>3, <2>4 DEF JobLink
<1>7. CASE Expire("main")
  BY <1>7, ExpireJobLink DEF Threads
<1>8. CASE UNCHANGED <<rec, jobs>>
  BY <1>8, JobLinkKept
<1>9. ASSUME \/ StartExpiry \/ PollTimeout \/ EnterGrace \/ Finalize \/ Shutdown
             \/ AckReady \/ Refresh \/ NothingToDispatch \/ SendJob
      PROVE  UNCHANGED <<rec, jobs>>
  BY <1>9
     DEF StartExpiry, PollTimeout, EnterGrace, Finalize, Shutdown, AckReady,
         Refresh, NothingToDispatch, SendJob
<1>10. QED
  BY <1>1, <1>2, <1>3, <1>4, <1>5, <1>6, <1>7, <1>8, <1>9 DEF MainThread

LEMMA JobLinkStep == TInv /\ JobLink /\ [Next]_vars => JobLink'
<1> SUFFICES ASSUME TInv, JobLink, [Next]_vars PROVE JobLink'
  OBVIOUS
<1>1. CASE MainThread
  BY <1>1, MainJobLink
<1>2. CASE HeartbeatLoop
  <2>1. CASE Expire("heartbeat")
    BY <2>1, ExpireJobLink DEF Threads
  <2>2. CASE UNCHANGED <<rec, jobs>>
    BY <2>2, JobLinkKept
  <2>3. QED
    BY <1>2, <2>1, <2>2 DEF HeartbeatLoop, Wake, SendBeat, Rest, registry
<1>3. CASE Arrival
  <2>1. ASSUME NEW s \in Sessions, NEW r \in Routes, ReadyArrives(s, r)
        PROVE  JobLink'
    BY <2>1, JobLinkKept
       DEF ReadyArrives, HandleReady, Msg, TInv, TypeOK, WorkerRecord
  <2>2. CASE UNCHANGED <<rec, jobs>>
    BY <2>2, JobLinkKept
  <2>3. QED
    BY <1>3, <2>1, <2>2
       DEF Arrival, HeartbeatArrives, HandleHeartbeat, ResultArrives,
           HandleResult, registry
<1>4. CASE Passage \/ UNCHANGED vars
  BY <1>4, JobLinkKept
     DEF Passage, Lapse, DeadlinePasses, Interrupt, vars, registry
<1>5. QED
  BY <1>1, <1>2, <1>3, <1>4 DEF Next

-----------------------------------------------------------------------------
(* Who completes a job.                                                    *)

LEMMA InitJobLink == Init => JobLink
BY DEF Init, JobLink

\* The steps that write _jobs.
LEMMA JobSteps ==
  ASSUME [Next]_vars
  PROVE  UNCHANGED jobs \/ DecideResult \/ AckResult \/ \E j \in Jobs : Assign(j)
<1>1. CASE MainThread
  <2>1. CASE Expire("main")
    BY <2>1
       DEF Expire, Scan, Mark, Remove, DeleteRoute, CheckId, DeleteId,
           EndExpiry
  <2>2. QED
    BY <1>1, <2>1
       DEF MainThread, StartExpiry, PollTimeout, EnterGrace, Finalize,
           Shutdown, RegisterId, AckReady, Refresh, SettleWorker, PickWorker,
           NothingToDispatch, SendJob
<1>2. CASE HeartbeatLoop
  BY <1>2 DEF HeartbeatLoop, Wake, SendBeat, Rest, Expire, Scan, Mark, Remove,
              DeleteRoute, CheckId, DeleteId, EndExpiry
<1>3. CASE Arrival
  BY <1>3 DEF Arrival, ReadyArrives, HandleReady, HeartbeatArrives,
              HandleHeartbeat, ResultArrives, HandleResult
<1>4. CASE Passage \/ UNCHANGED vars
  BY <1>4 DEF Passage, Lapse, DeadlinePasses, Interrupt, vars
<1>5. QED
  BY <1>1, <1>2, <1>3, <1>4 DEF Next

LEMMA AcceptedSession ==
  ASSUME TInv, JobLink, Next, Policy = "strict",
         NEW j \in Jobs, jobs[j] # None, ~jobs[j].completed, jobs'[j].completed
  PROVE  msg.session = jobs[j].session
<1> USE NoneAssumption DEF TInv
<1>a. TypeOK /\ LocalsSet
  OBVIOUS
<1>1. CASE UNCHANGED jobs
  BY <1>1
<1>2. ASSUME NEW k \in Jobs, Assign(k) PROVE FALSE
  BY <1>2 DEF Assign, TypeOK
<1>3. CASE AckResult
  <2>1. jobs[msg.job] # None /\ jobs' = [jobs EXCEPT ![msg.job].ack = TRUE]
    BY <1>3 DEF AckResult
  <2>2. msg.job \in Jobs
    BY <1>3 DEF AckResult, At, LocalsSet
  <2>3. QED
    BY <2>1, <2>2, AckEffect DEF TypeOK
<1>4. CASE DecideResult
  <2>1. msg.job \in Jobs
    BY <1>4 DEF DecideResult, At, LocalsSet
  <2>2. ASSUME NEW reason, Reject(msg, reason) PROVE FALSE
    BY <2>1, <2>2, RejectedEffect DEF Reject, TypeOK
  <2>3. Accept(msg) /\ StrictReason(worker, msg) = None
    BY <1>4, <2>2 DEF DecideResult, RejectReason
  <2>4. /\ worker # None /\ worker = msg.session /\ rec[worker].job = msg.job
    BY <2>3 DEF StrictReason, RejectReasons
  <2>5. j = msg.job
    BY <2>1, <2>3, CompletedEffect DEF Accept, TypeOK
  <2>6. QED
    BY <2>4, <2>5 DEF JobLink, TypeOK
<1>5. QED
  BY <1>1, <1>2, <1>3, <1>4, JobSteps

\* Under the strict policy the session that completes a job is the one the job
\* was sent to, for every interleaving of the two threads and of peers.
THEOREM StrictSameSessionHolds == Spec => StrictSameSession
<1>1. TInv /\ JobLink /\ [Next]_vars =>
        [\A j \in Jobs :
          /\ Policy = "strict"
          /\ jobs[j] # None /\ ~jobs[j].completed /\ jobs'[j].completed
          => msg.session = jobs[j].session ]_vars
  BY AcceptedSession
<1>2. Spec => []JobLink
  BY InitJobLink, JobLinkStep, TypeCorrect, PTL DEF Spec
<1>3. QED
  BY <1>1, <1>2, TypeCorrect, PTL DEF Spec, StrictSameSession

-----------------------------------------------------------------------------
(* What an acknowledged job has become.                                    *)

LEMMA InitOneDecision == Init => OneDecision
BY DEF Init, OneDecision, Undecided, Threads

\* The steps that neither decide a RESULT nor send its ack.
LEMMA OneDecisionKept ==
  ASSUME TInv, OneDecision,
         pc'["main"] \in {"settle", "ack_result"} =>
           pc["main"] \in {"settle", "ack_result"} /\ msg' = msg,
         pc'["main"] = "decide" => pc["main"] = "decide",
         stats'.raw_message_received = stats.raw_message_received,
         stats.raw_message_received =>
           /\ stats'.result_accepted = stats.result_accepted
           /\ stats'.result_missing = stats.result_missing,
         \A j \in Jobs : jobs[j] # None => jobs'[j] = jobs[j],
         \A j \in Jobs : jobs[j] = None /\ jobs'[j] # None =>
           jobs'[j].rejected = FALSE,
         \A m \in sent' : m \in sent \/ m.type # "RESULT_ACK"
  PROVE  OneDecision'
<1>1. pc["main"] \in {"settle", "ack_result"} => msg.job \in Jobs
  BY DEF TInv, LocalsSet
<1>2. (~stats'.raw_message_received \/ pc'["main"] = "decide") => Undecided'
  BY DEF OneDecision, Undecided
<1>3. ASSUME NEW j \in Jobs, Acknowledged(j), stats.raw_message_received
      PROVE  Acknowledged(j)'
  BY <1>3 DEF Acknowledged
<1>4. pc'["main"] \in {"settle", "ack_result"} => Acknowledged(msg.job)'
  BY <1>1, <1>3 DEF OneDecision, Acknowledged
<1>5. \A m \in sent' : m.type = "RESULT_ACK" => m.job \in Jobs /\ Acknowledged(m.job)'
  BY <1>3 DEF OneDecision, Undecided, Acknowledged
<1>6. QED
  BY <1>2, <1>4, <1>5 DEF OneDecision

LEMMA ExpireOneDecision ==
  ASSUME TInv, OneDecision, NEW t \in Threads, Expire(t)
  PROVE  OneDecision'
<1>1. UNCHANGED <<jobs, sent, msg>>
  BY DEF Expire, Scan, Mark, Remove, DeleteRoute, CheckId, DeleteId,
         EndExpiry, locals
<1>2. stats' = stats \/ stats' = [stats EXCEPT !.worker_expired = TRUE]
  BY DEF Expire, Scan, Mark, Remove, DeleteRoute, CheckId, DeleteId, EndExpiry
<1>3. /\ stats'.raw_message_received = stats.raw_message_received
      /\ stats'.result_accepted = stats.result_accepted
      /\ stats'.result_missing = stats.result_missing
  BY <1>2 DEF TInv, TypeOK, BrokerStats
<1>4. pc'["main"] \notin {"settle", "ack_result", "decide"} \/ pc'["main"] = pc["main"]
  BY DEF Expire, Scan, Mark, Remove, DeleteRoute, CheckId, DeleteId, EndExpiry,
         At, Goto, Threads, TInv, TypeOK
<1>5. QED
  BY <1>1, <1>3, <1>4, OneDecisionKept DEF OneDecision

\* A RESULT is accepted for a job there is.
LEMMA DecidedJob ==
  ASSUME TInv, JobLink, At("main", "decide"), RejectReason(worker, msg) = None
  PROVE  jobs[msg.job] # None
<1> USE NoneAssumption DEF RejectReasons
<1>1. CASE Policy = "job-id"
  BY <1>1 DEF RejectReason, JobIdReason
<1>2. CASE Policy # "job-id"
  <2>1. worker # None /\ rec[worker].job = msg.job
    BY <1>2 DEF RejectReason, StrictReason
  <2>2. msg.job # None
    BY DEF At, TInv, LocalsSet
  <2>3. QED
    BY <2>1, <2>2 DEF JobLink, TInv, TypeOK
<1>3. QED
  BY <1>1, <1>2

LEMMA MainOneDecision ==
  ASSUME TInv, JobLink, OneDecision, MainThread
  PROVE  OneDecision'
<1> USE NoneAssumption DEF TInv, locals, At, Goto, MainGoto
<1>a. TypeOK /\ LocalsSet
  OBVIOUS
<1>1. CASE Expire("main")
  BY <1>1, ExpireOneDecision DEF Threads
<1>2. CASE Finalize
  <2>1. /\ stats'.raw_message_received = stats.raw_message_received
        /\ stats'.result_accepted = stats.result_accepted
        /\ stats.raw_message_received => stats'.result_missing = stats.result_missing
    BY <1>2 DEF Finalize, TypeOK, BrokerStats
  <2>2. QED
    BY <1>2, <2>1, OneDecisionKept DEF Finalize, TypeOK, Threads
<1>3. CASE DecideResult
  <2>1. msg.job \in Jobs /\ stats.raw_message_received /\ Undecided
    BY <1>3 DEF DecideResult, LocalsSet, OneDecision
  <2>2. CASE RejectReason(worker, msg) = None /\ Accept(msg)
    <3>1. jobs[msg.job] # None /\ ~jobs[msg.job].rejected
      BY <1>3, <2>1, <2>2, DecidedJob DEF DecideResult, Undecided
    <3>2. /\ jobs'[msg.job] # None
          /\ jobs'[msg.job].completed /\ ~jobs'[msg.job].rejected
          /\ \A k \in Jobs \ {msg.job} : jobs'[k] = jobs[k]
      BY <2>1, <2>2, <3>1, CompletedEffect DEF Accept, TypeOK
    <3>3. /\ stats'.raw_message_received /\ stats'.result_accepted
          /\ ~stats'.result_missing
      BY <2>1, <2>2 DEF Accept, TypeOK, BrokerStats
    <3>4. pc'["main"] = "settle" /\ msg' = msg /\ sent' = sent
      BY <1>3, <2>2 DEF DecideResult, Accept, TypeOK, Threads
    <3>5. QED
      BY <2>1, <3>2, <3>3, <3>4 DEF OneDecision, Undecided, Acknowledged
  <2>3. ASSUME NEW reason, Reject(msg, reason) PROVE OneDecision'
    <3>1. stats'.raw_message_received
      BY <2>1, <2>3 DEF Reject, TypeOK, BrokerStats
    <3>2. pc'["main"] \notin {"decide", "settle", "ack_result"} /\ sent' = sent
      BY <1>3, <2>3 DEF DecideResult, Reject, AfterMessage, TypeOK, Threads
    <3>3. QED
      BY <2>1, <3>1, <3>2 DEF OneDecision, Undecided
  <2>4. QED
    BY <1>3, <2>2, <2>3 DEF DecideResult
<1>4. CASE SettleWorker
  BY <1>4, OneDecisionKept DEF SettleWorker, TypeOK, Threads
<1>5. CASE AckResult
  <2>1. /\ msg \in Message /\ msg.job \in Jobs /\ jobs[msg.job] # None
        /\ stats.raw_message_received /\ Acknowledged(msg.job)
    BY <1>5 DEF AckResult, LocalsSet, TypeOK, OneDecision, Acknowledged
  <2>2. \A k \in Jobs : jobs[k] # None =>
          /\ jobs'[k] # None
          /\ jobs'[k].completed = jobs[k].completed
          /\ jobs'[k].rejected = jobs[k].rejected
    BY <1>5, <2>1, AckEffect DEF AckResult, TypeOK
  <2>3. /\ stats'.raw_message_received
        /\ stats'.result_accepted = stats.result_accepted
        /\ stats'.result_missing = stats.result_missing
    BY <1>5, <2>1 DEF AckResult, TypeOK, BrokerStats
  <2>4. /\ pc'["main"] \notin {"decide", "settle", "ack_result"}
        /\ \A m \in sent' : m \in sent \/ m.job = msg.job
    BY <1>5 DEF AckResult, Send, Msg, AfterMessage, TypeOK, Threads
  <2>5. QED
    BY <2>1, <2>2, <2>3, <2>4 DEF OneDecision, Acknowledged
<1>6. ASSUME NEW j \in Jobs, Assign(j) PROVE OneDecision'
  <2>1. worker \in Sessions /\ jobs[j] = None
    BY <1>6 DEF Assign, LocalsSet, TypeOK
  <2>2. jobs'[j].rejected = FALSE /\ \A k \in Jobs \ {j} : jobs'[k] = jobs[k]
    BY <1>6, <2>1 DEF Assign, TypeOK
  <2>3. stats'.raw_message_received = stats.raw_message_received
        /\ stats'.result_accepted = stats.result_accepted
        /\ stats'.result_missing = stats.result_missing
    BY <1>6 DEF Assign, TypeOK, BrokerStats
  <2>4. pc'["main"] = "send_job" /\ sent' = sent
    BY <1>6 DEF Assign, TypeOK, Threads
  <2>5. QED
    BY <2>1, <2>2, <2>3, <2>4, OneDecisionKept
<1>7. CASE SendJob \/ AckReady
  <2>1. UNCHANGED <<jobs, stats>>
    BY <1>7 DEF SendJob, AckReady
  <2>2. pc'["main"] \notin {"decide", "settle", "ack_result"}
    BY <1>7 DEF SendJob, AckReady, AfterMessage, TypeOK, Threads
  <2>3. \A m \in sent' : m \in sent \/ m.type # "RESULT_ACK"
    BY <1>7 DEF SendJob, AckReady, Send, Msg
  <2>4. QED
    BY <2>1, <2>2, <2>3, OneDecisionKept
<1>8. CASE \/ StartExpiry \/ PollTimeout \/ EnterGrace \/ Shutdown \/ RegisterId
           \/ Refresh \/ (\E s \in Sessions : PickWorker(s)) \/ NothingToDispatch
  BY <1>8, OneDecisionKept
     DEF StartExpiry, PollTimeout, EnterGrace, Shutdown, RegisterId, Refresh,
         PickWorker, NothingToDispatch, AfterMessage, control, TypeOK, Threads
<1>9. QED
  BY <1>1, <1>2, <1>3, <1>4, <1>5, <1>6, <1>7, <1>8 DEF MainThread

LEMMA OneDecisionStep ==
  ASSUME TInv, JobLink, OneDecision, [Next]_vars
  PROVE  OneDecision'
<1> USE DEF At, Goto, MainGoto, locals
<1>1. CASE MainThread
  BY <1>1, MainOneDecision
<1>2. CASE HeartbeatLoop
  <2>1. CASE Expire("heartbeat")
    BY <2>1, ExpireOneDecision DEF Threads
  <2>2. CASE Wake \/ (\E s \in Sessions : SendBeat(s)) \/ Rest
    <3>1. UNCHANGED <<jobs, stats, msg>> /\ pc'["main"] = pc["main"]
      BY <2>2 DEF Wake, SendBeat, Rest, TInv, TypeOK, Threads
    <3>2. \A m \in sent' : m \in sent \/ m.type # "RESULT_ACK"
      BY <2>2 DEF Wake, SendBeat, Rest, Send, Msg
    <3>3. QED
      BY <3>1, <3>2, OneDecisionKept DEF OneDecision
  <2>3. QED
    BY <1>2, <2>1, <2>2 DEF HeartbeatLoop
<1>3. CASE Arrival
  <2>1. ASSUME NEW r \in Routes,
               (\E s \in Sessions : ReadyArrives(s, r)) \/ HeartbeatArrives(r)
        PROVE  OneDecision'
    <3>1. UNCHANGED <<jobs, stats, sent>>
      BY <2>1 DEF ReadyArrives, HandleReady, HeartbeatArrives, HandleHeartbeat
    <3>2. pc'["main"] \notin {"decide", "settle", "ack_result"}
      BY <2>1 DEF ReadyArrives, HandleReady, HeartbeatArrives, HandleHeartbeat,
                  AfterMessage, TInv, TypeOK, Threads
    <3>3. QED
      BY <3>1, <3>2, OneDecisionKept
  <2>2. ASSUME NEW d \in JobsSent, NEW s \in Sessions, NEW r \in Routes,
               ResultArrives(d, s, r)
        PROVE  OneDecision'
    <3>1. Undecided /\ UNCHANGED <<jobs, sent>>
      BY <2>2 DEF ResultArrives, HandleResult, OneDecision
    <3>2. stats'.raw_message_received /\ pc'["main"] = "decide"
      BY <2>2 DEF ResultArrives, HandleResult, TInv, TypeOK, BrokerStats, Threads
    <3>3. QED
      BY <3>1, <3>2 DEF OneDecision, Undecided
  <2>3. QED
    BY <1>3, <2>1, <2>2 DEF Arrival
<1>4. CASE Passage \/ UNCHANGED vars
  <2>1. /\ UNCHANGED <<jobs, stats, sent, msg>>
        /\ pc'["main"] = pc["main"] \/ pc'["main"] = "dead"
    BY <1>4 DEF Passage, Lapse, DeadlinePasses, Interrupt, vars, control, TInv,
                TypeOK, Threads
  <2>2. QED
    BY <2>1, OneDecisionKept DEF OneDecision
<1>5. QED
  BY <1>1, <1>2, <1>3, <1>4 DEF Next

\* An acknowledged RESULT is a completed job, never a refused one, and no
\* statistic of the run contradicts its ack.
THEOREM AckIsTrueHolds == Spec => []AckIsTrue
<1>1. Init => JobLink /\ OneDecision
  BY InitJobLink, InitOneDecision
<1>2. TInv /\ JobLink /\ OneDecision /\ [Next]_vars => JobLink' /\ OneDecision'
  BY JobLinkStep, OneDecisionStep
<1>3. OneDecision => AckIsTrue
  BY DEF OneDecision, AckIsTrue, Acknowledged
<1>4. QED
  BY <1>1, <1>2, <1>3, TypeCorrect, PTL DEF Spec

-----------------------------------------------------------------------------
(* The job run_once sends.                                                 *)

LEMMA InitDispatchOnce == Init => DispatchOnce
BY DEF Init, DispatchOnce, OneDispatch, JobsSent, Threads

\* The steps that send no JOB.
LEMMA DispatchOnceKept ==
  ASSUME TInv, DispatchOnce,
         pc'["main"] \notin {"assign", "send_job"}
           \/ /\ pc'["main"] = pc["main"] /\ worker' = worker
              /\ stats'.job_id = stats.job_id,
         job_sent' = job_sent,
         JobsSent' = JobsSent,
         \A j \in Jobs : jobs[j] # None =>
           jobs'[j] # None /\ jobs'[j].session = jobs[j].session
  PROVE  DispatchOnce'
<1>1. \A m \in JobsSent : m.job \in Jobs
  BY DEF TInv, LocalsSet
<1>2. OneDispatch'
  BY <1>1 DEF DispatchOnce, OneDispatch
<1>3. pc["main"] = "send_job" => stats.job_id \in Jobs
  BY DEF TInv, LocalsSet
<1>4. QED
  BY <1>2, <1>3 DEF DispatchOnce

\* A job keeps the session it was assigned to.
LEMMA SessionKept ==
  ASSUME TInv, [Next]_vars
  PROVE  \A j \in Jobs : jobs[j] # None =>
           jobs'[j] # None /\ jobs'[j].session = jobs[j].session
<1> USE NoneAssumption DEF TInv
<1>a. TypeOK /\ LocalsSet
  OBVIOUS
<1>1. CASE AckResult
  <2>1. msg.job \in Jobs
    BY <1>1 DEF AckResult, At, LocalsSet
  <2>2. QED
    BY <1>1, <2>1, AckEffect DEF AckResult, TypeOK
<1>2. CASE DecideResult
  <2>1. msg.job \in Jobs
    BY <1>2 DEF DecideResult, At, LocalsSet
  <2>2. CASE Accept(msg)
    BY <2>1, <2>2, CompletedEffect DEF Accept, TypeOK
  <2>3. ASSUME NEW reason, Reject(msg, reason)
        PROVE  \A j \in Jobs : jobs[j] # None =>
                 jobs'[j] # None /\ jobs'[j].session = jobs[j].session
    BY <2>1, <2>3, RejectedEffect DEF Reject, TypeOK
  <2>4. QED
    BY <1>2, <2>2, <2>3 DEF DecideResult
<1>3. ASSUME NEW k \in Jobs, Assign(k)
      PROVE  \A j \in Jobs : jobs[j] # None => jobs'[j] = jobs[j]
  BY <1>3 DEF Assign, TypeOK
<1>4. QED
  BY <1>1, <1>2, <1>3, JobSteps

LEMMA ExpireDispatchOnce ==
  ASSUME TInv, DispatchOnce, NEW t \in Threads, Expire(t)
  PROVE  DispatchOnce'
<1>1. UNCHANGED <<jobs, sent, worker, job_sent>>
  BY DEF Expire, Scan, Mark, Remove, DeleteRoute, CheckId, DeleteId,
         EndExpiry, locals
<1>2. stats' = stats \/ stats' = [stats EXCEPT !.worker_expired = TRUE]
  BY DEF Expire, Scan, Mark, Remove, DeleteRoute, CheckId, DeleteId, EndExpiry
<1>3. stats'.job_id = stats.job_id
  BY <1>2 DEF TInv, TypeOK, BrokerStats
<1>4. pc'["main"] \notin {"assign", "send_job"} \/ pc'["main"] = pc["main"]
  BY DEF Expire, Scan, Mark, Remove, DeleteRoute, CheckId, DeleteId, EndExpiry,
         At, Goto, Threads, TInv, TypeOK
<1>5. QED
  BY <1>1, <1>3, <1>4, DispatchOnceKept DEF JobsSent

LEMMA MainDispatchOnce ==
  ASSUME TInv, DispatchOnce, MainThread
  PROVE  DispatchOnce'
<1> USE NoneAssumption DEF TInv, locals, At, Goto, MainGoto
<1>a. TypeOK /\ RecordsExist /\ LocalsSet
  OBVIOUS
<1>s. \A j \in Jobs : jobs[j] # None =>
        jobs'[j] # None /\ jobs'[j].session = jobs[j].session
  BY SessionKept DEF Next
<1>1. CASE Expire("main")
  BY <1>1, ExpireDispatchOnce DEF Threads
<1>2. ASSUME NEW s \in Sessions, PickWorker(s) PROVE DispatchOnce'
  <2>1. ~job_sent /\ UNCHANGED <<job_sent, sent>> /\ pc'["main"] = "assign"
    BY <1>2 DEF PickWorker, Dispatchable, TypeOK, Threads
  <2>2. JobsSent = {} /\ JobsSent' = {}
    BY <2>1 DEF DispatchOnce, JobsSent
  <2>3. QED
    BY <2>1, <2>2 DEF DispatchOnce, OneDispatch
<1>3. ASSUME NEW j \in Jobs, Assign(j) PROVE DispatchOnce'
  <2>1. /\ ~job_sent /\ UNCHANGED <<job_sent, sent, worker>>
        /\ worker \in Sessions
        /\ pc'["main"] = "send_job"
    BY <1>3 DEF Assign, DispatchOnce, LocalsSet, TypeOK, Threads
  <2>2. JobsSent = {} /\ JobsSent' = {}
    BY <2>1 DEF DispatchOnce, JobsSent
  <2>3. stats'.job_id = j
    BY <1>3 DEF Assign, TypeOK, BrokerStats
  <2>4. jobs'[j] # None /\ jobs'[j].session = worker
    <3>1. [session |-> worker, completed |-> FALSE, rejected |-> FALSE,
           ack |-> FALSE] \in JobRecord
      BY <2>1 DEF JobRecord
    <3>2. QED
      BY <1>3, <3>1 DEF Assign, TypeOK
  <2>5. QED
    BY <2>1, <2>2, <2>3, <2>4 DEF DispatchOnce, OneDispatch
<1>4. CASE SendJob
  <2>1. /\ ~job_sent /\ job_sent' /\ UNCHANGED jobs
        /\ jobs[stats.job_id] # None /\ jobs[stats.job_id].session = worker
        /\ pc'["main"] = "expire"
    BY <1>4 DEF SendJob, DispatchOnce, TypeOK, Threads
  <2>2. JobsSent = {}
    BY <2>1 DEF DispatchOnce
  <2>3. \A m \in JobsSent' : m = Msg("JOB", rec[worker].route, worker, stats.job_id)
    BY <1>4, <2>2 DEF SendJob, Send, JobsSent
  <2>4. \A m \in JobsSent' : m.job = stats.job_id /\ m.session = worker
    BY <2>3 DEF Msg
  <2>5. OneDispatch'
    BY <2>1, <2>3, <2>4 DEF OneDispatch
  <2>6. QED
    BY <2>1, <2>5 DEF DispatchOnce
<1>5. CASE AckReady \/ AckResult
  <2>1. JobsSent' = JobsSent
    BY <1>5 DEF AckReady, AckResult, Send, Msg, JobsSent
  <2>2. job_sent' = job_sent /\ pc'["main"] \notin {"assign", "send_job"}
    BY <1>5 DEF AckReady, AckResult, AfterMessage, TypeOK, Threads
  <2>3. QED
    BY <1>s, <2>1, <2>2, DispatchOnceKept
<1>6. CASE \/ StartExpiry \/ PollTimeout \/ EnterGrace \/ Finalize \/ RegisterId
           \/ Refresh \/ DecideResult \/ SettleWorker \/ NothingToDispatch
  <2>1. job_sent' = job_sent /\ sent' = sent
    BY <1>6
       DEF StartExpiry, PollTimeout, EnterGrace, Finalize, RegisterId,
           Refresh, DecideResult, SettleWorker, NothingToDispatch
  <2>2. pc'["main"] \notin {"assign", "send_job"}
    BY <1>6
       DEF StartExpiry, PollTimeout, EnterGrace, Finalize, RegisterId,
           Refresh, DecideResult, Accept, Reject, SettleWorker,
           NothingToDispatch, AfterMessage, TypeOK, Threads
  <2>3. QED
    BY <1>s, <2>1, <2>2, DispatchOnceKept DEF JobsSent
<1>7. CASE Shutdown
  BY <1>7, DispatchOnceKept DEF Shutdown, control, JobsSent
<1>8. QED
  BY <1>1, <1>2, <1>3, <1>4, <1>5, <1>6, <1>7 DEF MainThread

LEMMA DispatchOnceStep ==
  ASSUME TInv, DispatchOnce, [Next]_vars
  PROVE  DispatchOnce'
<1> USE DEF At, Goto, MainGoto, locals
<1>1. CASE MainThread
  BY <1>1, MainDispatchOnce
<1>2. CASE HeartbeatLoop
  <2>1. CASE Expire("heartbeat")
    BY <2>1, ExpireDispatchOnce DEF Threads
  <2>2. CASE Wake \/ (\E s \in Sessions : SendBeat(s)) \/ Rest
    <3>1. UNCHANGED <<jobs, stats, worker, job_sent>> /\ pc'["main"] = pc["main"]
      BY <2>2 DEF Wake, SendBeat, Rest, TInv, TypeOK, Threads
    <3>2. JobsSent' = JobsSent
      BY <2>2 DEF Wake, SendBeat, Rest, Send, Msg, JobsSent
    <3>3. QED
      BY <3>1, <3>2, DispatchOnceKept
  <2>3. QED
    BY <1>2, <2>1, <2>2 DEF HeartbeatLoop
<1>3. CASE Arrival
  <2>1. UNCHANGED <<jobs, sent, job_sent>>
    BY <1>3 DEF Arrival, ReadyArrives, HandleReady, HeartbeatArrives,
                HandleHeartbeat, ResultArrives, HandleResult
  <2>2. pc'["main"] \notin {"assign", "send_job"}
    BY <1>3
       DEF Arrival, ReadyArrives, HandleReady, HeartbeatArrives, AfterMessage,
           HandleHeartbeat, ResultArrives, HandleResult, TInv, TypeOK, Threads
  <2>3. QED
    BY <2>1, <2>2, DispatchOnceKept DEF JobsSent
<1>4. CASE Passage \/ UNCHANGED vars
  <2>1. /\ UNCHANGED <<jobs, stats, sent, worker, job_sent>>
        /\ pc'["main"] = pc["main"] \/ pc'["main"] = "dead"
    BY <1>4 DEF Passage, Lapse, DeadlinePasses, Interrupt, vars, control, TInv,
                TypeOK, Threads
  <2>2. QED
    BY <2>1, DispatchOnceKept DEF JobsSent
<1>5. QED
  BY <1>1, <1>2, <1>3, <1>4 DEF Next

\* run_once sends one JOB, whatever joins, leaves or is expired meanwhile, and
\* the job record names the session it went to.
THEOREM OneDispatchHolds == Spec => []OneDispatch
<1>1. TInv /\ DispatchOnce /\ [Next]_vars => DispatchOnce'
  BY DispatchOnceStep
<1>2. DispatchOnce => OneDispatch
  BY DEF DispatchOnce
<1>3. QED
  BY <1>1, <1>2, InitDispatchOnce, TypeCorrect, PTL DEF Spec

-----------------------------------------------------------------------------
(* An expired record leaves the registry.                                  *)

LEMMA InitExpiryUnderWay == Init => ExpiryUnderWay
BY DEF Init, ExpiryUnderWay, ExpiredLeavesRegistry, Registered, Expired

\* Where a step that neither marks, deletes nor registers may take a thread.
Moves(t) ==
  \/ UNCHANGED <<pc[t], cur[t]>>
  \/ cur'[t] = cur[t] /\ pc'[t] \in {"remove", "del_route", "dead"}
  \/ pc[t] = "check_id" /\ pc'[t] = "del_id" /\ cur'[t] = cur[t]
  \/ cur[t] = None /\ pc'[t] = "mark"
  \/ cur[t] = None /\ cur'[t] = None /\ pc'[t] \notin {"check_id", "del_id"}
  \/ pc[t] \in {"check_id", "del_id"} /\ pc'[t] = "scan" /\ cur'[t] = None

LEMMA ExpiryUnderWayKept ==
  ASSUME TInv, ExpiryUnderWay,
         workers' = workers, expired_workers' = expired_workers,
         \A s \in Sessions : rec'[s].route = rec[s].route /\ (Known(s) <=> Known(s)'),
         \A t \in Threads : Moves(t)
  PROVE  ExpiryUnderWay'
<1>1. \A s \in Sessions : /\ Registered(s)' <=> Registered(s)
                          /\ Expired(s)' <=> Expired(s)
  BY DEF Registered, Expired
<1>2. \A r \in Routes : workers'[r] # None => rec'[workers'[r]].route = r
  BY DEF ExpiryUnderWay, TInv, TypeOK
<1>3. \A t \in Threads : pc'[t] \notin Expiring \union {"dead"} => cur'[t] = None
  BY DEF ExpiryUnderWay, Moves, Expiring, ExpiryPlaces
<1>5. ASSUME NEW t \in Threads, pc'[t] \in {"check_id", "del_id"}
      PROVE  ~Registered(cur[t])'
  <2>1. pc[t] \in {"check_id", "del_id"} /\ cur'[t] = cur[t]
    BY <1>5 DEF Moves
  <2>2. ~Registered(cur[t])
    BY <2>1 DEF ExpiryUnderWay
  <2>3. QED
    BY <2>1, <2>2 DEF Registered
<1>6. \A s \in Sessions : Expired(s)' => Known(s)'
  BY <1>1 DEF ExpiryUnderWay
<1>7. ASSUME NEW s \in Sessions, Expired(s)', Registered(s)'
      PROVE  \E t \in Threads : cur'[t] = s
  <2>1. PICK t \in Threads : cur[t] = s
    BY <1>1, <1>7 DEF ExpiryUnderWay, ExpiredLeavesRegistry
  <2>2. s # None /\ pc[t] \notin {"check_id", "del_id"}
    BY <1>1, <1>7, <2>1, NoneAssumption DEF ExpiryUnderWay
  <2>3. cur'[t] = s
    BY <2>1, <2>2 DEF Moves
  <2>4. QED
    BY <2>3
<1>8. QED
  BY <1>2, <1>3, <1>5, <1>6, <1>7 DEF ExpiryUnderWay, ExpiredLeavesRegistry

LEMMA ExpireExpiryUnderWay ==
  ASSUME TInv, ExpiryUnderWay, NEW t \in Threads, Expire(t)
  PROVE  ExpiryUnderWay'
<1> USE NoneAssumption DEF TInv, registry, At, Goto
<1>a. TypeOK /\ RecordsExist /\ LocalsSet
  OBVIOUS
<1>1. ASSUME NEW s \in Sessions, Scan(t, s) PROVE ExpiryUnderWay'
  <2>1. cur[t] = None
    BY <1>1 DEF Scan, ExpiryUnderWay, Expiring, ExpiryPlaces
  <2>2. \A x \in Threads : Moves(x)
    BY <1>1, <2>1 DEF Scan, Moves, TypeOK
  <2>3. QED
    BY <1>1, <2>2, ExpiryUnderWayKept DEF Scan, Known
<1>2. CASE Mark(t)
  <2>1. cur[t] \in Sessions /\ Known(cur[t])
    BY <1>2 DEF Mark, TypeOK, RecordsExist, LocalsSet, Expiring, ExpiryPlaces
  <2>2. \A x \in Sessions : rec'[x].route = rec[x].route /\ (Known(x) <=> Known(x)')
    BY <1>2, <2>1, TransitionEffect DEF Mark, TypeOK, WorkerStates
  <2>3. \A x \in Sessions : Expired(x)' => Expired(x) \/ x = cur[t]
    BY <1>2, <2>1 DEF Mark, Expired, TypeOK
  <2>4. \A x \in Sessions : Registered(x)' <=> Registered(x)
    BY <1>2 DEF Mark, Registered
  <2>5. ExpiredLeavesRegistry'
    BY <1>2, <2>3, <2>4 DEF Mark, ExpiryUnderWay, ExpiredLeavesRegistry
  <2>6. QED
    BY <1>2, <2>1, <2>2, <2>3, <2>5
       DEF Mark, ExpiryUnderWay, Registered, TypeOK, Expiring, ExpiryPlaces
<1>3. CASE Remove(t)
  <2>1. cur[t] \in Sessions /\ Known(cur[t])
    BY <1>3 DEF Remove, TypeOK, RecordsExist, LocalsSet, Expiring, ExpiryPlaces
  <2>2. \A x \in Sessions : rec'[x].route = rec[x].route /\ (Known(x) <=> Known(x)')
    BY <1>3, <2>1, TransitionEffect DEF Remove, TypeOK, WorkerStates
  <2>3. \A x \in Threads : Moves(x)
    BY <1>3 DEF Remove, Moves, TypeOK
  <2>4. QED
    BY <1>3, <2>2, <2>3, ExpiryUnderWayKept DEF Remove
<1>4. CASE DeleteRoute(t)
  <2>1. cur[t] \in Sessions /\ cur' = cur /\ rec' = rec
    BY <1>4 DEF DeleteRoute, TypeOK, LocalsSet, Expiring, ExpiryPlaces
  <2>2. \A r \in Routes : workers'[r] \in {workers[r], None}
    BY <1>4 DEF DeleteRoute, TypeOK
  <2>3. \A x \in Sessions : Registered(x)' => Registered(x)
    BY <2>2 DEF Registered
  <2>4. ~Registered(cur[t])'
    BY <1>4, <2>1, <2>2 DEF DeleteRoute, Registered, ExpiryUnderWay, TypeOK
  <2>5. \A x \in Threads \ {t} : pc'[x] = pc[x]
    BY <1>4 DEF DeleteRoute, TypeOK
  <2>6. pc'[t] \in {"dead", "check_id"}
    BY <1>4 DEF DeleteRoute, TypeOK
  <2>7. \A x \in Threads : pc'[x] \in {"check_id", "del_id"} => ~Registered(cur[x])'
    <3>1. \A x \in Threads : pc[x] \in {"check_id", "del_id"} => cur[x] # None
      BY DEF LocalsSet, Expiring, ExpiryPlaces
    <3>2. QED
      BY <2>1, <2>2, <2>4, <2>5, <3>1 DEF ExpiryUnderWay, Registered
  <2>8. /\ \A r \in Routes : workers'[r] # None => rec'[workers'[r]].route = r
        /\ \A x \in Threads : pc'[x] \notin Expiring \union {"dead"} => cur'[x] = None
        /\ \A s \in Sessions : Expired(s)' => Known(s)'
        /\ ExpiredLeavesRegistry'
    BY <1>4, <2>1, <2>2, <2>3, <2>5, <2>6
       DEF DeleteRoute, ExpiryUnderWay, ExpiredLeavesRegistry, Expired, Known,
           Expiring, ExpiryPlaces
  <2>9. QED
    BY <2>7, <2>8 DEF ExpiryUnderWay
<1>5. CASE CheckId(t) \/ DeleteId(t) \/ EndExpiry(t)
  <2>1. UNCHANGED <<workers, expired_workers, rec>>
    BY <1>5 DEF CheckId, DeleteId, EndExpiry
  <2>2. pc[t] = "scan" => cur[t] = None
    BY DEF ExpiryUnderWay, Expiring, ExpiryPlaces
  <2>3. \A x \in Threads : Moves(x)
    BY <1>5, <2>2 DEF CheckId, DeleteId, EndExpiry, Snapshot, Moves, TypeOK
  <2>4. QED
    BY <2>1, <2>3, ExpiryUnderWayKept DEF Known
<1>6. QED
  BY <1>1, <1>2, <1>3, <1>4, <1>5 DEF Expire

\* The main thread keeps the route of every record.
LEMMA MainRecords ==
  ASSUME TInv, MainThread
  PROVE  \A s \in Sessions : rec'[s].route = rec[s].route /\ (Known(s) <=> Known(s)')
<1> USE NoneAssumption DEF TInv, registry, At
<1>a. TypeOK /\ RecordsExist /\ LocalsSet
  OBVIOUS
<1>1. CASE RegisterId
  <2>1. msg.session \in Sessions /\ Known(msg.session)
    BY <1>1 DEF RegisterId, LocalsSet, TypeOK, Message
  <2>2. QED
    BY <1>1, <2>1, TransitionEffect DEF RegisterId, TypeOK, WorkerStates, Known
<1>2. CASE SettleWorker
  <2>1. CASE worker = None
    BY <1>2, <2>1 DEF SettleWorker, Known
  <2>2. CASE worker # None
    BY <1>2, <2>2, AssignmentEffect
       DEF SettleWorker, FreeWorker, TypeOK, RecordsExist, WorkerStates
  <2>3. QED
    BY <2>1, <2>2
<1>3. ASSUME NEW s \in Sessions, PickWorker(s)
      PROVE  \A x \in Sessions : rec'[x].route = rec[x].route /\ (Known(x) <=> Known(x)')
  BY <1>3, TransitionEffect
     DEF PickWorker, Dispatchable, TypeOK, WorkerStates, Known
<1>4. ASSUME NEW j \in Jobs, Assign(j)
      PROVE  \A x \in Sessions : rec'[x].route = rec[x].route /\ (Known(x) <=> Known(x)')
  BY <1>4, AssignmentEffect
     DEF Assign, TypeOK, RecordsExist, LocalsSet, WorkerStates
<1>5. CASE Mark("main") \/ Remove("main")
  <2>1. cur["main"] \in Sessions /\ Known(cur["main"])
    BY <1>5
       DEF Mark, Remove, Threads, TypeOK, RecordsExist, LocalsSet, Expiring,
           ExpiryPlaces
  <2>2. QED
    BY <1>5, <2>1, TransitionEffect DEF Mark, Remove, TypeOK, WorkerStates
<1>6. CASE UNCHANGED rec
  BY <1>6 DEF Known
<1>7. QED
  BY <1>1, <1>2, <1>3, <1>4, <1>5, <1>6
     DEF MainThread, Expire, Scan, DeleteRoute, CheckId, DeleteId, EndExpiry,
         StartExpiry, PollTimeout, EnterGrace, Finalize, Shutdown, AckReady,
         Refresh, DecideResult, AckResult, NothingToDispatch, SendJob

LEMMA MainExpiryUnderWay ==
  ASSUME TInv, ExpiryUnderWay, MainThread
  PROVE  ExpiryUnderWay'
<1> USE DEF At, Goto, MainGoto, registry
<1>1. CASE Expire("main")
  BY <1>1, ExpireExpiryUnderWay DEF Threads
<1>2. CASE Shutdown
  BY <1>2, ExpiryUnderWayKept DEF Shutdown, control, Known, Moves
<1>3. CASE ~Expire("main") /\ ~Shutdown
  <2>1. workers' = workers /\ expired_workers' = expired_workers
    BY <1>3
       DEF MainThread, StartExpiry, PollTimeout, EnterGrace, Finalize,
           RegisterId, AckReady, Refresh, DecideResult, SettleWorker,
           AckResult, PickWorker, NothingToDispatch, Assign, SendJob
  <2>2. pc["main"] \in MainPlaces
    BY <1>3
       DEF MainThread, StartExpiry, PollTimeout, Receiving, EnterGrace,
           Finalize, RegisterId, AckReady, Refresh, DecideResult,
           SettleWorker, AckResult, PickWorker, NothingToDispatch, Assign,
           SendJob, MainPlaces
  <2>3. cur["main"] = None
    BY <2>2 DEF ExpiryUnderWay, Expiring, ExpiryPlaces, MainPlaces, Threads
  <2>4. cur' = cur /\ pc' = [pc EXCEPT !["main"] = pc'["main"]]
    BY <1>3
       DEF MainThread, StartExpiry, Snapshot, PollTimeout, EnterGrace,
           Finalize, RegisterId, AckReady, Refresh, DecideResult, Accept,
           Reject, SettleWorker, AckResult, PickWorker, NothingToDispatch,
           Assign, SendJob, TInv, TypeOK, Threads
  <2>5. pc'["main"] \notin {"check_id", "del_id"}
    BY <1>3 DEF MainThread, StartExpiry, PollTimeout, EnterGrace, Finalize,
                RegisterId, AckReady, Refresh, DecideResult, Accept, Reject,
                SettleWorker, AckResult, PickWorker, NothingToDispatch, Assign,
                SendJob, AfterMessage, TInv, TypeOK, Threads
  <2>6. \A t \in Threads : Moves(t)
    BY <2>3, <2>4, <2>5 DEF Moves, TInv, TypeOK, Threads
  <2>7. QED
    BY <2>1, <2>6, MainRecords, ExpiryUnderWayKept
<1>4. QED
  BY <1>1, <1>2, <1>3

LEMMA ExpiryUnderWayStep ==
  ASSUME TInv, ExpiryUnderWay, [Next]_vars
  PROVE  ExpiryUnderWay'
<1> USE NoneAssumption DEF At, Goto, MainGoto, registry
<1>1. CASE MainThread
  BY <1>1, MainExpiryUnderWay
<1>2. CASE HeartbeatLoop
  <2>1. CASE Expire("heartbeat")
    BY <2>1, ExpireExpiryUnderWay DEF Threads
  <2>2. CASE Wake \/ (\E s \in Sessions : SendBeat(s)) \/ Rest
    <3>1. UNCHANGED <<workers, expired_workers, rec, cur>>
      BY <2>2 DEF Wake, Snapshot, SendBeat, Rest
    <3>2. \A t \in Threads :
            \/ pc'[t] = pc[t]
            \/ /\ t = "heartbeat" /\ pc[t] \in HeartbeatPlaces
               /\ pc'[t] \in {"done", "scan", "wake"}
      BY <2>2 DEF Wake, SendBeat, Rest, TInv, TypeOK, Threads, HeartbeatPlaces
    <3>3. \A t \in Threads : Moves(t)
      BY <3>1, <3>2
         DEF Moves, ExpiryUnderWay, Expiring, ExpiryPlaces, HeartbeatPlaces
    <3>4. QED
      BY <3>1, <3>3, ExpiryUnderWayKept DEF Known
  <2>3. QED
    BY <1>2, <2>1, <2>2 DEF HeartbeatLoop
<1>3. ASSUME NEW s \in Sessions, NEW r \in Routes, ReadyArrives(s, r)
      PROVE  ExpiryUnderWay'
  <2>1. /\ ~Known(s)
        /\ workers' = [workers EXCEPT ![r] = s]
        /\ rec'[s].route = r /\ Known(s)'
        /\ \A x \in Sessions \ {s} : rec'[x] = rec[x]
        /\ UNCHANGED <<expired_workers, cur>>
    BY <1>3 DEF ReadyArrives, HandleReady, Put, Msg, Known, TInv, TypeOK
  <2>2. \A t \in Threads :
          \/ pc'[t] = pc[t]
          \/ t = "main" /\ pc[t] \in MainPlaces /\ pc'[t] = "register"
    BY <1>3
       DEF ReadyArrives, HandleReady, Receiving, MainPlaces, TInv, TypeOK,
           Threads
  <2>3. \A t \in Threads : cur[t] # s
    BY <2>1 DEF TInv, RecordsExist
  <2>4. \A x \in Sessions \ {s} : Registered(x)' => Registered(x)
    BY <2>1 DEF Registered, TInv, TypeOK
  <2>5. \A q \in Routes : workers'[q] # None => rec'[workers'[q]].route = q
    BY <2>1 DEF ExpiryUnderWay, TInv, TypeOK, RecordsExist
  <2>6. \A t \in Threads : pc'[t] \notin Expiring \union {"dead"} => cur'[t] = None
    BY <2>1, <2>2 DEF ExpiryUnderWay, Expiring, ExpiryPlaces, MainPlaces
  <2>7. ASSUME NEW t \in Threads, pc'[t] \in {"check_id", "del_id"}
        PROVE  ~Registered(cur[t])'
    <3>1. pc[t] \in {"check_id", "del_id"} /\ cur'[t] = cur[t] /\ cur[t] \in Sessions
      BY <2>1, <2>2, <2>7 DEF TInv, TypeOK, LocalsSet, Expiring, ExpiryPlaces
    <3>2. ~Registered(cur[t])
      BY <3>1 DEF ExpiryUnderWay
    <3>3. QED
      BY <2>1, <2>3, <3>1, <3>2 DEF Registered, TInv, TypeOK
  <2>8. \A x \in Sessions : Expired(x)' => Expired(x) /\ x # s
    BY <2>1 DEF Expired, ExpiryUnderWay
  <2>9. QED
    BY <2>1, <2>4, <2>5, <2>6, <2>7, <2>8
       DEF ExpiryUnderWay, ExpiredLeavesRegistry, Known
<1>4. CASE (\E r \in Routes : HeartbeatArrives(r)) \/
           \E d \in JobsSent, s \in Sessions, r \in Routes : ResultArrives(d, s, r)
  <2>1. UNCHANGED <<workers, expired_workers, rec, cur>>
    BY <1>4 DEF HeartbeatArrives, HandleHeartbeat, ResultArrives, HandleResult
  <2>2. \A t \in Threads :
          \/ pc'[t] = pc[t]
          \/ /\ t = "main" /\ pc[t] \in MainPlaces
             /\ pc'[t] \notin {"check_id", "del_id"}
    BY <1>4 DEF HeartbeatArrives, HandleHeartbeat, ResultArrives, HandleResult,
                Receiving, AfterMessage, MainPlaces, TInv, TypeOK, Threads
  <2>3. \A t \in Threads : Moves(t)
    BY <2>1, <2>2 DEF Moves, ExpiryUnderWay, Expiring, ExpiryPlaces, MainPlaces
  <2>4. QED
    BY <2>1, <2>3, ExpiryUnderWayKept DEF Known
<1>5. CASE Passage \/ UNCHANGED vars
  <2>1. UNCHANGED <<workers, expired_workers, rec, cur>>
    BY <1>5 DEF Passage, Lapse, DeadlinePasses, Interrupt, control, vars
  <2>2. \A t \in Threads : pc'[t] = pc[t] \/ pc'[t] = "dead"
    BY <1>5
       DEF Passage, Lapse, DeadlinePasses, Interrupt, control, vars, TInv,
           TypeOK
  <2>3. \A t \in Threads : Moves(t)
    BY <2>1, <2>2 DEF Moves
  <2>4. QED
    BY <2>1, <2>3, ExpiryUnderWayKept DEF Known
<1>6. QED
  BY <1>1, <1>2, <1>3, <1>4, <1>5 DEF Next, Arrival

\* A record in _expired_workers is out of the registry for good, but for the
\* thread that is on its way to the del.
THEOREM ExpiredLeavesRegistryHolds == Spec => []ExpiredLeavesRegistry
<1>1. TInv /\ ExpiryUnderWay /\ [Next]_vars => ExpiryUnderWay'
  BY ExpiryUnderWayStep
<1>2. ExpiryUnderWay => ExpiredLeavesRegistry
  BY DEF ExpiryUnderWay
<1>3. QED
  BY <1>1, <1>2, InitExpiryUnderWay, TypeCorrect, PTL DEF Spec

-----------------------------------------------------------------------------
(* When a thread dies.                                                     *)

\* A routing id is one worker's: libzmq draws it, or it is the worker's own id.
RoutesOfOneWorker ==
  \A s, e \in Sessions :
    RoutesOf[s] \intersect RoutesOf[e] # {} => WorkerOf[s] = WorkerOf[e]

Entries == 1..Len(expired_workers)

Once(w) == \E i \in Entries : WorkerOf[expired_workers[i]] = w

Twice(w) == \E i, k \in Entries : /\ i # k
                                  /\ WorkerOf[expired_workers[i]] = w
                                  /\ WorkerOf[expired_workers[k]] = w

PastMark == {"remove", "del_route", "check_id", "del_id"}

\* Thread t is expiring a record of worker w, and has marked it.
ExpiresOne(t, w) == pc[t] \in PastMark /\ WorkerOf[cur[t]] = w

\* A key that a thread is about to delete is missing only if another expiry of
\* the same worker took it, and that expiry has its own entry.
ExpiriesCounted ==
  /\ \A s \in Sessions : Known(s) => rec[s].route \in RoutesOf[s]
  /\ \A w \in WorkerIds :
       /\ \A t \in Threads : ExpiresOne(t, w) => Once(w)
       /\ \A t, u \in Threads :
            t # u /\ ExpiresOne(t, w) /\ ExpiresOne(u, w) => Twice(w)
       /\ \A s \in Sessions :
            /\ Known(s) /\ WorkerOf[s] = w
            /\ workers[rec[s].route] = None
            => Once(w)
       /\ \A t \in Threads :
            /\ pc[t] \in {"remove", "del_route"} /\ WorkerOf[cur[t]] = w
            /\ workers[rec[cur[t]].route] = None
            => Twice(w)
       /\ \A t \in Threads :
            /\ pc[t] = "del_id" /\ WorkerOf[cur[t]] = w
            /\ workers_by_id[w] = None
            => Twice(w)
  /\ \A t \in Threads :
       pc[t] = "dead" /\ Mode = "run_once" => \E w \in WorkerIds : Twice(w)

\* Nothing but its own expiry takes the record of s out of a dictionary.
Unchallenged(s) == Latest(s) /\ ~Crossed(s)

\* A worker's sessions get their records in order, and the main thread is in
\* _handle_ready with the last one.
InOrder ==
  /\ \A s, e \in Sessions :
       WorkerOf[e] = WorkerOf[s] /\ Generation[e] < Generation[s] /\ Known(s) => Known(e)
  /\ pc["main"] = "register" =>
       \A s \in Sessions : WorkerOf[s] = WorkerOf[msg.session] /\ Known(s)
                           => Generation[s] <= Generation[msg.session]

\* The latest record of a worker stays registered until a thread has put it, or
\* an earlier one of the worker, in _expired_workers.
AckedStays ==
  /\ \A s \in Sessions : Known(s) => rec[s].route \in RoutesOf[s]
  /\ \A t \in Threads : pc[t] \in PastMark => Expired(cur[t])
  /\ \A s \in Sessions :
       Known(s) /\ ~Expired(s) /\ Unchallenged(s) => workers[rec[s].route] = s
  /\ \A m \in sent : m.type = "READY_ACK" => Known(m.session)
  /\ pc["main"] = "ack_ready" => Known(msg.session)

\* The two dictionaries differ on the latest record of a worker only where a
\* thread is between two updates, or after an expiry of the worker.
InStep ==
  \A s \in Sessions : Unchallenged(s) =>
    /\ Registered(s) =>
         \/ workers_by_id[WorkerOf[s]] = s
         \/ pc["main"] = "register" /\ msg.session = s
         \/ pc["main"] = "dead"
    /\ workers_by_id[WorkerOf[s]] = s => Registered(s) \/ Expired(s)

-----------------------------------------------------------------------------
(* What a step does to the threads.                                        *)

\* The steps that leave _expired_workers alone keep its entries.
LEMMA EntriesKept ==
  ASSUME expired_workers' = expired_workers
  PROVE  /\ \A w : Once(w)' <=> Once(w)
         /\ \A w : Twice(w)' <=> Twice(w)
         /\ \A s \in Sessions : Expired(s)' <=> Expired(s)
BY DEF Once, Twice, Entries, Expired

\* An append keeps the entries there are and adds one.
LEMMA EntryAdded ==
  ASSUME expired_workers \in Seq(Sessions), NEW e \in Sessions,
         expired_workers' = Append(expired_workers, e)
  PROVE  /\ \A w : Once(w) => Once(w)'
         /\ \A w : Twice(w) => Twice(w)'
         /\ Once(WorkerOf[e])'
         /\ Once(WorkerOf[e]) => Twice(WorkerOf[e])'
         /\ Expired(e)'
         /\ \A s \in Sessions : Expired(s) => Expired(s)'
<1> DEFINE n == Len(expired_workers)
<1>1. /\ n \in Nat /\ Len(expired_workers') = n + 1
      /\ expired_workers'[n + 1] = e
      /\ \A i \in 1..n : expired_workers'[i] = expired_workers[i]
  OBVIOUS
<1> HIDE DEF n
<1>2. 1..n \subseteq 1..(n + 1) /\ n + 1 \in 1..(n + 1) /\ n + 1 \notin 1..n
  BY <1>1
<1>3. Entries = 1..n /\ Entries' = 1..(n + 1)
  BY <1>1 DEF Entries, n
<1>4. \A w : Once(w) => Once(w)'
  BY <1>1, <1>2, <1>3 DEF Once
<1>5. \A w : Twice(w) => Twice(w)'
  BY <1>1, <1>2, <1>3 DEF Twice
<1>6. Once(WorkerOf[e])'
  BY <1>1, <1>2, <1>3 DEF Once
<1>7. Once(WorkerOf[e]) => Twice(WorkerOf[e])'
  BY <1>1, <1>2, <1>3 DEF Once, Twice
<1>8. Expired(e)' /\ \A s \in Sessions : Expired(s) => Expired(s)'
  BY <1>1, <1>2 DEF Expired, n
<1>9. QED
  BY <1>4, <1>5, <1>6, <1>7, <1>8

\* Where a step that neither marks nor deletes may take a thread.
Walks(t) ==
  \/ UNCHANGED <<pc[t], cur[t]>>
  \/ pc'[t] \notin PastMark \union {"dead"}
  \/ pc'[t] = "dead" /\ Mode = "run_forever"
  \/ pc[t] = "remove" /\ pc'[t] = "del_route" /\ cur'[t] = cur[t]
  \/ /\ pc[t] = "check_id" /\ pc'[t] = "del_id" /\ cur'[t] = cur[t]
     /\ workers_by_id'[WorkerOf[cur[t]]] # None

\* The steps that neither mark, delete nor create a record.
Passive ==
  /\ workers' = workers /\ expired_workers' = expired_workers
  /\ \A s \in Sessions : rec'[s].route = rec[s].route /\ (Known(s) <=> Known(s)')
  /\ \A w \in WorkerIds :
       workers_by_id'[w] = workers_by_id[w] \/ workers_by_id'[w] # None
  /\ \A t \in Threads : Walks(t)

\* The steps of expiry, dispatch and arrival told apart by what they do to the
\* dictionaries.
RegistryStep ==
  \/ \E t \in Threads : Mark(t) \/ DeleteRoute(t) \/ DeleteId(t)
  \/ \E s \in Sessions, r \in Routes : ReadyArrives(s, r)

LEMMA ExpirePassive ==
  ASSUME TInv, NEW t \in Threads, Expire(t), ~RegistryStep
  PROVE  Passive
<1> USE NoneAssumption DEF TInv, registry, At, Goto
<1>a. TypeOK /\ RecordsExist /\ LocalsSet
  OBVIOUS
<1>1. CASE Remove(t)
  <2>1. cur[t] \in Sessions /\ Known(cur[t])
    BY <1>1 DEF Remove, TypeOK, RecordsExist, LocalsSet, Expiring, ExpiryPlaces
  <2>2. \A x \in Sessions : rec'[x].route = rec[x].route /\ (Known(x) <=> Known(x)')
    BY <1>1, <2>1, TransitionEffect DEF Remove, TypeOK, WorkerStates
  <2>3. \A x \in Threads : Walks(x)
    BY <1>1 DEF Remove, Walks, TypeOK
  <2>4. QED
    BY <1>1, <2>2, <2>3 DEF Remove, Passive
<1>2. CASE CheckId(t)
  <2>1. cur[t] \in Sessions
    BY <1>2 DEF CheckId, TypeOK, LocalsSet, Expiring, ExpiryPlaces
  <2>2. UNCHANGED <<workers, workers_by_id, rec, expired_workers>>
    BY <1>2 DEF CheckId
  <2>3. \A x \in Threads : Walks(x)
    BY <1>2, <2>1, <2>2 DEF CheckId, Walks, PastMark, TypeOK
  <2>4. QED
    BY <2>2, <2>3 DEF Passive, Known
<1>3. CASE EndExpiry(t) \/ \E s \in Sessions : Scan(t, s)
  <2>1. UNCHANGED <<workers, workers_by_id, rec, expired_workers>>
    BY <1>3 DEF EndExpiry, Scan
  <2>2. \A x \in Threads : Walks(x)
    BY <1>3 DEF EndExpiry, Scan, Snapshot, Walks, PastMark, TypeOK
  <2>3. QED
    BY <2>1, <2>2 DEF Passive, Known
<1>4. QED
  BY <1>1, <1>2, <1>3 DEF Expire, RegistryStep

LEMMA MainPassive ==
  ASSUME TInv, MainThread, ~RegistryStep
  PROVE  Passive
<1> USE NoneAssumption DEF TInv, registry, At, Goto, MainGoto
<1>1. CASE Expire("main")
  BY <1>1, ExpirePassive DEF Threads
<1>2. CASE Shutdown
  BY <1>2 DEF Shutdown, control, Passive, Known, Walks
<1>3. CASE ~Expire("main") /\ ~Shutdown
  <2>1. workers' = workers /\ expired_workers' = expired_workers
    BY <1>3
       DEF MainThread, StartExpiry, PollTimeout, EnterGrace, Finalize,
           RegisterId, AckReady, Refresh, DecideResult, SettleWorker,
           AckResult, PickWorker, NothingToDispatch, Assign, SendJob
  <2>2. \A w \in WorkerIds :
          workers_by_id'[w] = workers_by_id[w] \/ workers_by_id'[w] # None
    <3>1. CASE RegisterId
      <4>1. msg.session \in Sessions
        BY <3>1 DEF RegisterId, TypeOK, LocalsSet, Message
      <4>2. QED
        BY <3>1, <4>1 DEF RegisterId, TypeOK
    <3>2. CASE ~RegisterId
      BY <1>3, <3>2
         DEF MainThread, StartExpiry, PollTimeout, EnterGrace, Finalize,
             AckReady, Refresh, DecideResult, SettleWorker,
             AckResult, PickWorker, NothingToDispatch, Assign, SendJob
    <3>3. QED
      BY <3>1, <3>2
  <2>3. cur' = cur /\ pc' = [pc EXCEPT !["main"] = pc'["main"]]
    BY <1>3
       DEF MainThread, StartExpiry, Snapshot, PollTimeout, EnterGrace,
           Finalize, RegisterId, AckReady, Refresh, DecideResult, Accept,
           Reject, SettleWorker, AckResult, PickWorker, NothingToDispatch,
           Assign, SendJob, TypeOK, Threads
  <2>4. pc'["main"] \notin PastMark \union {"dead"}
    BY <1>3 DEF MainThread, StartExpiry, PollTimeout, EnterGrace, Finalize,
                RegisterId, AckReady, Refresh, DecideResult, Accept, Reject,
                SettleWorker, AckResult, PickWorker, NothingToDispatch, Assign,
                SendJob, AfterMessage, PastMark, TypeOK, Threads
  <2>5. \A t \in Threads : Walks(t)
    BY <2>3, <2>4 DEF Walks, TypeOK, Threads
  <2>6. QED
    BY <2>1, <2>2, <2>5, MainRecords DEF Passive
<1>4. QED
  BY <1>1, <1>2, <1>3

LEMMA RegistrySteps ==
  ASSUME TInv, [Next]_vars
  PROVE  Passive \/ RegistryStep
<1> USE DEF At, Goto, MainGoto, registry
<1>1. CASE MainThread
  BY <1>1, MainPassive
<1>2. CASE Expire("heartbeat")
  BY <1>2, ExpirePassive DEF Threads
<1>3. CASE Wake \/ (\E s \in Sessions : SendBeat(s)) \/ Rest
  <2>1. UNCHANGED <<workers, workers_by_id, expired_workers, rec, cur>>
    BY <1>3 DEF Wake, Snapshot, SendBeat, Rest
  <2>2. \A t \in Threads : pc'[t] = pc[t] \/ pc'[t] \in {"done", "scan", "wake"}
    BY <1>3 DEF Wake, SendBeat, Rest, TInv, TypeOK, Threads
  <2>3. QED
    BY <2>1, <2>2 DEF Passive, Walks, Known, PastMark
<1>4. CASE (\E r \in Routes : HeartbeatArrives(r)) \/
           \E d \in JobsSent, s \in Sessions, r \in Routes : ResultArrives(d, s, r)
  <2>1. UNCHANGED <<workers, workers_by_id, expired_workers, rec, cur>>
    BY <1>4 DEF HeartbeatArrives, HandleHeartbeat, ResultArrives, HandleResult
  <2>2. \A t \in Threads : pc'[t] = pc[t] \/ pc'[t] \notin PastMark \union {"dead"}
    BY <1>4 DEF HeartbeatArrives, HandleHeartbeat, ResultArrives, HandleResult,
                AfterMessage, PastMark, TInv, TypeOK, Threads
  <2>3. QED
    BY <2>1, <2>2 DEF Passive, Walks, Known
<1>5. CASE Passage \/ UNCHANGED vars
  <2>1. UNCHANGED <<workers, workers_by_id, expired_workers, rec, cur>>
    BY <1>5 DEF Passage, Lapse, DeadlinePasses, Interrupt, control, vars
  <2>2. CASE Interrupt
    <3>1. /\ Mode = "run_forever"
          /\ \A t \in Threads : pc'[t] = pc[t] \/ pc'[t] = "dead"
      BY <2>2 DEF Interrupt, TInv, TypeOK
    <3>2. QED
      BY <2>1, <3>1 DEF Passive, Walks, Known
  <2>3. CASE ~Interrupt
    <3>1. pc' = pc
      BY <1>5, <2>3 DEF Passage, Lapse, DeadlinePasses, control, vars
    <3>2. QED
      BY <2>1, <3>1 DEF Passive, Walks, Known
  <2>4. QED
    BY <2>2, <2>3
<1>6. QED
  BY <1>1, <1>2, <1>3, <1>4, <1>5 DEF Next, HeartbeatLoop, Arrival, RegistryStep

-----------------------------------------------------------------------------
(* DeathIsDoubleExpiry.                                                    *)

LEMMA PassiveExpiriesCounted ==
  ASSUME TInv, ExpiriesCounted, Passive
  PROVE  ExpiriesCounted'
<1> USE DEF TInv, Passive
<1>1. /\ \A w : Once(w)' <=> Once(w)
      /\ \A w : Twice(w)' <=> Twice(w)
  BY EntriesKept
<1>2. \A s \in Sessions : Known(s)' => rec'[s].route \in RoutesOf[s]
  BY DEF ExpiriesCounted
<1>3. ASSUME NEW w \in WorkerIds, NEW t \in Threads, ExpiresOne(t, w)'
      PROVE  ExpiresOne(t, w)
  BY <1>3 DEF Walks, PastMark, ExpiresOne
<1>4. ASSUME NEW w \in WorkerIds, NEW s \in Sessions, Known(s)',
             WorkerOf[s] = w, workers'[rec'[s].route] = None
      PROVE  Once(w)'
  BY <1>1, <1>4 DEF ExpiriesCounted
<1>5. ASSUME NEW w \in WorkerIds, NEW t \in Threads,
             pc'[t] \in {"remove", "del_route"}, WorkerOf[cur'[t]] = w,
             workers'[rec'[cur'[t]].route] = None
      PROVE  Twice(w)'
  <2>1. cur'[t] = cur[t] /\ pc[t] \in {"remove", "del_route"}
    BY <1>5 DEF Walks, PastMark
  <2>2. cur[t] \in Sessions
    BY <2>1 DEF LocalsSet, TypeOK, Expiring, ExpiryPlaces
  <2>3. QED
    BY <1>1, <1>5, <2>1, <2>2 DEF ExpiriesCounted
<1>6. ASSUME NEW w \in WorkerIds, NEW t \in Threads, pc'[t] = "del_id",
             WorkerOf[cur'[t]] = w, workers_by_id'[w] = None
      PROVE  Twice(w)'
  <2>1. cur'[t] = cur[t] /\ pc[t] = "del_id"
    BY <1>6 DEF Walks, PastMark
  <2>2. QED
    BY <1>1, <1>6, <2>1 DEF ExpiriesCounted
<1>7. ASSUME NEW t \in Threads, pc'[t] = "dead", Mode = "run_once"
      PROVE  \E w \in WorkerIds : Twice(w)'
  BY <1>1, <1>7 DEF ExpiriesCounted, Walks
<1>8. QED
  BY <1>1, <1>2, <1>3, <1>4, <1>5, <1>6, <1>7 DEF ExpiriesCounted

LEMMA MarkExpiriesCounted ==
  ASSUME TInv, ExpiriesCounted, NEW t \in Threads, Mark(t)
  PROVE  ExpiriesCounted'
<1> USE NoneAssumption DEF TInv, At, Goto
<1>1. cur[t] \in Sessions /\ Known(cur[t])
  BY DEF Mark, TypeOK, RecordsExist, LocalsSet, Expiring, ExpiryPlaces
<1>2. \A x \in Sessions : rec'[x].route = rec[x].route /\ (Known(x) <=> Known(x)')
  BY <1>1, TransitionEffect DEF Mark, TypeOK, WorkerStates
<1>3. expired_workers \in Seq(Sessions)
      /\ expired_workers' = Append(expired_workers, cur[t])
  BY DEF Mark, TypeOK
<1>4. /\ \A w : Once(w) => Once(w)'
      /\ \A w : Twice(w) => Twice(w)'
      /\ \A w : w = WorkerOf[cur[t]] => Once(w)' /\ (Once(w) => Twice(w)')
  <2>1. PICK e \in Sessions : e = cur[t]
    BY <1>1
  <2>2. QED
    BY <1>3, <2>1, EntryAdded
<1>5. /\ cur' = cur /\ workers' = workers /\ workers_by_id' = workers_by_id
      /\ pc'[t] = "remove"
      /\ \A x \in Threads : x # t => pc'[x] = pc[x]
  BY DEF Mark, TypeOK
<1>6. \A s \in Sessions : Known(s)' => rec'[s].route \in RoutesOf[s]
  BY <1>2 DEF ExpiriesCounted
<1>7. ASSUME NEW w \in WorkerIds, NEW x \in Threads, ExpiresOne(x, w)'
      PROVE  \/ x # t /\ ExpiresOne(x, w)
             \/ x = t /\ w = WorkerOf[cur[t]]
  BY <1>5, <1>7 DEF ExpiresOne
<1>8. ASSUME NEW w \in WorkerIds
      PROVE  /\ \A x \in Threads : ExpiresOne(x, w)' => Once(w)'
             /\ \A x, u \in Threads :
                  x # u /\ ExpiresOne(x, w)' /\ ExpiresOne(u, w)' => Twice(w)'
  BY <1>4, <1>7 DEF ExpiriesCounted
<1>9. ASSUME NEW w \in WorkerIds, NEW s \in Sessions, Known(s)',
             WorkerOf[s] = w, workers'[rec'[s].route] = None
      PROVE  Once(w)'
  BY <1>2, <1>4, <1>5, <1>9 DEF ExpiriesCounted
<1>10. ASSUME NEW w \in WorkerIds, NEW x \in Threads,
              pc'[x] \in {"remove", "del_route"}, WorkerOf[cur'[x]] = w,
              workers'[rec'[cur'[x]].route] = None
       PROVE  Twice(w)'
  <2>1. CASE x = t
    BY <1>1, <1>2, <1>4, <1>5, <1>10, <2>1 DEF ExpiriesCounted
  <2>2. CASE x # t
    <3>1. pc[x] \in {"remove", "del_route"} /\ cur[x] \in Sessions
      BY <1>5, <1>10, <2>2 DEF TypeOK, LocalsSet, Expiring, ExpiryPlaces
    <3>2. QED
      BY <1>2, <1>4, <1>5, <1>10, <3>1 DEF ExpiriesCounted
  <2>3. QED
    BY <2>1, <2>2
<1>11. ASSUME NEW w \in WorkerIds, NEW x \in Threads, pc'[x] = "del_id",
              WorkerOf[cur'[x]] = w, workers_by_id'[w] = None
       PROVE  Twice(w)'
  BY <1>4, <1>5, <1>11 DEF ExpiriesCounted
<1>12. ASSUME NEW x \in Threads, pc'[x] = "dead", Mode = "run_once"
       PROVE  \E w \in WorkerIds : Twice(w)'
  BY <1>4, <1>5, <1>12 DEF ExpiriesCounted
<1>13. QED
  BY <1>6, <1>8, <1>9, <1>10, <1>11, <1>12 DEF ExpiriesCounted

LEMMA DeleteRouteExpiriesCounted ==
  ASSUME RoutesOfOneWorker, TInv, ExpiriesCounted, NEW t \in Threads,
         DeleteRoute(t)
  PROVE  ExpiriesCounted'
<1> USE DEF TInv, At, Goto
<1> DEFINE r == rec[cur[t]].route
<1>1. /\ cur[t] \in Sessions /\ Known(cur[t]) /\ r \in RoutesOf[cur[t]]
      /\ WorkerOf[cur[t]] \in WorkerIds
      /\ ExpiresOne(t, WorkerOf[cur[t]]) /\ Once(WorkerOf[cur[t]])
  BY PeerAssumption
     DEF DeleteRoute, TypeOK, RecordsExist, LocalsSet, Expiring, ExpiryPlaces,
         ExpiriesCounted, PastMark, ExpiresOne
<1>2. /\ \A w : Once(w)' <=> Once(w)
      /\ \A w : Twice(w)' <=> Twice(w)
  BY EntriesKept DEF DeleteRoute
<1>3. /\ cur' = cur /\ rec' = rec /\ workers_by_id' = workers_by_id
      /\ \A q \in Routes : q # r => workers'[q] = workers[q]
      /\ pc'[t] = IF workers[r] = None THEN "dead" ELSE "check_id"
      /\ \A x \in Threads : x # t => pc'[x] = pc[x]
  BY DEF DeleteRoute, TypeOK
<1>4. \A s \in Sessions :
        Known(s) /\ rec[s].route = r => WorkerOf[s] = WorkerOf[cur[t]]
  BY <1>1 DEF RoutesOfOneWorker, ExpiriesCounted
<1>5. \A s \in Sessions : Known(s) => rec[s].route \in Routes
  BY PeerAssumption DEF ExpiriesCounted
<1>6. workers[r] = None => Twice(WorkerOf[cur[t]])
  BY <1>1 DEF DeleteRoute, ExpiriesCounted
<1> HIDE DEF r
<1>7. \A s \in Sessions : Known(s)' => rec'[s].route \in RoutesOf[s]
  BY <1>3 DEF ExpiriesCounted, Known
<1>8. ASSUME NEW w \in WorkerIds, NEW x \in Threads, ExpiresOne(x, w)'
      PROVE  ExpiresOne(x, w)
  BY <1>1, <1>3, <1>8 DEF ExpiresOne
<1>9. ASSUME NEW w \in WorkerIds, NEW s \in Sessions, Known(s)',
             WorkerOf[s] = w, workers'[rec'[s].route] = None
      PROVE  Once(w)'
  <2>1. Known(s) /\ rec[s].route \in Routes
    BY <1>3, <1>5, <1>9 DEF Known
  <2>2. CASE rec[s].route = r
    BY <1>1, <1>2, <1>4, <1>9, <2>1, <2>2
  <2>3. CASE rec[s].route # r
    BY <1>2, <1>3, <1>9, <2>1, <2>3 DEF ExpiriesCounted
  <2>4. QED
    BY <2>2, <2>3
<1>10. ASSUME NEW w \in WorkerIds, NEW x \in Threads,
              pc'[x] \in {"remove", "del_route"}, WorkerOf[cur'[x]] = w,
              workers'[rec'[cur'[x]].route] = None
       PROVE  Twice(w)'
  <2>1. x # t /\ pc[x] \in {"remove", "del_route"} /\ ExpiresOne(x, w)
    BY <1>3, <1>10 DEF PastMark, ExpiresOne
  <2>2. cur[x] \in Sessions /\ Known(cur[x]) /\ rec[cur[x]].route \in Routes
    BY <1>5, <2>1 DEF TypeOK, RecordsExist, LocalsSet, Expiring, ExpiryPlaces
  <2>3. CASE rec[cur[x]].route = r
    <3>1. w = WorkerOf[cur[t]]
      BY <1>3, <1>4, <1>10, <2>2, <2>3
    <3>2. QED
      BY <1>1, <1>2, <2>1, <3>1 DEF ExpiriesCounted
  <2>4. CASE rec[cur[x]].route # r
    BY <1>2, <1>3, <1>10, <2>1, <2>2, <2>4 DEF ExpiriesCounted
  <2>5. QED
    BY <2>3, <2>4
<1>11. ASSUME NEW w \in WorkerIds, NEW x \in Threads, pc'[x] = "del_id",
              WorkerOf[cur'[x]] = w, workers_by_id'[w] = None
       PROVE  Twice(w)'
  BY <1>2, <1>3, <1>11 DEF ExpiriesCounted
<1>12. ASSUME NEW x \in Threads, pc'[x] = "dead", Mode = "run_once"
       PROVE  \E w \in WorkerIds : Twice(w)'
  BY <1>1, <1>2, <1>3, <1>6, <1>12 DEF ExpiriesCounted
<1>13. QED
  BY <1>2, <1>7, <1>8, <1>9, <1>10, <1>11, <1>12 DEF ExpiriesCounted

LEMMA DeleteIdExpiriesCounted ==
  ASSUME TInv, ExpiriesCounted, NEW t \in Threads, DeleteId(t)
  PROVE  ExpiriesCounted'
<1> USE DEF TInv, At, Goto
<1> DEFINE d == WorkerOf[cur[t]]
<1>1. d \in WorkerIds /\ ExpiresOne(t, d)
  BY PeerAssumption
     DEF DeleteId, TypeOK, LocalsSet, Expiring, ExpiryPlaces, PastMark,
         ExpiresOne
<1>2. /\ \A v : Once(v)' <=> Once(v)
      /\ \A v : Twice(v)' <=> Twice(v)
  BY EntriesKept DEF DeleteId
<1>3. /\ workers' = workers /\ rec' = rec
      /\ \A v \in WorkerIds : v # d => workers_by_id'[v] = workers_by_id[v]
      /\ pc'[t] = IF workers_by_id[d] = None THEN "dead" ELSE "scan"
      /\ \A x \in Threads : x # t => pc'[x] = pc[x] /\ cur'[x] = cur[x]
  BY DEF DeleteId, TypeOK
<1>4. workers_by_id[d] = None => Twice(d)
  BY <1>1 DEF DeleteId, ExpiriesCounted
<1> HIDE DEF d
<1>5. ASSUME NEW w \in WorkerIds, NEW x \in Threads, ExpiresOne(x, w)'
      PROVE  x # t /\ ExpiresOne(x, w)
  BY <1>3, <1>5 DEF ExpiresOne, PastMark
<1>6. \A s \in Sessions : Known(s)' => rec'[s].route \in RoutesOf[s]
  BY <1>3 DEF ExpiriesCounted, Known
<1>7. ASSUME NEW w \in WorkerIds, NEW s \in Sessions, Known(s)',
             WorkerOf[s] = w, workers'[rec'[s].route] = None
      PROVE  Once(w)'
  BY <1>2, <1>3, <1>7 DEF ExpiriesCounted, Known
<1>8. ASSUME NEW w \in WorkerIds, NEW x \in Threads,
             pc'[x] \in {"remove", "del_route"}, WorkerOf[cur'[x]] = w,
             workers'[rec'[cur'[x]].route] = None
      PROVE  Twice(w)'
  BY <1>2, <1>3, <1>8 DEF ExpiriesCounted
<1>9. ASSUME NEW w \in WorkerIds, NEW x \in Threads, pc'[x] = "del_id",
             WorkerOf[cur'[x]] = w, workers_by_id'[w] = None
      PROVE  Twice(w)'
  <2>1. ExpiresOne(x, w)'
    BY <1>9 DEF ExpiresOne, PastMark
  <2>2. x # t /\ ExpiresOne(x, w) /\ pc[x] = "del_id" /\ WorkerOf[cur[x]] = w
    BY <1>3, <1>5, <1>9, <2>1
  <2>3. CASE w = d
    BY <1>1, <1>2, <2>2, <2>3 DEF ExpiriesCounted
  <2>4. CASE w # d
    BY <1>2, <1>3, <1>9, <2>2, <2>4 DEF ExpiriesCounted
  <2>5. QED
    BY <2>3, <2>4
<1>10. ASSUME NEW x \in Threads, pc'[x] = "dead", Mode = "run_once"
       PROVE  \E w \in WorkerIds : Twice(w)'
  BY <1>1, <1>2, <1>3, <1>4, <1>10 DEF ExpiriesCounted
<1>11. QED
  BY <1>2, <1>5, <1>6, <1>7, <1>8, <1>9, <1>10 DEF ExpiriesCounted

\* What a READY does to the registry.
LEMMA ReadyRegistry ==
  ASSUME TInv, NEW s \in Sessions, NEW r \in Routes, ReadyArrives(s, r)
  PROVE  /\ ~Known(s) /\ Known(s)' /\ rec'[s].route = r /\ r \in RoutesOf[s]
         /\ workers' = [workers EXCEPT ![r] = s]
         /\ \A x \in Sessions \ {s} : rec'[x] = rec[x]
         /\ UNCHANGED <<workers_by_id, expired_workers, cur, sent>>
         /\ msg'.session = s
         /\ pc["main"] \in {"loop", "grace"} /\ pc'["main"] = "register"
         /\ \A t \in Threads : t # "main" => pc'[t] = pc[t]
         /\ \A t \in Threads : cur[t] # s
<1> USE DEF ReadyArrives, HandleReady
<1>1. ~Known(s) /\ r \in RoutesOf[s]
  BY DEF Known
<1>2. /\ rec'[s].route = r /\ rec'[s].state \in {"READY", "RECONNECTED"}
      /\ \A x \in Sessions \ {s} : rec'[x] = rec[x]
  BY DEF Msg, TInv, TypeOK
<1>3. workers' = [workers EXCEPT ![r] = s] /\ msg'.session = s
  BY DEF Put, Msg
<1>4. UNCHANGED <<workers_by_id, expired_workers, cur, sent>>
  BY DEF MainGoto
<1>5. /\ pc["main"] \in {"loop", "grace"} /\ pc'["main"] = "register"
      /\ \A t \in Threads : t # "main" => pc'[t] = pc[t]
  BY DEF Receiving, At, Goto, MainGoto, TInv, TypeOK, Threads
<1>6. \A t \in Threads : cur[t] # s
  BY <1>1, NoneAssumption DEF TInv, TypeOK, RecordsExist
<1>7. QED
  BY <1>1, <1>2, <1>3, <1>4, <1>5, <1>6 DEF Known

LEMMA ReadyExpiriesCounted ==
  ASSUME TInv, ExpiriesCounted, NEW s \in Sessions, NEW r \in Routes,
         ReadyArrives(s, r)
  PROVE  ExpiriesCounted'
<1> USE NoneAssumption DEF TInv
<1>1. /\ \A w : Once(w)' <=> Once(w)
      /\ \A w : Twice(w)' <=> Twice(w)
  BY ReadyRegistry, EntriesKept
<1>2. \A q \in Routes : workers'[q] = None => q # r /\ workers[q] = None
  BY ReadyRegistry DEF TypeOK
<1>3. \A t \in Threads : pc'[t] \in PastMark \union {"dead"} =>
        pc'[t] = pc[t] /\ cur'[t] = cur[t] /\ cur[t] # s
  BY ReadyRegistry DEF PastMark
<1>4. \A x \in Sessions \ {s} : rec'[x] = rec[x] /\ (Known(x)' <=> Known(x))
  BY ReadyRegistry DEF Known
<1>5. \A x \in Sessions : Known(x)' => rec'[x].route \in RoutesOf[x]
  BY <1>4, ReadyRegistry DEF ExpiriesCounted
<1>6. ASSUME NEW w \in WorkerIds, NEW t \in Threads, ExpiresOne(t, w)'
      PROVE  ExpiresOne(t, w)
  BY <1>3, <1>6 DEF ExpiresOne
<1>7. ASSUME NEW w \in WorkerIds, NEW x \in Sessions, Known(x)',
             WorkerOf[x] = w, workers'[rec'[x].route] = None
      PROVE  Once(w)'
  <2>1. rec'[x].route \in Routes
    BY <1>5, <1>7, PeerAssumption
  <2>2. x # s
    BY <1>2, <1>7, <2>1, ReadyRegistry
  <2>3. QED
    BY <1>1, <1>2, <1>4, <1>7, <2>1, <2>2 DEF ExpiriesCounted
<1>8. ASSUME NEW w \in WorkerIds, NEW t \in Threads,
             pc'[t] \in {"remove", "del_route"}, WorkerOf[cur'[t]] = w,
             workers'[rec'[cur'[t]].route] = None
      PROVE  Twice(w)'
  <2>1. pc[t] \in {"remove", "del_route"} /\ cur'[t] = cur[t] /\ cur[t] # s
    BY <1>3, <1>8 DEF PastMark
  <2>2. cur[t] \in Sessions /\ Known(cur[t])
    BY <2>1 DEF TypeOK, RecordsExist, LocalsSet, Expiring, ExpiryPlaces
  <2>3. rec[cur[t]].route \in Routes
    BY <2>2, PeerAssumption DEF ExpiriesCounted
  <2>4. QED
    BY <1>1, <1>2, <1>4, <1>8, <2>1, <2>2, <2>3 DEF ExpiriesCounted
<1>9. ASSUME NEW w \in WorkerIds, NEW t \in Threads, pc'[t] = "del_id",
             WorkerOf[cur'[t]] = w, workers_by_id'[w] = None
      PROVE  Twice(w)'
  <2>1. pc[t] = "del_id" /\ cur'[t] = cur[t]
    BY <1>3, <1>9 DEF PastMark
  <2>2. QED
    BY <1>1, <1>9, <2>1, ReadyRegistry DEF ExpiriesCounted
<1>10. ASSUME NEW t \in Threads, pc'[t] = "dead", Mode = "run_once"
       PROVE  \E w \in WorkerIds : Twice(w)'
  BY <1>1, <1>3, <1>10 DEF ExpiriesCounted
<1>11. QED
  BY <1>1, <1>5, <1>6, <1>7, <1>8, <1>9, <1>10 DEF ExpiriesCounted

LEMMA InitExpiriesCounted == Init => ExpiriesCounted
BY DEF Init, ExpiriesCounted, ExpiresOne, Known, Threads, PastMark

LEMMA ExpiriesCountedStep ==
  ASSUME RoutesOfOneWorker, TInv, ExpiriesCounted, [Next]_vars
  PROVE  ExpiriesCounted'
BY RegistrySteps, PassiveExpiriesCounted, MarkExpiriesCounted,
   DeleteRouteExpiriesCounted, DeleteIdExpiriesCounted, ReadyExpiriesCounted
   DEF RegistryStep

\* A KeyError kills a thread of run_once only when two expiries of one worker
\* cross, for every number of workers, sessions and routes.
THEOREM DeathIsDoubleExpiryHolds ==
  ASSUME RoutesOfOneWorker PROVE Spec => []DeathIsDoubleExpiry
<1>1. TInv /\ ExpiriesCounted /\ [Next]_vars => ExpiriesCounted'
  BY ExpiriesCountedStep
<1>2. ExpiriesCounted => DeathIsDoubleExpiry
  BY DEF ExpiriesCounted, DeathIsDoubleExpiry, Twice, Entries
<1>3. QED
  BY <1>1, <1>2, InitExpiriesCounted, TypeCorrect, PTL DEF Spec

-----------------------------------------------------------------------------
(* AckedIsRegistered.                                                      *)

\* A record is never lost, nor moved to another route.
LEMMA RecordsPersist ==
  ASSUME TInv, [Next]_vars
  PROVE  \A s \in Sessions :
           Known(s) => Known(s)' /\ rec'[s].route = rec[s].route
<1>1. CASE Passive
  BY <1>1 DEF Passive
<1>2. ASSUME NEW t \in Threads, Mark(t)
      PROVE  \A s \in Sessions :
               rec'[s].route = rec[s].route /\ (Known(s) <=> Known(s)')
  <2>1. cur[t] \in Sessions /\ Known(cur[t])
    BY <1>2, NoneAssumption
       DEF Mark, At, TInv, TypeOK, RecordsExist, LocalsSet, Expiring,
           ExpiryPlaces
  <2>2. QED
    BY <1>2, <2>1, TransitionEffect DEF Mark, TInv, TypeOK, WorkerStates
<1>3. ASSUME NEW t \in Threads, DeleteRoute(t) \/ DeleteId(t)
      PROVE  rec' = rec
  BY <1>3 DEF DeleteRoute, DeleteId
<1>4. ASSUME NEW e \in Sessions, NEW r \in Routes, ReadyArrives(e, r)
      PROVE  ~Known(e) /\ \A s \in Sessions \ {e} : rec'[s] = rec[s]
  BY <1>4, ReadyRegistry DEF TInv
<1>5. QED
  BY <1>1, <1>2, <1>3, <1>4, RegistrySteps DEF RegistryStep, Known

\* READY_ACK is sent by one step, which the registration of its session leads to.
LEMMA ReadyAcks ==
  ASSUME TInv, [Next]_vars
  PROVE  /\ \A m \in sent' : m.type = "READY_ACK" =>
              m \in sent \/ (pc["main"] = "ack_ready" /\ m.session = msg.session)
         /\ pc'["main"] = "ack_ready" =>
              pc["main"] \in {"register", "ack_ready"} /\ msg' = msg
<1> USE DEF At, Goto, MainGoto, TInv, TypeOK, Threads
<1>1. CASE MainThread
  <2>1. \A m \in sent' : m.type = "READY_ACK" =>
          m \in sent \/ (pc["main"] = "ack_ready" /\ m.session = msg.session)
    BY <1>1
       DEF MainThread, StartExpiry, Expire, Scan, Mark, Remove, DeleteRoute,
           CheckId, DeleteId, EndExpiry, PollTimeout, EnterGrace, Finalize,
           Shutdown, RegisterId, AckReady, Refresh, DecideResult,
           SettleWorker, AckResult, PickWorker, NothingToDispatch, Assign,
           SendJob, Send, Msg
  <2>2. CASE RegisterId \/ Shutdown
    BY <2>1, <2>2 DEF RegisterId, Shutdown, locals, control
  <2>3. CASE Expire("main")
    BY <2>1, <2>3
       DEF Expire, Scan, Mark, Remove, DeleteRoute, CheckId, DeleteId,
           EndExpiry
  <2>4. CASE ~(RegisterId \/ Shutdown \/ Expire("main"))
    <3>1. pc'["main"] # "ack_ready"
      BY <1>1, <2>4
         DEF MainThread, StartExpiry, PollTimeout, EnterGrace, Finalize,
             AckReady, Refresh, DecideResult, Accept, Reject, SettleWorker,
             AckResult, PickWorker, NothingToDispatch, Assign, SendJob,
             AfterMessage
    <3>2. QED
      BY <2>1, <3>1
  <2>5. QED
    BY <2>2, <2>3, <2>4
<1>2. CASE HeartbeatLoop
  BY <1>2
     DEF HeartbeatLoop, Wake, SendBeat, Rest, Send, Msg, Expire, Scan, Mark,
         Remove, DeleteRoute, CheckId, DeleteId, EndExpiry, locals
<1>3. CASE Arrival
  BY <1>3
     DEF Arrival, ReadyArrives, HandleReady, HeartbeatArrives,
         HandleHeartbeat, ResultArrives, HandleResult, AfterMessage
<1>4. CASE Passage \/ UNCHANGED vars
  BY <1>4 DEF Passage, Lapse, DeadlinePasses, Interrupt, locals, control, vars
<1>5. QED
  BY <1>1, <1>2, <1>3, <1>4 DEF Next

LEMMA ExpiredStays ==
  ASSUME TInv, [Next]_vars
  PROVE  \A s \in Sessions : Expired(s) => Expired(s)'
<1>1. CASE expired_workers' = expired_workers
  BY <1>1, EntriesKept
<1>2. ASSUME NEW t \in Threads, Mark(t)
      PROVE  \A s \in Sessions : Expired(s) => Expired(s)'
  <2>1. PICK e \in Sessions : e = cur[t]
    BY <1>2 DEF Mark, At, TInv, TypeOK, LocalsSet, Expiring, ExpiryPlaces
  <2>2. QED
    BY <1>2, <2>1, EntryAdded DEF Mark, TInv, TypeOK
<1>3. QED
  BY <1>1, <1>2, RegistrySteps, ReadyRegistry
     DEF RegistryStep, Passive, DeleteRoute, DeleteId

\* The main thread gets to the second update of _handle_ready through the first.
LEMMA RegisterReached ==
  ASSUME TInv, [Next]_vars, pc'["main"] = "register"
  PROVE  \/ pc["main"] = "register" /\ msg' = msg
         \/ \E s \in Sessions, r \in Routes : ReadyArrives(s, r)
<1> USE DEF At, Goto, MainGoto, TInv, TypeOK, Threads
<1>1. CASE MainThread
  <2>1. CASE Shutdown \/ Expire("main")
    BY <2>1
       DEF Shutdown, locals, control, Expire, Scan, Mark, Remove, DeleteRoute,
           CheckId, DeleteId, EndExpiry
  <2>2. CASE ~(Shutdown \/ Expire("main"))
    BY <1>1, <2>2
       DEF MainThread, StartExpiry, PollTimeout, EnterGrace, Finalize,
           RegisterId, AckReady, Refresh, DecideResult, Accept, Reject,
           SettleWorker, AckResult, PickWorker, NothingToDispatch, Assign,
           SendJob, AfterMessage
  <2>3. QED
    BY <2>1, <2>2
<1>2. CASE HeartbeatLoop
  BY <1>2
     DEF HeartbeatLoop, Wake, SendBeat, Rest, Expire, Scan, Mark, Remove,
         DeleteRoute, CheckId, DeleteId, EndExpiry, locals
<1>3. CASE Arrival
  BY <1>3
     DEF Arrival, HeartbeatArrives, HandleHeartbeat, ResultArrives,
         HandleResult, AfterMessage
<1>4. CASE Passage \/ UNCHANGED vars
  BY <1>4 DEF Passage, Lapse, DeadlinePasses, Interrupt, locals, control, vars
<1>5. QED
  BY <1>1, <1>2, <1>3, <1>4 DEF Next

\* A record that is not the latest, or has seen an earlier one expire, stays so.
LEMMA ChallengeStays ==
  ASSUME TInv, [Next]_vars
  PROVE  \A s \in Sessions : Unchallenged(s)' => Unchallenged(s)
BY RecordsPersist, ExpiredStays DEF Unchallenged, Latest, Crossed, Known

\* Under its routing id, an unchallenged record meets no other expired one.
LEMMA NoCrossing ==
  ASSUME TInv, NEW s \in Sessions, NEW e \in Sessions, Unchallenged(s), e # s,
         WorkerOf[e] = WorkerOf[s], Known(e)
  PROVE  ~Expired(e)
<1>1. Generation[e] \in Nat /\ Generation[s] \in Nat
  BY PeerAssumption
<1>2. Generation[e] < Generation[s]
  BY <1>1 DEF Unchallenged, Latest, Known
<1>3. QED
  BY <1>2 DEF Unchallenged, Crossed

LEMMA InitInOrder == Init => InOrder
BY DEF Init, InOrder, Known, Threads

LEMMA InOrderStep ==
  ASSUME TInv, InOrder, [Next]_vars
  PROVE  InOrder'
<1> USE DEF TInv
<1>1. CASE \E s \in Sessions, r \in Routes : ReadyArrives(s, r)
  <2>1. PICK e \in Sessions, r \in Routes : ReadyArrives(e, r)
    BY <1>1
  <2>2. /\ ~Known(e) /\ Known(e)' /\ msg'.session = e
        /\ \A x \in Sessions \ {e} : Known(x)' <=> Known(x)
    BY <2>1, ReadyRegistry DEF Known
  <2>3. \A x \in Sessions :
          WorkerOf[x] = WorkerOf[e] /\ Generation[x] < Generation[e] => Known(x)
    BY <2>1 DEF ReadyArrives, Known
  <2>4. \A x \in Sessions :
          WorkerOf[x] = WorkerOf[e] /\ Known(x)' => Generation[x] <= Generation[e]
    BY <2>2, PeerAssumption DEF InOrder
  <2>5. QED
    BY <2>2, <2>3, <2>4 DEF InOrder
<1>2. CASE ~\E s \in Sessions, r \in Routes : ReadyArrives(s, r)
  <2>1. \A s \in Sessions : Known(s)' <=> Known(s)
    <3>1. CASE Passive
      BY <3>1 DEF Passive
    <3>2. ASSUME NEW t \in Threads, Mark(t)
          PROVE  \A s \in Sessions : Known(s)' <=> Known(s)
      <4>1. cur[t] \in Sessions /\ Known(cur[t])
        BY <3>2, NoneAssumption
           DEF Mark, At, TypeOK, RecordsExist, LocalsSet, Expiring, ExpiryPlaces
      <4>2. QED
        BY <3>2, <4>1, TransitionEffect DEF Mark, TypeOK, WorkerStates
    <3>3. ASSUME NEW t \in Threads, DeleteRoute(t) \/ DeleteId(t)
          PROVE  \A s \in Sessions : Known(s)' <=> Known(s)
      BY <3>3 DEF DeleteRoute, DeleteId, Known
    <3>4. QED
      BY <1>2, <3>1, <3>2, <3>3, RegistrySteps DEF RegistryStep
  <2>2. pc'["main"] = "register" => pc["main"] = "register" /\ msg' = msg
    BY <1>2, RegisterReached
  <2>3. QED
    BY <2>1, <2>2 DEF InOrder
<1>3. QED
  BY <1>1, <1>2

LEMMA InitAckedStays == Init => AckedStays
BY DEF Init, AckedStays, Known, Threads, PastMark

LEMMA AckedStaysStep ==
  ASSUME RoutesOfOneWorker, TInv, InOrder, AckedStays, [Next]_vars
  PROVE  AckedStays'
<1> USE NoneAssumption DEF TInv
<1>1. ASSUME NEW m \in sent', m.type = "READY_ACK" PROVE Known(m.session)'
  <2>1. m \in sent \/ (pc["main"] = "ack_ready" /\ m.session = msg.session)
    BY <1>1, ReadyAcks
  <2>2. Known(m.session)
    BY <1>1, <2>1 DEF AckedStays
  <2>3. m.session \in Sessions
    BY <2>1 DEF TypeOK, LocalsSet, Message
  <2>4. QED
    BY <2>2, <2>3, RecordsPersist DEF Known
<1>2. ASSUME pc'["main"] = "ack_ready" PROVE Known(msg.session)'
  <2>1. pc["main"] \in {"register", "ack_ready"} /\ msg' = msg
    BY <1>2, ReadyAcks
  <2>2. msg.session \in Sessions /\ Known(msg.session)
    BY <2>1 DEF AckedStays, LocalsSet, TypeOK, Message
  <2>3. QED
    BY <2>1, <2>2, RecordsPersist DEF Known
<1> DEFINE Kept == /\ \A s \in Sessions : Known(s)' => rec'[s].route \in RoutesOf[s]
                   /\ \A t \in Threads : pc'[t] \in PastMark => Expired(cur[t])'
                   /\ \A s \in Sessions :
                        Known(s)' /\ ~Expired(s)' /\ Unchallenged(s)'
                          => workers'[rec'[s].route] = s
<1>3. CASE Passive
  <2>1. \A t \in Threads : pc'[t] \in PastMark =>
          pc[t] \in PastMark /\ cur'[t] = cur[t]
    BY <1>3 DEF Passive, Walks, PastMark
  <2>2. Kept
    BY <1>3, <2>1, ChallengeStays DEF Passive, AckedStays, Expired
  <2>3. QED
    BY <1>1, <1>2, <2>2 DEF AckedStays
<1>4. ASSUME NEW t \in Threads, Mark(t) PROVE AckedStays'
  <2>1. cur[t] \in Sessions /\ Known(cur[t])
    BY <1>4
       DEF Mark, At, TypeOK, RecordsExist, LocalsSet, Expiring, ExpiryPlaces
  <2>2. \A x \in Sessions : rec'[x].route = rec[x].route /\ (Known(x) <=> Known(x)')
    BY <1>4, <2>1, TransitionEffect DEF Mark, TypeOK, WorkerStates
  <2>3. \A x \in Sessions :
          /\ Expired(x) => Expired(x)'
          /\ x = cur[t] => Expired(x)'
    <3>1. PICK e \in Sessions : e = cur[t]
      BY <2>1
    <3>2. QED
      BY <1>4, <3>1, EntryAdded DEF Mark, TypeOK
  <2>4. /\ workers' = workers /\ cur' = cur
        /\ \A x \in Threads : x # t => pc'[x] = pc[x]
    BY <1>4 DEF Mark, Goto, TypeOK
  <2>5. ASSUME NEW x \in Threads, pc'[x] \in PastMark PROVE Expired(cur[x])'
    <3>1. cur[x] \in Sessions /\ (x = t \/ Expired(cur[x]))
      BY <2>1, <2>4, <2>5
         DEF AckedStays, PastMark, TypeOK, LocalsSet, Expiring, ExpiryPlaces
    <3>2. PICK e \in Sessions : e = cur[x]
      BY <3>1
    <3>3. Expired(e)'
      BY <2>3, <3>1, <3>2
    <3>4. QED
      BY <2>4, <3>2, <3>3 DEF Expired
  <2>6. Kept
    BY <2>2, <2>3, <2>4, <2>5, ChallengeStays DEF AckedStays
  <2>7. QED
    BY <1>1, <1>2, <2>6 DEF AckedStays
<1>5. ASSUME NEW t \in Threads, DeleteRoute(t) PROVE AckedStays'
  <2> DEFINE r == rec[cur[t]].route
  <2>1. /\ cur[t] \in Sessions /\ Known(cur[t]) /\ r \in RoutesOf[cur[t]]
        /\ Expired(cur[t])
    BY <1>5
       DEF DeleteRoute, At, TypeOK, RecordsExist, LocalsSet, Expiring,
           ExpiryPlaces, AckedStays, PastMark
  <2>2. /\ UNCHANGED <<rec, cur, expired_workers>>
        /\ \A q \in Routes : q # r => workers'[q] = workers[q]
        /\ \A x \in Threads : x # t => pc'[x] = pc[x]
    BY <1>5 DEF DeleteRoute, Goto, TypeOK
  <2> HIDE DEF r
  <2>3. \A s \in Sessions :
          Known(s) /\ rec[s].route = r => WorkerOf[s] = WorkerOf[cur[t]]
    BY <2>1 DEF RoutesOfOneWorker, AckedStays
  <2>4. ASSUME NEW s \in Sessions, Known(s), ~Expired(s), Unchallenged(s)
        PROVE  workers'[rec[s].route] = s
    <3>1. rec[s].route # r
      BY <2>1, <2>3, <2>4, NoCrossing
    <3>2. rec[s].route \in Routes /\ workers[rec[s].route] = s
      BY <2>4 DEF AckedStays, RecordsExist
    <3>3. QED
      BY <2>2, <3>1, <3>2
  <2>5. Kept
    BY <2>1, <2>2, <2>4, ChallengeStays DEF AckedStays, Expired, Known
  <2>6. QED
    BY <1>1, <1>2, <2>5 DEF AckedStays
<1>6. ASSUME NEW t \in Threads, DeleteId(t) PROVE AckedStays'
  <2>1. /\ UNCHANGED <<workers, rec, expired_workers>>
        /\ pc'[t] \in {"scan", "dead"}
        /\ \A x \in Threads : x # t => pc'[x] = pc[x] /\ cur'[x] = cur[x]
    BY <1>6 DEF DeleteId, Goto, TypeOK
  <2>2. \A x \in Threads : pc'[x] \in PastMark => Expired(cur[x])'
    BY <2>1 DEF AckedStays, Expired, PastMark
  <2>3. Kept
    BY <2>1, <2>2, ChallengeStays DEF AckedStays, Expired, Known
  <2>4. QED
    BY <1>1, <1>2, <2>3 DEF AckedStays
<1>7. ASSUME NEW e \in Sessions, NEW r \in Routes, ReadyArrives(e, r)
      PROVE  AckedStays'
  <2>1. \A x \in Sessions \ {e} : rec'[x] = rec[x] /\ (Known(x)' <=> Known(x))
    BY <1>7, ReadyRegistry DEF Known
  <2>2. \A x \in Sessions : Known(x)' => rec'[x].route \in RoutesOf[x]
    BY <1>7, <2>1, ReadyRegistry DEF AckedStays
  <2>3. \A x \in Sessions : Expired(x)' <=> Expired(x)
    BY <1>7, ReadyRegistry, EntriesKept
  <2>4. \A t \in Threads : pc'[t] \in PastMark => Expired(cur[t])'
    BY <1>7, ReadyRegistry DEF AckedStays, Expired, PastMark
  <2>5. ASSUME NEW x \in Sessions, Known(x)', ~Expired(x)', Unchallenged(x)'
        PROVE  workers'[rec'[x].route] = x
    <3>1. CASE x = e
      BY <1>7, <3>1, ReadyRegistry DEF TypeOK
    <3>2. CASE x # e
      <4>1. Known(x) /\ Unchallenged(x) /\ ~Known(e) /\ Known(e)'
        BY <1>7, <2>1, <2>5, <3>2, ChallengeStays, ReadyRegistry
      <4>2. CASE WorkerOf[x] = WorkerOf[e]
        <5>1. Generation[e] \in Nat /\ Generation[x] \in Nat
          BY PeerAssumption
        <5>2. ~(Generation[e] >= Generation[x])
          BY <2>5, <3>2, <4>1, <4>2 DEF Unchallenged, Latest, Known
        <5>3. QED
          BY <4>1, <4>2, <5>1, <5>2 DEF InOrder
      <4>3. CASE WorkerOf[x] # WorkerOf[e]
        <5>1. rec[x].route # r
          BY <1>7, <4>1, <4>3, ReadyRegistry DEF RoutesOfOneWorker, AckedStays
        <5>2. QED
          BY <1>7, <2>1, <2>3, <2>5, <3>2, <4>1, <5>1, ReadyRegistry
             DEF AckedStays, TypeOK, RecordsExist
      <4>4. QED
        BY <4>2, <4>3
    <3>3. QED
      BY <3>1, <3>2
  <2>6. QED
    BY <1>1, <1>2, <2>2, <2>4, <2>5 DEF AckedStays
<1>8. QED
  BY <1>3, <1>4, <1>5, <1>6, <1>7, RegistrySteps DEF RegistryStep

\* Where a routing id is one worker's, a worker that was sent READY_ACK stays
\* registered, through every reconnect under the same routing id, until its own
\* record or that of one of its earlier sessions is expired.
THEOREM AckedIsRegisteredHolds ==
  ASSUME RoutesOfOneWorker PROVE Spec => []AckedIsRegistered
<1>1. TInv /\ InOrder /\ [Next]_vars => InOrder'
  BY InOrderStep
<1>2. TInv /\ InOrder /\ AckedStays /\ [Next]_vars => AckedStays'
  BY AckedStaysStep
<1>3. TInv /\ AckedStays => AckedIsRegistered
  BY PeerAssumption
     DEF TInv, TypeOK, RecordsExist, AckedStays, AckedIsRegistered,
         Registered, Message, Unchallenged
<1>4. QED
  BY <1>1, <1>2, <1>3, InitInOrder, InitAckedStays, TypeCorrect, PTL DEF Spec

-----------------------------------------------------------------------------
(* RegistriesAgree.                                                        *)

\* _workers_by_id is written by RegisterId and by the del of an expiry, and the
\* main thread leaves its place in _handle_ready by the one or by its death.
LEMMA IdSteps ==
  ASSUME TInv, [Next]_vars
  PROVE  /\ \/ workers_by_id' = workers_by_id
            \/ RegisterId
            \/ \E t \in Threads : DeleteId(t)
         /\ pc["main"] = "register" =>
              \/ RegisterId
              \/ pc'["main"] = "register" /\ msg' = msg
              \/ pc'["main"] = "dead"
         /\ pc["main"] = "dead" => pc'["main"] = "dead"
<1> USE DEF At, Goto, MainGoto, TInv, TypeOK, Threads, registry
<1>1. CASE MainThread
  <2>1. CASE Shutdown \/ RegisterId
    BY <2>1 DEF Shutdown, RegisterId, control
  <2>2. CASE Expire("main")
    BY <2>2 DEF Expire, Scan, Mark, Remove, DeleteRoute, CheckId, DeleteId,
                EndExpiry
  <2>3. CASE ~(Shutdown \/ RegisterId \/ Expire("main"))
    <3>1. pc["main"] \notin {"register", "dead"}
      BY <1>1, <2>3
         DEF MainThread, StartExpiry, PollTimeout, EnterGrace, Finalize,
             AckReady, Refresh, DecideResult, SettleWorker, AckResult,
             PickWorker, NothingToDispatch, Assign, SendJob, Receiving
    <3>2. workers_by_id' = workers_by_id
      BY <1>1, <2>3
         DEF MainThread, StartExpiry, PollTimeout, EnterGrace, Finalize,
             AckReady, Refresh, DecideResult, SettleWorker, AckResult,
             PickWorker, NothingToDispatch, Assign, SendJob
    <3>3. QED
      BY <3>1, <3>2
  <2>4. QED
    BY <2>1, <2>2, <2>3
<1>2. CASE HeartbeatLoop
  BY <1>2
     DEF HeartbeatLoop, Wake, SendBeat, Rest, Expire, Scan, Mark, Remove,
         DeleteRoute, CheckId, DeleteId, EndExpiry, locals
<1>3. CASE Arrival
  BY <1>3
     DEF Arrival, ReadyArrives, HandleReady, HeartbeatArrives,
         HandleHeartbeat, ResultArrives, HandleResult, Receiving
<1>4. CASE Passage \/ UNCHANGED vars
  BY <1>4 DEF Passage, Lapse, DeadlinePasses, Interrupt, locals, control, vars
<1>5. QED
  BY <1>1, <1>2, <1>3, <1>4 DEF Next

\* What a step does to _workers: a READY adds a record, a del takes one out.
LEMMA RouteSteps ==
  ASSUME TInv, [Next]_vars
  PROVE  \/ workers' = workers
         \/ \E t \in Threads : DeleteRoute(t)
         \/ \E s \in Sessions, r \in Routes : ReadyArrives(s, r)
BY RegistrySteps DEF RegistryStep, Passive, Mark, DeleteId

LEMMA InitInStep == Init => InStep
BY NoneAssumption, PeerAssumption DEF Init, InStep, Registered

LEMMA InStepStep ==
  ASSUME RoutesOfOneWorker, TInv, ExpiryUnderWay, InOrder, AckedStays, InStep,
         [Next]_vars
  PROVE  InStep'
<1> USE NoneAssumption, PeerAssumption DEF TInv
<1>1. ASSUME NEW s \in Sessions, Registered(s)'
      PROVE  \/ Registered(s)
             \/ pc'["main"] = "register" /\ msg'.session = s
  <2>1. CASE workers' = workers
    BY <1>1, <2>1 DEF Registered
  <2>2. ASSUME NEW t \in Threads, DeleteRoute(t) PROVE Registered(s)
    BY <1>1, <2>2 DEF DeleteRoute, Registered, TypeOK
  <2>3. ASSUME NEW e \in Sessions, NEW r \in Routes, ReadyArrives(e, r)
        PROVE  Registered(s) \/ (pc'["main"] = "register" /\ msg'.session = s)
    BY <1>1, <2>3, ReadyRegistry DEF Registered, TypeOK
  <2>4. QED
    BY <2>1, <2>2, <2>3, RouteSteps
<1>2. ASSUME NEW s \in Sessions, Registered(s)
      PROVE  workers[rec[s].route] = s /\ rec[s].route \in Routes /\ Known(s)
  BY <1>2 DEF Registered, ExpiryUnderWay, RecordsExist
<1>3. ASSUME NEW s \in Sessions, Unchallenged(s)', Registered(s), ~Registered(s)'
      PROVE  Expired(s)'
  <2>1. Known(s) /\ Known(s)' /\ rec'[s].route \in Routes
    BY <1>2, <1>3, RecordsPersist
  <2>2. AckedStays'
    BY AckedStaysStep
  <2>3. QED
    BY <1>3, <2>1, <2>2 DEF AckedStays, Registered
<1>4. ASSUME NEW s \in Sessions, Unchallenged(s)', Registered(s)'
      PROVE  \/ workers_by_id'[WorkerOf[s]] = s
             \/ pc'["main"] = "register" /\ msg'.session = s
             \/ pc'["main"] = "dead"
  <2> Unchallenged(s)
    BY <1>4, ChallengeStays
  <2>1. CASE ~Registered(s)
    BY <1>1, <1>4, <2>1
  <2>2. CASE /\ Registered(s)
             /\ workers_by_id[WorkerOf[s]] # s
    BY <2>2, IdSteps DEF InStep, RegisterId, TypeOK
  <2>3. CASE Registered(s) /\ workers_by_id[WorkerOf[s]] = s
    <3>1. CASE workers_by_id' = workers_by_id
      BY <2>3, <3>1
    <3>2. CASE RegisterId
      <4>1. PICK e \in Sessions : e = msg.session
        BY <3>2 DEF RegisterId, At, TypeOK, LocalsSet, Message
      <4>2. /\ workers_by_id' = [workers_by_id EXCEPT ![WorkerOf[e]] = e]
            /\ pc["main"] = "register" /\ Known(e)
        BY <3>2, <4>1 DEF RegisterId, At, LocalsSet
      <4>3. WorkerOf[e] = WorkerOf[s] => Generation[s] <= Generation[e]
        BY <1>2, <2>3, <4>1, <4>2 DEF InOrder
      <4>4. WorkerOf[e] = WorkerOf[s] => e = s
        BY <4>2, <4>3 DEF Unchallenged, Latest, Known
      <4>5. QED
        BY <2>3, <4>2, <4>4 DEF TypeOK
    <3>3. ASSUME NEW t \in Threads, DeleteId(t)
          PROVE  workers_by_id'[WorkerOf[s]] = s
      <4>1. /\ cur[t] \in Sessions /\ ~Registered(cur[t])
            /\ Known(cur[t]) /\ Expired(cur[t])
        BY <3>3
           DEF DeleteId, At, TypeOK, LocalsSet, Expiring, ExpiryPlaces,
               ExpiryUnderWay, RecordsExist, AckedStays, PastMark
      <4>2. WorkerOf[cur[t]] # WorkerOf[s]
        BY <2>3, <4>1, NoCrossing
      <4>3. QED
        BY <2>3, <3>3, <4>2 DEF DeleteId, TypeOK
    <3>4. QED
      BY <3>1, <3>2, <3>3, IdSteps
  <2>4. QED
    BY <2>1, <2>2, <2>3
<1>5. ASSUME NEW s \in Sessions, Unchallenged(s)', workers_by_id'[WorkerOf[s]] = s
      PROVE  Registered(s)' \/ Expired(s)'
  <2>1. Registered(s) \/ Expired(s)
    <3>1. CASE workers_by_id[WorkerOf[s]] = s
      BY <1>5, <3>1, ChallengeStays DEF InStep
    <3>2. CASE RegisterId /\ workers_by_id[WorkerOf[s]] # s
      <4>1. msg.session = s
        BY <1>5, <3>2 DEF RegisterId, TypeOK, LocalsSet, Message
      <4>2. Known(s) /\ rec[s].route \in Routes /\ Unchallenged(s)
        BY <1>5, <3>2, <4>1, ChallengeStays
           DEF RegisterId, At, LocalsSet, RecordsExist
      <4>3. QED
        BY <4>2 DEF AckedStays, Registered
    <3>3. CASE (\E t \in Threads : DeleteId(t)) /\ workers_by_id[WorkerOf[s]] # s
      BY <1>5, <3>3 DEF DeleteId, TypeOK
    <3>4. QED
      BY <1>5, <3>1, <3>2, <3>3, IdSteps
  <2>2. QED
    BY <1>3, <1>5, <2>1, ExpiredStays
<1>6. QED
  BY <1>4, <1>5 DEF InStep

\* Where a routing id is one worker's, the two dictionaries agree on the latest
\* record of a worker whenever no thread is between their updates, whatever the
\* threads did, until an earlier record of that worker is expired.
THEOREM RegistriesAgreeHolds ==
  ASSUME RoutesOfOneWorker PROVE Spec => []RegistriesAgree
<1>1. TInv /\ ExpiryUnderWay /\ [Next]_vars => ExpiryUnderWay'
  BY ExpiryUnderWayStep
<1>2. TInv /\ InOrder /\ [Next]_vars => InOrder'
  BY InOrderStep
<1>3. TInv /\ InOrder /\ AckedStays /\ [Next]_vars => AckedStays'
  BY AckedStaysStep
<1>4. TInv /\ ExpiryUnderWay /\ InOrder /\ AckedStays /\ InStep /\ [Next]_vars
        => InStep'
  BY InStepStep
<1>5. InStep => RegistriesAgree
  BY DEF InStep, RegistriesAgree, Unchallenged
<1>6. QED
  BY <1>1, <1>2, <1>3, <1>4, <1>5, InitExpiryUnderWay, InitInOrder, InitAckedStays,
     InitInStep, TypeCorrect, PTL DEF Spec

=============================================================================
