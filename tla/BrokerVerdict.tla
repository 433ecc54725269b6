---------------------------- MODULE BrokerVerdict ----------------------------
(***************************************************************************)
(* What becomes of a job, proved of every instance of Broker: the run is   *)
(* reported as what happened to its job, and the broker implements         *)
(* ReplyContract.                                                          *)
(***************************************************************************)
EXTENDS BrokerContract, BrokerSafety

-----------------------------------------------------------------------------
(* The invariant: the three things a run can have made of its RESULT, and  *)
(* the places of the main thread at which each is so.                      *)

AcksSent == {m \in sent : m.type = "RESULT_ACK"}

\* No RESULT has been decided.
NoVerdict ==
  /\ \A k \in Jobs : jobs[k] # None => ~jobs[k].completed /\ ~jobs[k].rejected
  /\ AcksSent = {}
  /\ ~stats.result_accepted /\ ~stats.result_rejected /\ stats.result_missing
  /\ ~result_handled

\* The RESULT of job j was accepted, and that of no other.
AcceptedAs(j) ==
  /\ j \in Jobs /\ jobs[j] # None /\ jobs[j].completed
  /\ \A k \in Jobs : jobs[k] # None =>
       ~jobs[k].rejected /\ (jobs[k].completed => k = j)
  /\ \A m \in AcksSent : m.job = j
  /\ stats.result_accepted /\ ~stats.result_rejected /\ ~stats.result_missing

\* The RESULT of job j was refused.
RefusedAs(j) ==
  /\ j \in Jobs /\ jobs[j] # None /\ jobs[j].rejected
  /\ \A k \in Jobs : jobs[k] # None => ~jobs[k].completed
  /\ AcksSent = {}
  /\ ~stats.result_accepted /\ stats.result_rejected /\ ~stats.result_missing

Deciding == {"decide", "settle", "ack_result"}

\* An acceptance has been acknowledged.
AckedIfAccepted ==
  stats.result_accepted => stats.result_ack_sent /\ AcksSent # {}

Outcome ==
  /\ NoVerdict \/ \E j \in Jobs : AcceptedAs(j) \/ RefusedAs(j)
  /\ ~stats.raw_message_received => NoVerdict
  /\ pc["main"] = "decide" =>
       stats.raw_message_received /\ NoVerdict /\ jobs[msg.job] # None
  /\ pc["main"] \in {"settle", "ack_result"} =>
       stats.raw_message_received /\ AcceptedAs(msg.job)
  /\ pc["main"] \notin Deciding \union {"dead"} =>
       AckedIfAccepted /\ (stats.raw_message_received => result_handled)
  /\ pc["main"] = "done" =>
       stats.transport_case = FinalCase /\ Mode = "run_once"
  /\ Policy = "job-id" => ~stats.result_rejected
  /\ Mode = "run_forever" => passed = {}

\* The job is created after the choice of its worker and before job_sent.
OpenedOnce ==
  (\E k \in Jobs : jobs[k] # None) => job_sent \/ pc["main"] \in {"send_job", "dead"}

VInv == TInv /\ DispatchOnce /\ Outcome /\ OpenedOnce

-----------------------------------------------------------------------------
(* Most steps concern no verdict.                                          *)

\* The step leaves every job, every ack and what the run knows of its RESULT,
\* and takes the main thread neither to a decision nor to the report.
Quiet ==
  /\ jobs' = jobs /\ AcksSent' = AcksSent /\ result_handled' = result_handled
  /\ stats'.raw_message_received = stats.raw_message_received
  /\ stats'.result_accepted = stats.result_accepted
  /\ stats'.result_rejected = stats.result_rejected
  /\ stats'.result_missing = stats.result_missing
  /\ stats'.result_ack_sent = stats.result_ack_sent
  /\ stats'.transport_case = stats.transport_case
  /\ Mode = "run_forever" => passed' = passed
  /\ \/ UNCHANGED <<pc["main"], msg, job_sent>>
     \/ /\ pc["main"] = "settle" /\ pc'["main"] = "ack_result"
        /\ UNCHANGED <<msg, job_sent>>
     \/ /\ pc["main"] \notin Deciding \union {"done", "dead", "send_job"}
        /\ pc'["main"] \notin Deciding \union {"done"}
        /\ job_sent' = job_sent
     \/ /\ pc["main"] = "send_job" /\ pc'["main"] = "expire"
        /\ job_sent'
     \/ /\ Mode = "run_forever" /\ pc'["main"] = "dead"
        /\ UNCHANGED <<msg, job_sent>>

\* A step that leaves the statistics, the jobs and the acks.
LEMMA QuietStep ==
  ASSUME TInv, UNCHANGED <<jobs, stats, result_handled>>, AcksSent' = AcksSent,
         Mode = "run_forever" => passed' = passed,
         \/ UNCHANGED <<pc["main"], msg, job_sent>>
         \/ /\ pc["main"] = "settle" /\ pc'["main"] = "ack_result"
            /\ UNCHANGED <<msg, job_sent>>
         \/ /\ pc["main"] \notin Deciding \union {"done", "dead", "send_job"}
            /\ pc'["main"] \notin Deciding \union {"done"}
            /\ job_sent' = job_sent
         \/ /\ pc["main"] = "send_job" /\ pc'["main"] = "expire"
            /\ job_sent'
         \/ /\ Mode = "run_forever" /\ pc'["main"] = "dead"
            /\ UNCHANGED <<msg, job_sent>>
  PROVE  Quiet
BY DEF Quiet

LEMMA ExpireQuiet ==
  ASSUME TInv, NEW t \in Threads, Expire(t)
  PROVE  Quiet
<1> USE DEF TInv, At, Goto, locals
<1>1. UNCHANGED <<jobs, sent, result_handled, passed, msg, job_sent>>
  BY DEF Expire, Scan, Mark, Remove, DeleteRoute, CheckId, DeleteId, EndExpiry
<1>2. stats' = stats \/ stats' = [stats EXCEPT !.worker_expired = TRUE]
  BY DEF Expire, Scan, Mark, Remove, DeleteRoute, CheckId, DeleteId, EndExpiry
<1>3. /\ stats'.raw_message_received = stats.raw_message_received
      /\ stats'.result_accepted = stats.result_accepted
      /\ stats'.result_rejected = stats.result_rejected
      /\ stats'.result_missing = stats.result_missing
      /\ stats'.result_ack_sent = stats.result_ack_sent
      /\ stats'.transport_case = stats.transport_case
  BY <1>2 DEF TypeOK, BrokerStats
<1>4. \/ pc'["main"] = pc["main"]
      \/ /\ pc["main"] \in ExpiryPlaces
         /\ pc'["main"] \in ExpiryPlaces \union {"dead", "loop"}
  <2>1. CASE t = "heartbeat"
    BY <2>1 DEF Expire, Scan, Mark, Remove, DeleteRoute, CheckId, DeleteId,
                EndExpiry, Threads, TypeOK
  <2>2. CASE t = "main"
    BY <2>2 DEF Expire, Scan, Mark, Remove, DeleteRoute, CheckId, DeleteId,
                EndExpiry, Threads, TypeOK, ExpiryPlaces
  <2>3. QED
    BY <2>1, <2>2 DEF Threads
<1>5. QED
  BY <1>1, <1>3, <1>4 DEF Quiet, AcksSent, Deciding, ExpiryPlaces

\* The steps of the main thread that have to do with a verdict.
VerdictStep ==
  \/ Finalize \/ DecideResult \/ AckResult
  \/ \E j \in Jobs : Assign(j)
  \/ \E d \in JobsSent, s \in Sessions, r \in Routes : ResultArrives(d, s, r)

LEMMA MainQuiet ==
  ASSUME TInv, MainThread, ~VerdictStep
  PROVE  Quiet
<1> USE DEF TInv, At, Goto, MainGoto, locals
<1>1. CASE Expire("main")
  BY <1>1, ExpireQuiet DEF Threads
<1>2. CASE StartExpiry \/ PollTimeout \/ EnterGrace \/ Refresh \/ RegisterId
           \/ NothingToDispatch \/ \E s \in Sessions : PickWorker(s)
  <2>1. UNCHANGED <<jobs, stats, result_handled, sent, passed, job_sent>>
    BY <1>2 DEF StartExpiry, PollTimeout, EnterGrace, Refresh, RegisterId,
                NothingToDispatch, PickWorker
  <2>2. /\ pc["main"] \notin Deciding \union {"done", "dead", "send_job"}
        /\ pc'["main"] \notin Deciding \union {"done"}
    BY <1>2
       DEF StartExpiry, PollTimeout, EnterGrace, Refresh, RegisterId,
           NothingToDispatch, PickWorker, AfterMessage, Deciding, TypeOK, Threads
  <2>3. QED
    BY <2>1, <2>2, QuietStep DEF AcksSent
<1>3. CASE Shutdown
  BY <1>3, QuietStep DEF Shutdown, control, AcksSent
<1>4. CASE AckReady
  <2>1. AcksSent' = AcksSent
    BY <1>4 DEF AckReady, Send, Msg, AcksSent
  <2>2. /\ pc["main"] \notin Deciding \union {"done", "dead", "send_job"}
        /\ pc'["main"] \notin Deciding \union {"done"}
    BY <1>4 DEF AckReady, AfterMessage, Deciding, TypeOK, Threads
  <2>3. QED
    BY <1>4, <2>1, <2>2, QuietStep DEF AckReady
<1>5. CASE SettleWorker
  <2>1. pc["main"] = "settle" /\ pc'["main"] = "ack_result"
    BY <1>5 DEF SettleWorker, TypeOK, Threads
  <2>2. QED
    BY <1>5, <2>1, QuietStep DEF SettleWorker, AcksSent
<1>6. CASE SendJob
  <2>1. AcksSent' = AcksSent
    BY <1>6 DEF SendJob, Send, Msg, AcksSent
  <2>2. pc["main"] = "send_job" /\ pc'["main"] = "expire"
    BY <1>6 DEF SendJob, TypeOK, Threads
  <2>3. QED
    BY <1>6, <2>1, <2>2, QuietStep DEF SendJob
<1>7. QED
  BY <1>1, <1>2, <1>3, <1>4, <1>5, <1>6 DEF MainThread, VerdictStep

LEMMA StepKinds ==
  ASSUME TInv, [Next]_vars
  PROVE  Quiet \/ VerdictStep
<1> USE DEF TInv, At, Goto, MainGoto, locals
<1>1. CASE MainThread
  BY <1>1, MainQuiet
<1>2. CASE HeartbeatLoop
  <2>1. CASE Expire("heartbeat")
    BY <2>1, ExpireQuiet DEF Threads
  <2>2. CASE Wake \/ (\E s \in Sessions : SendBeat(s)) \/ Rest
    <3>1. /\ UNCHANGED <<jobs, stats, result_handled, msg, job_sent, passed>>
          /\ pc'["main"] = pc["main"]
      BY <2>2 DEF Wake, SendBeat, Rest, TypeOK, Threads
    <3>2. AcksSent' = AcksSent
      BY <2>2 DEF Wake, SendBeat, Rest, Send, Msg, AcksSent
    <3>3. QED
      BY <3>1, <3>2, QuietStep
  <2>3. QED
    BY <1>2, <2>1, <2>2 DEF HeartbeatLoop
<1>3. ASSUME NEW r \in Routes,
             (\E s \in Sessions : ReadyArrives(s, r)) \/ HeartbeatArrives(r)
      PROVE  Quiet
  <2>1. UNCHANGED <<jobs, stats, sent, result_handled, job_sent, passed>>
    BY <1>3 DEF ReadyArrives, HandleReady, HeartbeatArrives, HandleHeartbeat
  <2>2. /\ pc["main"] \notin Deciding \union {"done", "dead", "send_job"}
        /\ pc'["main"] \notin Deciding \union {"done"}
    BY <1>3 DEF ReadyArrives, HandleReady, HeartbeatArrives, HandleHeartbeat,
                Receiving, AfterMessage, Deciding, TypeOK, Threads
  <2>3. QED
    BY <2>1, <2>2, QuietStep DEF AcksSent
<1>4. CASE Passage
  <2>1. UNCHANGED <<jobs, stats, sent, result_handled, job_sent, msg>>
    BY <1>4 DEF Passage, Lapse, DeadlinePasses, Interrupt
  <2>2. /\ Mode = "run_forever" => passed' = passed
        /\ \/ pc'["main"] = pc["main"]
           \/ Mode = "run_forever" /\ pc'["main"] = "dead"
    BY <1>4, ConfigAssumption
       DEF Passage, Lapse, DeadlinePasses, Interrupt, control, TypeOK, Threads
  <2>3. QED
    BY <2>1, <2>2, QuietStep DEF AcksSent
<1>5. CASE UNCHANGED vars
  BY <1>5, QuietStep DEF vars, control, AcksSent
<1>6. QED
  BY <1>1, <1>2, <1>3, <1>4, <1>5 DEF Next, Arrival, VerdictStep

-----------------------------------------------------------------------------
(* The invariant is kept.                                                  *)

LEMMA InitOutcome == Init => Outcome /\ OpenedOnce
BY DEF Init, Outcome, OpenedOnce, NoVerdict, AcksSent, AckedIfAccepted,
       Deciding, Threads

LEMMA QuietOutcome ==
  ASSUME TInv, Outcome, OpenedOnce, Quiet
  PROVE  Outcome' /\ OpenedOnce'
<1>1. NoVerdict => NoVerdict'
  BY DEF NoVerdict, Quiet
<1>2. \A j : AcceptedAs(j) => AcceptedAs(j)'
  BY DEF AcceptedAs, Quiet
<1>3. \A j : RefusedAs(j) => RefusedAs(j)'
  BY DEF RefusedAs, Quiet
<1>4. FinalCase' = FinalCase /\ (AckedIfAccepted => AckedIfAccepted')
  BY DEF FinalCase, AckedIfAccepted, Quiet
<1>5. NoVerdict' \/ \E j \in Jobs : AcceptedAs(j)' \/ RefusedAs(j)'
  BY <1>1, <1>2, <1>3 DEF Outcome
<1>6. /\ ~stats'.raw_message_received => NoVerdict'
      /\ pc'["main"] = "decide" =>
           stats'.raw_message_received /\ NoVerdict' /\ jobs'[msg'.job] # None
  BY <1>1 DEF Outcome, Quiet, Deciding
<1>7. pc'["main"] \in {"settle", "ack_result"} =>
        stats'.raw_message_received /\ AcceptedAs(msg.job)' /\ msg' = msg
  BY <1>2 DEF Outcome, Quiet, Deciding
<1>8. pc'["main"] \notin Deciding \union {"dead"} =>
        AckedIfAccepted' /\ (stats'.raw_message_received => result_handled')
  BY <1>4 DEF Outcome, Quiet, Deciding
<1>9. pc'["main"] = "done" =>
        stats'.transport_case = FinalCase' /\ Mode = "run_once"
  BY <1>4 DEF Outcome, Quiet
<1>10. /\ Policy = "job-id" => ~stats'.result_rejected
       /\ Mode = "run_forever" => passed' = {}
  BY DEF Outcome, Quiet
<1>11. Outcome'
  BY <1>5, <1>6, <1>7, <1>8, <1>9, <1>10 DEF Outcome, AcceptedAs
<1>12. OpenedOnce'
  BY DEF OpenedOnce, Quiet
<1>13. QED
  BY <1>11, <1>12

\* What Finalize writes is what the report will be read from.
LEMMA FinalizeOutcome ==
  ASSUME TInv, Outcome, OpenedOnce, Finalize
  PROVE  Outcome' /\ OpenedOnce'
<1> USE DEF TInv, At, Goto, MainGoto, locals
<1>1. /\ pc["main"] \in {"loop", "grace"} /\ pc'["main"] = "done"
      /\ UNCHANGED <<jobs, sent, result_handled, passed, job_sent>>
  BY DEF Finalize, TypeOK, Threads
<1>2. Mode = "run_once"
  BY ConfigAssumption DEF Finalize, Outcome
<1>3. /\ stats'.raw_message_received = stats.raw_message_received
      /\ stats'.result_accepted = stats.result_accepted
      /\ stats'.result_rejected = stats.result_rejected
      /\ stats'.result_ack_sent = stats.result_ack_sent
      /\ stats'.transport_case = FinalCase
  BY DEF Finalize, TypeOK, BrokerStats
<1>4. stats'.result_missing = stats.result_missing
  <2>1. ~stats.raw_message_received => stats.result_missing = TRUE
    BY DEF Outcome, NoVerdict, TypeOK, BrokerStats
  <2>2. QED
    BY <2>1 DEF Finalize, TypeOK, BrokerStats
<1>5. FinalCase' = FinalCase
  BY <1>3 DEF FinalCase
<1>6. NoVerdict => NoVerdict'
  BY <1>1, <1>3, <1>4 DEF NoVerdict, AcksSent
<1>7. \A j : AcceptedAs(j) => AcceptedAs(j)'
  BY <1>1, <1>3, <1>4 DEF AcceptedAs, AcksSent
<1>8. \A j : RefusedAs(j) => RefusedAs(j)'
  BY <1>1, <1>3, <1>4 DEF RefusedAs, AcksSent
<1>9. AckedIfAccepted => AckedIfAccepted'
  BY <1>1, <1>3 DEF AckedIfAccepted, AcksSent
<1>10. Outcome'
  BY <1>1, <1>2, <1>3, <1>5, <1>6, <1>7, <1>8, <1>9 DEF Outcome, Deciding
<1>11. OpenedOnce'
  BY <1>1 DEF OpenedOnce
<1>12. QED
  BY <1>10, <1>11

LEMMA DecideOutcome ==
  ASSUME TInv, Outcome, OpenedOnce, DecideResult
  PROVE  Outcome' /\ OpenedOnce'
<1> USE NoneAssumption DEF TInv, At, Goto, MainGoto, locals
<1>1. /\ pc["main"] = "decide" /\ msg.job \in Jobs /\ jobs[msg.job] # None
      /\ stats.raw_message_received /\ NoVerdict
      /\ UNCHANGED <<sent, passed, job_sent>>
  BY DEF DecideResult, LocalsSet, Outcome
<1>2. ~jobs[msg.job].completed /\ ~jobs[msg.job].rejected
  BY <1>1 DEF NoVerdict
<1>3. CASE Accept(msg)
  <2>1. /\ jobs'[msg.job] # None
        /\ jobs'[msg.job].completed
        /\ jobs'[msg.job].rejected = jobs[msg.job].rejected
        /\ \A k \in Jobs \ {msg.job} : jobs'[k] = jobs[k]
    BY <1>1, <1>3, CompletedEffect DEF Accept, TypeOK
  <2>2. /\ stats'.raw_message_received
        /\ stats'.result_accepted /\ ~stats'.result_rejected
        /\ ~stats'.result_missing
    BY <1>1, <1>3 DEF Accept, TypeOK, BrokerStats, NoVerdict
  <2>3. AcceptedAs(msg.job)'
    BY <1>1, <1>2, <1>3, <2>1, <2>2 DEF AcceptedAs, NoVerdict, AcksSent, Accept
  <2>4. pc'["main"] = "settle" /\ msg' = msg
    BY <1>3 DEF Accept, TypeOK, Threads
  <2>5. Outcome'
    BY <1>1, <2>2, <2>3, <2>4 DEF Outcome, Deciding, AcceptedAs
  <2>6. OpenedOnce'
    BY <1>1, <2>4 DEF OpenedOnce
  <2>7. QED
    BY <2>5, <2>6
<1>4. ASSUME NEW reason, reason # None, reason = RejectReason(worker, msg),
             Reject(msg, reason)
      PROVE  Outcome' /\ OpenedOnce'
  <2>1. Policy # "job-id"
    BY <1>1, <1>2, <1>4 DEF RejectReason, JobIdReason
  <2>2. jobs' = [jobs EXCEPT ![msg.job].rejected = TRUE]
    BY <1>1, <1>4 DEF Reject
  <2>3. /\ jobs'[msg.job] # None
        /\ jobs'[msg.job].completed = jobs[msg.job].completed
        /\ \A k \in Jobs \ {msg.job} : jobs'[k] = jobs[k]
    BY <1>1, <2>2, RejectedEffect DEF TypeOK
  <2>4. jobs'[msg.job].rejected
    BY <1>1, <2>2 DEF TypeOK, JobRecord
  <2>5. /\ stats'.raw_message_received
        /\ ~stats'.result_accepted /\ stats'.result_rejected
        /\ ~stats'.result_missing
    BY <1>1, <1>4 DEF Reject, TypeOK, BrokerStats, NoVerdict
  <2>6. PICK j \in Jobs : j = msg.job
    BY <1>1
  <2>7. RefusedAs(j)'
    BY <1>1, <1>2, <2>3, <2>4, <2>5, <2>6 DEF RefusedAs, NoVerdict, AcksSent
  <2>8. /\ pc'["main"] \notin Deciding \union {"done", "dead"}
        /\ result_handled'
    BY <1>4 DEF Reject, AfterMessage, Deciding, TypeOK, Threads
  <2>9. AckedIfAccepted'
    BY <2>5 DEF AckedIfAccepted
  <2>10. Outcome'
    BY <1>1, <2>1, <2>5, <2>7, <2>8, <2>9 DEF Outcome, Deciding
  <2>11. OpenedOnce'
    BY <1>1, <1>4 DEF OpenedOnce, Reject
  <2>12. QED
    BY <2>10, <2>11
<1>5. QED
  BY <1>3, <1>4 DEF DecideResult

LEMMA AckOutcome ==
  ASSUME TInv, Outcome, OpenedOnce, AckResult
  PROVE  Outcome' /\ OpenedOnce'
<1> USE NoneAssumption DEF TInv, At, Goto, MainGoto, locals
<1>1. /\ pc["main"] = "ack_result" /\ msg \in Message /\ msg.job \in Jobs
      /\ jobs[msg.job] # None /\ AcceptedAs(msg.job)
      /\ stats.raw_message_received
      /\ UNCHANGED <<passed, job_sent>>
  BY DEF AckResult, LocalsSet, Outcome, TypeOK, AcceptedAs
<1>2. /\ jobs'[msg.job] # None
      /\ jobs'[msg.job].completed = jobs[msg.job].completed
      /\ jobs'[msg.job].rejected = jobs[msg.job].rejected
      /\ \A k \in Jobs \ {msg.job} : jobs'[k] = jobs[k]
  BY <1>1, AckEffect DEF AckResult, TypeOK
<1>3. /\ stats'.raw_message_received
      /\ stats'.result_accepted = stats.result_accepted
      /\ stats'.result_rejected = stats.result_rejected
      /\ stats'.result_missing = stats.result_missing
      /\ stats'.result_ack_sent
  BY <1>1 DEF AckResult, TypeOK, BrokerStats
<1>4. PICK a : a.type = "RESULT_ACK" /\ a.job = msg.job
                 /\ sent' = sent \union {a}
  BY DEF AckResult, Send, Msg
<1>b. AcksSent' = AcksSent \union {a}
  BY <1>4 DEF AcksSent
<1>5. PICK j \in Jobs : j = msg.job
  BY <1>1
<1>6. AcceptedAs(j)'
  BY <1>1, <1>2, <1>3, <1>4, <1>b, <1>5 DEF AcceptedAs
<1>7. pc'["main"] \notin Deciding \union {"done", "dead"} /\ result_handled'
  BY DEF AckResult, AfterMessage, Deciding, TypeOK, Threads
<1>8. AckedIfAccepted'
  BY <1>3, <1>b DEF AckedIfAccepted
<1>9. Outcome'
  BY <1>1, <1>3, <1>6, <1>7, <1>8 DEF Outcome, Deciding
<1>10. OpenedOnce'
  BY <1>1 DEF OpenedOnce
<1>11. QED
  BY <1>9, <1>10

LEMMA AssignOutcome ==
  ASSUME TInv, Outcome, OpenedOnce, NEW j \in Jobs, Assign(j)
  PROVE  Outcome' /\ OpenedOnce'
<1> USE NoneAssumption DEF TInv, At, Goto, MainGoto, locals
<1>1. /\ pc["main"] = "assign" /\ pc'["main"] = "send_job" /\ jobs[j] = None
      /\ worker \in Sessions
      /\ UNCHANGED <<sent, passed, result_handled>>
  BY DEF Assign, LocalsSet, TypeOK, Threads
<1>2. /\ ~jobs'[j].completed /\ ~jobs'[j].rejected
      /\ \A k \in Jobs \ {j} : jobs'[k] = jobs[k]
  BY <1>1 DEF Assign, TypeOK
<1>3. /\ stats'.raw_message_received = stats.raw_message_received
      /\ stats'.result_accepted = stats.result_accepted
      /\ stats'.result_rejected = stats.result_rejected
      /\ stats'.result_missing = stats.result_missing
      /\ stats'.result_ack_sent = stats.result_ack_sent
  BY DEF Assign, TypeOK, BrokerStats
<1>4. AcksSent' = AcksSent
  BY <1>1 DEF AcksSent
<1>5. NoVerdict => NoVerdict'
  BY <1>1, <1>2, <1>3, <1>4 DEF NoVerdict
<1>6. \A k : AcceptedAs(k) => AcceptedAs(k)'
  BY <1>1, <1>2, <1>3, <1>4 DEF AcceptedAs
<1>7. \A k : RefusedAs(k) => RefusedAs(k)'
  BY <1>1, <1>2, <1>3, <1>4 DEF RefusedAs
<1>8. AckedIfAccepted => AckedIfAccepted'
  BY <1>3, <1>4 DEF AckedIfAccepted
<1>9. Outcome'
  BY <1>1, <1>3, <1>5, <1>6, <1>7, <1>8 DEF Outcome, Deciding
<1>10. OpenedOnce'
  BY <1>1 DEF OpenedOnce
<1>11. QED
  BY <1>9, <1>10

\* A RESULT answers the one JOB that was sent, whose record exists.
LEMMA ArrivalOutcome ==
  ASSUME TInv, DispatchOnce, Outcome, OpenedOnce,
         NEW d \in JobsSent, NEW s \in Sessions, NEW r \in Routes,
         ResultArrives(d, s, r)
  PROVE  Outcome' /\ OpenedOnce'
<1> USE NoneAssumption DEF TInv, At, Goto, MainGoto, locals
<1>1. /\ NoVerdict /\ pc'["main"] = "decide" /\ msg'.job = d.job
      /\ pc["main"] \in {"loop", "grace"}
      /\ UNCHANGED <<jobs, sent, passed, job_sent, result_handled>>
  BY DEF ResultArrives, HandleResult, Receiving, Msg, Outcome, TypeOK, Threads
<1>2. jobs[d.job] # None
  BY DEF DispatchOnce, OneDispatch
<1>3. /\ stats'.raw_message_received
      /\ stats'.result_accepted = stats.result_accepted
      /\ stats'.result_rejected = stats.result_rejected
      /\ stats'.result_missing = stats.result_missing
  BY DEF ResultArrives, HandleResult, TypeOK, BrokerStats
<1>4. NoVerdict'
  BY <1>1, <1>3 DEF NoVerdict, AcksSent
<1>5. Outcome'
  BY <1>1, <1>2, <1>3, <1>4 DEF Outcome, Deciding
<1>6. OpenedOnce'
  BY <1>1 DEF OpenedOnce
<1>7. QED
  BY <1>5, <1>6

LEMMA InitVInv == Init => VInv
BY InitTInv, InitDispatchOnce, InitOutcome DEF VInv

LEMMA VInvStep == VInv /\ [Next]_vars => VInv'
<1> SUFFICES ASSUME VInv, [Next]_vars PROVE VInv'
  OBVIOUS
<1> USE DEF VInv
<1>1. TInv' /\ DispatchOnce'
  BY NextTInv, DispatchOnceStep
<1>2. Quiet \/ VerdictStep
  BY StepKinds
<1>3. Outcome' /\ OpenedOnce'
  BY <1>2, QuietOutcome, FinalizeOutcome, DecideOutcome, AckOutcome,
     AssignOutcome, ArrivalOutcome DEF VerdictStep
<1>4. QED
  BY <1>1, <1>3

LEMMA Invariance == Spec => []VInv
BY InitVInv, VInvStep, PTL DEF Spec

-----------------------------------------------------------------------------
(* The report.                                                             *)

\* Whatever happened to sessions, routes and records on the way, the case that
\* run_once reports is the verdict on its job, acknowledged or refused.
THEOREM VerdictIsTruthHolds == Spec => []VerdictIsTruth
<1>1. VInv => VerdictIsTruth
  <2> SUFFICES ASSUME VInv, pc["main"] = "done"
               PROVE  /\ stats.transport_case = "SUCCESS" <=>
                           \E j \in Jobs :
                             /\ jobs[j] # None /\ jobs[j].completed
                             /\ \E m \in sent : m.type = "RESULT_ACK" /\ m.job = j
                      /\ stats.transport_case = "CASE2_RECV_REJECTED" <=>
                           \E j \in Jobs : jobs[j] # None /\ jobs[j].rejected
                      /\ stats.transport_case = "INCONCLUSIVE" <=>
                           stats.result_missing
    BY DEF VerdictIsTruth
  <2>1. /\ stats.transport_case = FinalCase /\ AckedIfAccepted
        /\ stats.raw_message_received => result_handled
        /\ ~stats.raw_message_received => NoVerdict
    BY DEF VInv, Outcome, Deciding
  <2>2. CASE NoVerdict
    BY <2>1, <2>2 DEF NoVerdict, FinalCase, AcksSent
  <2>3. ASSUME NEW j \in Jobs, AcceptedAs(j) PROVE stats.transport_case = "SUCCESS"
    BY <2>1, <2>3 DEF AcceptedAs, AckedIfAccepted, FinalCase, NoVerdict
  <2>4. ASSUME NEW j \in Jobs, AcceptedAs(j)
        PROVE  \E m \in sent : m.type = "RESULT_ACK" /\ m.job = j
    BY <2>1, <2>4 DEF AcceptedAs, AckedIfAccepted, AcksSent
  <2>5. ASSUME NEW j \in Jobs, RefusedAs(j)
        PROVE  stats.transport_case = "CASE2_RECV_REJECTED"
    BY <2>1, <2>5 DEF RefusedAs, FinalCase, NoVerdict
  <2>6. QED
    BY <2>2, <2>3, <2>4, <2>5 DEF VInv, Outcome, AcceptedAs, RefusedAs
<1>2. QED
  BY <1>1, Invariance, PTL

\* Under the job-id policy a RESULT that reached the broker is never refused:
\* a run that ends after one ends in SUCCESS.
THEOREM JobIdRepairsHolds == Spec => []JobIdRepairs
<1>1. VInv => JobIdRepairs
  BY DEF VInv, Outcome, JobIdRepairs, Deciding, NoVerdict, AcceptedAs,
         RefusedAs, AckedIfAccepted, FinalCase
<1>2. QED
  BY <1>1, Invariance, PTL

-----------------------------------------------------------------------------
(* The broker implements ReplyContract: a step maps to the contract's step *)
(* of the same job, or leaves verdict, acked and report as they are.       *)

\* The verdicts as the contract sees them: one job decided at most, and its
\* verdict is what the three cases of Outcome say.
LEMMA VerdictCases ==
  /\ NoVerdict => /\ \A k \in Jobs : Verdict(k) \in {"none", "open"}
                  /\ Acked = {}
  /\ \A j \in Jobs : AcceptedAs(j) =>
       /\ Verdict(j) = "accepted"
       /\ \A k \in Jobs \ {j} : Verdict(k) \in {"none", "open"}
       /\ Acked \subseteq {j}
       /\ AcksSent # {} => Acked = {j}
  /\ \A j \in Jobs : RefusedAs(j) =>
       /\ Verdict(j) = "refused"
       /\ \A k \in Jobs : Verdict(k) # "accepted"
       /\ Acked = {}
BY DEF NoVerdict, AcceptedAs, RefusedAs, Verdict, Acked, AcksSent

\* What the contract sees of a step is what it does to jobs, to the acks and to
\* the report.
LEMMA ContractStutters ==
  ASSUME \A k \in Jobs : Verdict(k)' = Verdict(k),
         AcksSent' = AcksSent, Reported' = Reported
  PROVE  UNCHANGED Contract!contractVars
<1>1. Acked = {m.job : m \in AcksSent} /\ Acked' = {m.job : m \in AcksSent'}
  BY DEF Acked, AcksSent
<1>2. Acked' = Acked
  BY <1>1
<1>3. [j \in Jobs |-> Verdict(j)]' = [j \in Jobs |-> Verdict(j)]
  OBVIOUS
<1>4. QED
  BY <1>2, <1>3 DEF Contract!contractVars

LEMMA InitContract == Init => Contract!ContractInit
<1> SUFFICES ASSUME Init PROVE Contract!ContractInit
  OBVIOUS
<1>1. [j \in Jobs |-> Verdict(j)] = [j \in Jobs |-> "none"]
  BY DEF Init, Verdict
<1>2. Acked = {} /\ Reported = None
  BY DEF Init, Acked, Reported, Threads
<1>3. QED
  BY <1>1, <1>2 DEF Contract!ContractInit

LEMMA QuietContract ==
  ASSUME VInv, Quiet
  PROVE  UNCHANGED Contract!contractVars
<1>1. \A k \in Jobs : Verdict(k)' = Verdict(k)
  BY DEF Verdict, Quiet
<1>2. Reported' = Reported
  BY DEF Reported, Quiet, VInv, Outcome, Deciding
<1>3. QED
  BY <1>1, <1>2, ContractStutters DEF Quiet

\* A step of verdict of one job, as the contract has it.
LEMMA SettleStep ==
  ASSUME NEW j \in Jobs, NEW from, NEW to,
         Verdict(j) = from, Verdict(j)' = to,
         \A k \in Jobs \ {j} : Verdict(k)' = Verdict(k),
         AcksSent' = AcksSent, Reported = None, Reported' = None
  PROVE  Contract!Settle(j, from, to)
<1>1. Acked = {m.job : m \in AcksSent} /\ Acked' = {m.job : m \in AcksSent'}
  BY DEF Acked, AcksSent
<1>2. [k \in Jobs |-> Verdict(k)]'
        = [[k \in Jobs |-> Verdict(k)] EXCEPT ![j] = to]
  OBVIOUS
<1>3. QED
  BY <1>1, <1>2 DEF Contract!Settle

LEMMA DecideContract ==
  ASSUME VInv, DecideResult
  PROVE  \E j \in Jobs : Contract!Decide(j)
<1> USE NoneAssumption DEF VInv, TInv, At, Goto, MainGoto
<1>1. /\ pc["main"] = "decide" /\ msg.job \in Jobs /\ jobs[msg.job] # None
      /\ ~jobs[msg.job].completed /\ ~jobs[msg.job].rejected
      /\ sent' = sent
  BY DEF DecideResult, LocalsSet, Outcome, NoVerdict
<1>2. PICK j \in Jobs : j = msg.job
  BY <1>1
<1>3. Reported = None /\ Reported' = None /\ AcksSent' = AcksSent
  BY <1>1 DEF DecideResult, Accept, Reject, AfterMessage, Reported, AcksSent,
              TypeOK, Threads
<1>4. Verdict(j) = "open"
  BY <1>1, <1>2 DEF Verdict
<1>5. CASE Accept(msg)
  <2>1. /\ jobs'[j] # None /\ jobs'[j].completed
        /\ \A k \in Jobs \ {j} : jobs'[k] = jobs[k]
    BY <1>1, <1>2, <1>5, CompletedEffect DEF Accept, TypeOK
  <2>2. Verdict(j)' = "accepted" /\ \A k \in Jobs \ {j} : Verdict(k)' = Verdict(k)
    BY <2>1 DEF Verdict
  <2>3. Contract!Settle(j, "open", "accepted")
    BY <1>3, <1>4, <2>2, SettleStep
  <2>4. QED
    BY <2>3 DEF Contract!Decide
<1>6. ASSUME NEW reason, Reject(msg, reason) PROVE \E k \in Jobs : Contract!Decide(k)
  <2>1. jobs' = [jobs EXCEPT ![j].rejected = TRUE]
    BY <1>1, <1>2, <1>6 DEF Reject
  <2>2. /\ jobs'[j] # None /\ ~jobs'[j].completed
        /\ \A k \in Jobs \ {j} : jobs'[k] = jobs[k]
    BY <1>1, <1>2, <2>1, RejectedEffect DEF TypeOK
  <2>3. jobs'[j].rejected
    BY <1>1, <1>2, <2>1 DEF TypeOK, JobRecord
  <2>4. Verdict(j)' = "refused" /\ \A k \in Jobs \ {j} : Verdict(k)' = Verdict(k)
    BY <2>2, <2>3 DEF Verdict
  <2>5. Contract!Settle(j, "open", "refused")
    BY <1>3, <1>4, <2>4, SettleStep
  <2>6. QED
    BY <2>5 DEF Contract!Decide
<1>7. QED
  BY <1>5, <1>6 DEF DecideResult

LEMMA AckContract ==
  ASSUME VInv, AckResult
  PROVE  \E j \in Jobs : Contract!Acknowledge(j)
<1> USE NoneAssumption DEF VInv, TInv, At, Goto, MainGoto
<1>1. /\ pc["main"] = "ack_result" /\ msg.job \in Jobs
      /\ AcceptedAs(msg.job)
  BY DEF AckResult, LocalsSet, Outcome
<1>2. PICK j \in Jobs : j = msg.job
  BY <1>1
<1>3. Reported = None /\ Reported' = None
  BY <1>1 DEF AckResult, AfterMessage, Reported, TypeOK, Threads
<1>4. Verdict(j) = "accepted"
  BY <1>1, <1>2, VerdictCases
<1>5. /\ jobs'[j] # None
      /\ jobs'[j].completed = jobs[j].completed
      /\ jobs'[j].rejected = jobs[j].rejected
      /\ \A k \in Jobs \ {j} : jobs'[k] = jobs[k]
  <2>1. jobs[j] # None /\ jobs' = [jobs EXCEPT ![j].ack = TRUE]
    BY <1>1, <1>2 DEF AckResult, AcceptedAs
  <2>2. QED
    BY <2>1, AckEffect DEF TypeOK
<1>6. \A k \in Jobs : Verdict(k)' = Verdict(k)
  BY <1>1, <1>2, <1>5 DEF Verdict, AcceptedAs
<1>7. [k \in Jobs |-> Verdict(k)]' = [k \in Jobs |-> Verdict(k)]
  BY <1>6
<1>8. PICK a : a.type = "RESULT_ACK" /\ a.job = j /\ sent' = sent \union {a}
  BY <1>2 DEF AckResult, Send, Msg
<1>9. Acked' = Acked \union {j}
  <2>1. AcksSent' = AcksSent \union {a}
    BY <1>8 DEF AcksSent
  <2>2. Acked = {m.job : m \in AcksSent} /\ Acked' = {m.job : m \in AcksSent'}
    BY DEF Acked, AcksSent
  <2>3. QED
    BY <1>8, <2>1, <2>2
<1>10. Contract!Acknowledge(j)
  BY <1>3, <1>4, <1>7, <1>9 DEF Contract!Acknowledge
<1>11. QED
  BY <1>10

LEMMA AssignContract ==
  ASSUME VInv, NEW j \in Jobs, Assign(j)
  PROVE  Contract!Open(j)
<1> USE NoneAssumption DEF VInv, TInv, At, Goto, MainGoto
<1>1. /\ pc["main"] = "assign" /\ pc'["main"] = "send_job" /\ sent' = sent
      /\ worker \in Sessions
  BY DEF Assign, LocalsSet, TypeOK, Threads
<1>2. \A k \in Jobs : jobs[k] = None
  BY <1>1 DEF OpenedOnce, DispatchOnce
<1>3. \A k \in Jobs : Verdict(k) = "none"
  BY <1>2 DEF Verdict
<1>4. /\ jobs'[j] = [session |-> worker, completed |-> FALSE,
                     rejected |-> FALSE, ack |-> FALSE]
      /\ \A k \in Jobs \ {j} : jobs'[k] = jobs[k]
  BY DEF Assign, TypeOK
<1>5. jobs'[j] # None /\ ~jobs'[j].completed /\ ~jobs'[j].rejected
  <2>1. jobs'[j] \in JobRecord
    BY <1>1, <1>4 DEF JobRecord
  <2>2. jobs'[j] # None
    BY <2>1
  <2>3. ~jobs'[j].completed /\ ~jobs'[j].rejected
    BY <1>4
  <2>4. QED
    BY <2>2, <2>3
<1>6. Verdict(j)' = "open" /\ \A k \in Jobs \ {j} : Verdict(k)' = Verdict(k)
  BY <1>4, <1>5 DEF Verdict
<1>7. Reported = None /\ Reported' = None /\ AcksSent' = AcksSent
  BY <1>1 DEF Reported, AcksSent
<1>8. Contract!Settle(j, "none", "open")
  BY <1>3, <1>6, <1>7, SettleStep
<1>9. QED
  BY <1>3, <1>8 DEF Contract!Open

LEMMA FinalizeContract ==
  ASSUME VInv, Finalize
  PROVE  Contract!Report
<1> USE DEF VInv, TInv, At, Goto, MainGoto
<1>1. /\ pc["main"] \in {"loop", "grace"} /\ pc'["main"] = "done"
      /\ UNCHANGED <<jobs, sent>>
      /\ stats'.transport_case = FinalCase
  BY DEF Finalize, TypeOK, BrokerStats, Threads
<1>2. /\ AckedIfAccepted
      /\ stats.raw_message_received => result_handled
      /\ ~stats.raw_message_received => NoVerdict
  BY <1>1 DEF Outcome, Deciding
<1>3. /\ [k \in Jobs |-> Verdict(k)]' = [k \in Jobs |-> Verdict(k)]
      /\ Acked' = Acked
      /\ Reported = None /\ Reported' = FinalCase
  BY <1>1 DEF Verdict, Acked, Reported
<1>4. CASE NoVerdict
  <2>1. FinalCase = "INCONCLUSIVE"
    BY <1>2, <1>4 DEF NoVerdict, FinalCase
  <2>2. \A k \in Jobs : Verdict(k) \in {"none", "open"}
    BY <1>4, VerdictCases
  <2>3. QED
    BY <1>3, <2>1, <2>2 DEF Contract!Report, Contract!Has
<1>5. ASSUME NEW j \in Jobs, AcceptedAs(j) PROVE Contract!Report
  <2>1. FinalCase = "SUCCESS" /\ AcksSent # {}
    BY <1>2, <1>5 DEF AcceptedAs, AckedIfAccepted, FinalCase, NoVerdict
  <2>2. /\ Verdict(j) = "accepted" /\ Acked = {j}
        /\ \A k \in Jobs \ {j} : Verdict(k) \in {"none", "open"}
    BY <1>5, <2>1, VerdictCases
  <2>3. QED
    BY <1>3, <2>1, <2>2 DEF Contract!Report, Contract!Has
<1>6. ASSUME NEW j \in Jobs, RefusedAs(j) PROVE Contract!Report
  <2>1. FinalCase = "CASE2_RECV_REJECTED"
    BY <1>2, <1>6 DEF RefusedAs, FinalCase, NoVerdict
  <2>2. /\ Verdict(j) = "refused"
        /\ \A k \in Jobs : Verdict(k) # "accepted"
    BY <1>6, VerdictCases
  <2>3. QED
    BY <1>3, <2>1, <2>2 DEF Contract!Report, Contract!Has
<1>7. QED
  BY <1>4, <1>5, <1>6 DEF Outcome

LEMMA ArrivalContract ==
  ASSUME VInv, NEW d \in JobsSent, NEW s \in Sessions, NEW r \in Routes,
         ResultArrives(d, s, r)
  PROVE  UNCHANGED Contract!contractVars
<1>1. /\ pc["main"] \in {"loop", "grace"} /\ pc'["main"] = "decide"
      /\ UNCHANGED <<jobs, sent>>
  BY DEF ResultArrives, HandleResult, Receiving, At, Goto, MainGoto, VInv,
         TInv, TypeOK, Threads
<1>2. QED
  BY <1>1, ContractStutters DEF Verdict, AcksSent, Reported

\* Whatever its two threads, its peers and the clock do, the broker keeps to the
\* contract: one job at most, one verdict, an ack after an acceptance only, and a
\* report once nothing more can happen to the job.
THEOREM KeepsContractHolds == Spec => KeepsContract
<1>1. Init => Contract!ContractInit
  BY InitContract
<1>2. VInv /\ [Next]_vars => [Contract!ContractNext]_(Contract!contractVars)
  <2> SUFFICES ASSUME VInv, [Next]_vars
               PROVE  Contract!ContractNext \/ UNCHANGED Contract!contractVars
    OBVIOUS
  <2>1. Quiet \/ VerdictStep
    BY StepKinds DEF VInv
  <2>2. CASE Quiet
    BY <2>2, QuietContract
  <2>3. CASE Finalize
    BY <2>3, FinalizeContract DEF Contract!ContractNext
  <2>4. CASE DecideResult
    BY <2>4, DecideContract DEF Contract!ContractNext
  <2>5. CASE AckResult
    BY <2>5, AckContract DEF Contract!ContractNext
  <2>6. ASSUME NEW j \in Jobs, Assign(j) PROVE Contract!ContractNext
    BY <2>6, AssignContract DEF Contract!ContractNext
  <2>7. ASSUME NEW d \in JobsSent, NEW s \in Sessions, NEW r \in Routes,
               ResultArrives(d, s, r)
        PROVE  UNCHANGED Contract!contractVars
    BY <2>7, ArrivalContract
  <2>8. QED
    BY <2>1, <2>2, <2>3, <2>4, <2>5, <2>6, <2>7 DEF VerdictStep
<1>3. QED
  BY <1>1, <1>2, Invariance, PTL DEF Spec, KeepsContract, Contract!ContractSpec


-----------------------------------------------------------------------------
(* A worker that holds a job holds an open one.                            *)

\* All sessions of a worker have one routing id: it has a ZMQ identity.
KeepsRoute ==
  \A s, e \in Sessions : \A r \in RoutesOf[s], q \in RoutesOf[e] :
    WorkerOf[s] = WorkerOf[e] => r = q

\* The record found for the RESULT is the one its job was sent to, unless that
\* one has left the registry.
AnswererFound ==
  Registered(jobs[msg.job].session) => worker = jobs[msg.job].session

\* The strict policy looks for the job in the record it found, job-id relies on
\* the routing id the RESULT came on.
BusyInv ==
  /\ \A r \in Routes : workers[r] # None => r \in RoutesOf[workers[r]]
  /\ \A s \in Sessions : rec[s].state = "BUSY" => rec[s].job # None
  /\ \A s \in Sessions :
       Registered(s) /\ rec[s].state = "BUSY" /\ jobs[rec[s].job].completed
         => pc["main"] = "settle"
  /\ pc["main"] = "settle" => AnswererFound
  /\ pc["main"] = "decide" /\ Policy = "job-id" => AnswererFound
  /\ Mode = "run_forever" =>
       /\ pc["main"] \notin {"dispatch", "assign"}
       /\ \A j \in Jobs : jobs[j] = None

LEMMA InitBusyInv == Init => BusyInv
BY DEF Init, BusyInv, Registered, Threads

\* A record becomes BUSY with a new job only.
LEMMA BusySteps ==
  ASSUME TInv, [Next]_vars, NEW s \in Sessions, rec'[s].state = "BUSY"
  PROVE  \/ rec[s].state = "BUSY" /\ rec'[s].job = rec[s].job
         \/ \E j \in Jobs : Assign(j) /\ rec'[s].job = j
<1> USE NoneAssumption DEF TInv, registry, locals
<1>a. TypeOK /\ RecordsExist /\ LocalsSet
  OBVIOUS
<1>1. CASE \/ Transition(msg.session, "READY") \/ rec' = rec
           \/ \E t \in Threads : \/ Transition(cur[t], "EXPIRED")
                                 \/ Transition(cur[t], "REMOVED")
           \/ \E e \in Sessions : Transition(e, "READY")
  <2>1. ASSUME NEW e, NEW to \in {"READY", "EXPIRED", "REMOVED"}, Transition(e, to)
        PROVE  rec[s].state = "BUSY" /\ rec'[s].job = rec[s].job
    BY <2>1 DEF Transition, TypeOK, WorkerRecord
  <2>2. QED
    BY <1>1, <2>1
<1>2. CASE SettleWorker
  <2>1. CASE worker = None
    BY <1>2, <2>1 DEF SettleWorker
  <2>2. CASE worker # None
    <3>1. /\ worker \in Sessions
          /\ rec' = [rec EXCEPT ![worker].state = "READY", ![worker].job = None]
      BY <1>2, <2>2 DEF SettleWorker, FreeWorker, TypeOK
    <3>2. /\ rec'[worker].state = "READY"
          /\ \A x \in Sessions \ {worker} : rec'[x] = rec[x]
      BY <3>1 DEF TypeOK, WorkerRecord
    <3>3. QED
      BY <3>2
  <2>3. QED
    BY <2>1, <2>2
<1>3. ASSUME NEW j \in Jobs, Assign(j)
      PROVE  \/ rec[s].state = "BUSY" /\ rec'[s].job = rec[s].job
             \/ \E k \in Jobs : Assign(k) /\ rec'[s].job = k
  <2>1. worker \in Sessions /\ Known(worker)
    BY <1>3 DEF Assign, At, LocalsSet, TypeOK, RecordsExist
  <2>a. rec' = [rec EXCEPT ![worker].state = "BUSY", ![worker].job = j]
    BY <1>3 DEF Assign
  <2>b. rec \in [Sessions -> WorkerRecord]
    BY <1>a DEF TypeOK
  <2>2. /\ rec'[worker].job = j
        /\ \A x \in Sessions \ {worker} : rec'[x] = rec[x]
    <3>1. \A x \in Sessions \ {worker} : rec'[x] = rec[x]
      BY ONLY <2>1, <2>a, <2>b
    <3>2. rec[worker] \in WorkerRecord
          /\ rec'[worker] = [rec[worker] EXCEPT !.state = "BUSY", !.job = j]
      BY ONLY <2>1, <2>a, <2>b
    <3>3. rec'[worker].job = j
      BY ONLY <3>2 DEF WorkerRecord
    <3>4. QED
      BY <3>1, <3>3
  <2>3. QED
    BY <1>3, <2>2
<1>4. CASE MainThread
  BY <1>1, <1>2, <1>3, <1>4
     DEF MainThread, StartExpiry, Expire, Scan, Mark, Remove, DeleteRoute,
         CheckId, DeleteId, EndExpiry, PollTimeout, EnterGrace, Finalize,
         Shutdown, RegisterId, AckReady, Refresh, DecideResult, AckResult,
         PickWorker, NothingToDispatch, SendJob, Threads
<1>5. CASE HeartbeatLoop
  BY <1>1, <1>5
     DEF HeartbeatLoop, Wake, SendBeat, Rest, Expire, Scan, Mark, Remove,
         DeleteRoute, CheckId, DeleteId, EndExpiry, Threads
<1>6. ASSUME NEW e \in Sessions, NEW r \in Routes, ReadyArrives(e, r)
      PROVE  rec[s].state = "BUSY" /\ rec'[s].job = rec[s].job
  <2>1. rec'[e].state \in {"READY", "RECONNECTED"}
    BY <1>6 DEF ReadyArrives, HandleReady, Msg, TypeOK
  <2>2. \A x \in Sessions \ {e} : rec'[x] = rec[x]
    BY <1>6, ReadyRegistry
  <2>3. QED
    BY <2>1, <2>2
<1>7. CASE Arrival
  BY <1>1, <1>6, <1>7
     DEF Arrival, HeartbeatArrives, HandleHeartbeat, ResultArrives, HandleResult
<1>8. CASE Passage \/ UNCHANGED vars
  BY <1>1, <1>8 DEF Passage, Lapse, DeadlinePasses, Interrupt, vars
<1>9. QED
  BY <1>4, <1>5, <1>7, <1>8 DEF Next

\* Only READY registers a session, one whose record it makes.
LEMMA Registrations ==
  ASSUME TInv, [Next]_vars
  PROVE  \/ \E s \in Sessions, r \in Routes : ReadyArrives(s, r)
         \/ \A r \in Routes : workers'[r] \in {workers[r], None}
<1>1. CASE Passive
  BY <1>1 DEF Passive
<1>2. ASSUME NEW t \in Threads, Mark(t) \/ DeleteRoute(t) \/ DeleteId(t)
      PROVE  \A r \in Routes : workers'[r] \in {workers[r], None}
  BY <1>2 DEF Mark, DeleteRoute, DeleteId, TInv, TypeOK
<1>3. QED
  BY <1>1, <1>2, RegistrySteps DEF RegistryStep

\* How the main thread comes to a decision and leaves it.
LEMMA DecisionSteps ==
  ASSUME TInv, [Next]_vars
  PROVE  /\ pc'["main"] = "decide" =>
              \/ pc["main"] = "decide" /\ UNCHANGED <<msg, worker>>
              \/ \E d \in JobsSent, s \in Sessions, r \in Routes :
                   ResultArrives(d, s, r)
         /\ pc'["main"] = "settle" =>
              \/ pc["main"] = "settle" /\ UNCHANGED <<msg, worker>>
              \/ /\ pc["main"] = "decide" /\ UNCHANGED <<msg, worker>>
                 /\ RejectReason(worker, msg) = None /\ rec' = rec
         /\ pc["main"] = "settle" =>
              pc'["main"] = "settle" \/ SettleWorker \/ Mode = "run_forever"
         /\ Mode = "run_forever" /\ pc'["main"] \in {"dispatch", "assign"} =>
              pc["main"] \in {"dispatch", "assign"}
<1> USE DEF At, Goto, MainGoto, TInv, TypeOK, Threads, locals, control
<1>1. CASE MainThread
  <2>1. CASE Expire("main")
    BY <2>1
       DEF Expire, Scan, Mark, Remove, DeleteRoute, CheckId, DeleteId,
           EndExpiry
  <2>2. CASE DecideResult
    BY <2>2 DEF DecideResult, Accept, Reject, AfterMessage, registry
  <2>3. CASE Shutdown \/ SettleWorker
    BY <2>3 DEF Shutdown, SettleWorker
  <2>4. CASE ~(Expire("main") \/ DecideResult \/ Shutdown \/ SettleWorker)
    BY <1>1, <2>4
       DEF MainThread, StartExpiry, PollTimeout, EnterGrace, Finalize,
           RegisterId, AckReady, Refresh, AckResult, PickWorker,
           NothingToDispatch, Assign, SendJob, AfterMessage
  <2>5. QED
    BY <2>1, <2>2, <2>3, <2>4
<1>2. CASE HeartbeatLoop
  BY <1>2
     DEF HeartbeatLoop, Wake, SendBeat, Rest, Expire, Scan, Mark, Remove,
         DeleteRoute, CheckId, DeleteId, EndExpiry
<1>3. CASE Arrival
  <2>1. ASSUME NEW s \in Sessions, NEW r \in Routes, ReadyArrives(s, r)
        PROVE  pc["main"] \in {"loop", "grace"} /\ pc'["main"] = "register"
    BY <2>1, ReadyRegistry
  <2>2. ASSUME NEW r \in Routes, HeartbeatArrives(r)
        PROVE  /\ pc["main"] \in {"loop", "grace"}
               /\ pc'["main"] \in {"refresh", AfterMessage}
    BY <2>2 DEF HeartbeatArrives, HandleHeartbeat, Receiving
  <2>3. AfterMessage \notin {"decide", "settle"}
        /\ (Mode = "run_forever" => AfterMessage = "expire")
    BY DEF AfterMessage
  <2>4. ASSUME NEW d \in JobsSent, NEW s \in Sessions, NEW r \in Routes,
               ResultArrives(d, s, r)
        PROVE  pc["main"] \in {"loop", "grace"} /\ pc'["main"] = "decide"
    BY <2>4 DEF ResultArrives, HandleResult, Receiving
  <2>5. QED
    BY <1>3, <2>1, <2>2, <2>3, <2>4 DEF Arrival
<1>4. CASE Passage \/ UNCHANGED vars
  BY <1>4 DEF Passage, Lapse, DeadlinePasses, Interrupt, vars
<1>5. QED
  BY <1>1, <1>2, <1>3, <1>4 DEF Next


\* The record the RESULT is looked up under.
LEMMA AnswererSteps ==
  ASSUME VInv, JobLink, BusyInv, [Next]_vars, Policy = "strict" \/ KeepsRoute
  PROVE  /\ pc'["main"] = "settle" => AnswererFound'
         /\ pc'["main"] = "decide" /\ Policy = "job-id" => AnswererFound'
<1> USE DEF VInv, TInv
<1>1. SUFFICES ASSUME \/ pc'["main"] = "settle"
                      \/ pc'["main"] = "decide" /\ Policy = "job-id"
               PROVE  AnswererFound'
  OBVIOUS
<1>2. CASE pc["main"] \in {"decide", "settle"} /\ UNCHANGED <<msg, worker>>
  <2>1. msg.job \in Jobs /\ jobs[msg.job] # None
    BY <1>2 DEF LocalsSet, Outcome, AcceptedAs
  <2>2. jobs'[msg.job].session = jobs[msg.job].session
    BY <2>1, SessionKept
  <2>3. \A r \in Routes : workers'[r] \in {workers[r], None}
    BY <1>2, Registrations, ReadyRegistry
  <2>4. jobs[msg.job].session # None
    BY <2>1, NoneAssumption DEF TypeOK, JobRecord
  <2>5. Registered(jobs[msg.job].session)' => Registered(jobs[msg.job].session)
    BY <1>2, <2>2, <2>3, <2>4 DEF Registered
  <2>6. AnswererFound
    <3>1. CASE pc["main"] = "settle" \/ Policy = "job-id"
      BY <1>2, <3>1 DEF BusyInv
    <3>2. CASE pc["main"] = "decide" /\ Policy # "job-id"
      <4>1. RejectReason(worker, msg) = None
        BY <1>1, <3>2, DecisionSteps
      <4>2. worker # None /\ rec[worker].job = msg.job
        BY <3>2, <4>1, NoneAssumption
           DEF RejectReason, StrictReason, RejectReasons
      <4>3. worker \in Sessions /\ rec[worker].job # None
        BY <2>1, <4>2, NoneAssumption DEF TypeOK
      <4>4. QED
        BY <4>2, <4>3 DEF JobLink, AnswererFound
    <3>3. QED
      BY <1>2, <3>1, <3>2
  <2>7. QED
    BY <1>2, <2>2, <2>5, <2>6 DEF AnswererFound
<1>3. ASSUME NEW d \in JobsSent, NEW s \in Sessions, NEW r \in Routes,
             ResultArrives(d, s, r), Policy = "job-id"
      PROVE  AnswererFound'
  <2>1. KeepsRoute
    BY <1>3
  <2>2. /\ msg'.job = d.job /\ worker' = workers[r] /\ jobs' = jobs
        /\ workers' = workers
    BY <1>3 DEF ResultArrives, HandleResult, Msg, registry
  <2>3. jobs[d.job] # None /\ jobs[d.job].session = d.session
    BY DEF DispatchOnce, OneDispatch
  <2>4. d.session \in Sessions
    BY <2>3 DEF LocalsSet, TypeOK, JobRecord
  <2>5. ASSUME NEW q \in Routes, workers[q] = d.session
        PROVE  q = r
    <3>1. q \in RoutesOf[d.session]
      BY <2>4, <2>5, NoneAssumption DEF BusyInv
    <3>2. r \in RoutesOf[s] /\ WorkerOf[s] = WorkerOf[d.session]
      BY <1>3 DEF ResultArrives
    <3>3. QED
      BY <2>1, <2>4, <3>1, <3>2 DEF KeepsRoute
  <2>6. QED
    BY <2>2, <2>3, <2>5 DEF AnswererFound, Registered
<1>4. QED
  BY <1>1, <1>2, <1>3, DecisionSteps, ConfigAssumption

\* A record that is BUSY with a completed job is the one about to be freed.
LEMMA NextBusyInv ==
  ASSUME VInv, JobLink, BusyInv, [Next]_vars, Policy = "strict" \/ KeepsRoute
  PROVE  BusyInv'
<1> USE DEF VInv, TInv
<1>1. \A r \in Routes : workers'[r] # None => r \in RoutesOf[workers'[r]]
  <2>1. ASSUME NEW e \in Sessions, NEW q \in Routes, ReadyArrives(e, q)
        PROVE  \A r \in Routes : workers'[r] # None => r \in RoutesOf[workers'[r]]
    <3>1. q \in RoutesOf[e] /\ workers' = [workers EXCEPT ![q] = e]
      BY <2>1, ReadyRegistry
    <3>2. QED
      BY <3>1 DEF TypeOK, BusyInv
  <2>2. QED
    BY <2>1, Registrations DEF BusyInv
<1>2. ASSUME NEW s \in Sessions, rec'[s].state = "BUSY"
      PROVE  rec'[s].job # None
  BY <1>2, BusySteps, NoneAssumption DEF BusyInv
<1>3. ASSUME NEW s \in Sessions, Registered(s)', rec'[s].state = "BUSY",
             jobs'[rec'[s].job].completed
      PROVE  pc'["main"] = "settle"
  <2>1. ASSUME NEW j \in Jobs, Assign(j), rec'[s].job = j PROVE FALSE
    BY <1>3, <2>1 DEF Assign, TypeOK
  <2>2. rec[s].state = "BUSY" /\ rec'[s].job = rec[s].job
    BY <1>3, <2>1, BusySteps
  <2>3. PICK j \in Jobs : j = rec[s].job
    BY <2>2 DEF BusyInv, TypeOK, WorkerRecord
  <2>4. jobs[j] # None /\ jobs[j].session = s
    BY <2>2, <2>3, NoneAssumption DEF JobLink, BusyInv
  <2>5. Registered(s)
    <3>1. ~\E r \in Routes : ReadyArrives(s, r)
      BY <2>2 DEF ReadyArrives
    <3>2. ASSUME NEW e \in Sessions, NEW q \in Routes, ReadyArrives(e, q)
          PROVE  Registered(s)
      <4>1. workers' = [workers EXCEPT ![q] = e] /\ e # s
        BY <3>1, <3>2, ReadyRegistry
      <4>2. QED
        BY <1>3, <4>1 DEF Registered, TypeOK
    <3>3. QED
      BY <1>3, <3>2, Registrations, NoneAssumption DEF Registered
  <2>6. CASE jobs[j].completed
    <3>1. pc["main"] = "settle"
      BY <2>2, <2>3, <2>5, <2>6 DEF BusyInv
    <3>2. AcceptedAs(msg.job) /\ AnswererFound
      BY <3>1 DEF Outcome, BusyInv
    <3>3. j = msg.job /\ worker = s
      BY <2>4, <2>5, <2>6, <3>2 DEF AcceptedAs, AnswererFound
    <3>4. Mode # "run_forever"
      BY <2>4 DEF BusyInv
    <3>5. ~SettleWorker
      <4>1. SUFFICES ASSUME rec' = [rec EXCEPT ![s].state = "READY",
                                               ![s].job = None]
                     PROVE  FALSE
        BY <3>3, NoneAssumption DEF SettleWorker, FreeWorker
      <4>2. rec'[s].state = "READY"
        BY <4>1 DEF TypeOK, WorkerRecord
      <4>3. QED
        BY <1>3, <4>2
    <3>6. QED
      BY <3>1, <3>4, <3>5, DecisionSteps
  <2>7. CASE ~jobs[j].completed
    <3>1. jobs'[j].completed
      BY <1>3, <2>2, <2>3
    <3>2. ASSUME NEW k \in Jobs, Assign(k) PROVE FALSE
      BY <2>4, <2>7, <3>1, <3>2 DEF Assign, TypeOK
    <3>3. CASE AckResult
      <4>1. msg.job \in Jobs /\ jobs[msg.job] # None
        BY <3>3 DEF AckResult, At, LocalsSet, Outcome, AcceptedAs
      <4>2. QED
        BY <2>7, <3>1, <3>3, <4>1, AckEffect DEF AckResult, TypeOK
    <3>4. CASE DecideResult
      <4>1. msg.job \in Jobs /\ jobs[msg.job] # None
        BY <3>4 DEF DecideResult, At, LocalsSet, Outcome
      <4>2. ASSUME NEW reason, Reject(msg, reason) PROVE FALSE
        BY <2>7, <3>1, <4>1, <4>2, RejectedEffect DEF Reject, TypeOK
      <4>3. Accept(msg)
        BY <3>4, <4>2 DEF DecideResult
      <4>4. QED
        BY <4>3 DEF Accept, MainGoto, Goto, TypeOK, Threads
    <3>5. QED
      BY <2>7, <3>1, <3>2, <3>3, <3>4, JobSteps
  <2>8. QED
    BY <2>6, <2>7
<1>4. /\ pc'["main"] = "settle" => AnswererFound'
      /\ pc'["main"] = "decide" /\ Policy = "job-id" => AnswererFound'
  BY AnswererSteps
<1>5. ASSUME Mode = "run_forever"
      PROVE  /\ pc'["main"] \notin {"dispatch", "assign"}
             /\ \A j \in Jobs : jobs'[j] = None
  <2>1. pc'["main"] \notin {"dispatch", "assign"}
    BY <1>5, DecisionSteps DEF BusyInv
  <2>2. ~\E j \in Jobs : Assign(j)
    BY <1>5 DEF BusyInv, Assign, At
  <2>3. CASE DecideResult \/ AckResult
    <3>1. msg.job \in Jobs /\ jobs[msg.job] # None
      BY <2>3 DEF DecideResult, AckResult, At, LocalsSet, Outcome, AcceptedAs
    <3>2. QED
      BY <1>5, <3>1 DEF BusyInv
  <2>4. QED
    BY <1>5, <2>1, <2>2, <2>3, JobSteps DEF BusyInv
<1>6. QED
  BY <1>1, <1>2, <1>3, <1>4, <1>5 DEF BusyInv

\* The verdict on a job frees its worker: a registered record that is BUSY holds
\* the job it was sent, and that job is open.  Under job-id a worker needs a
\* routing id of its own for that, since its RESULT is not looked up by job.
THEOREM BusyHoldsOpenJobHolds ==
  ASSUME Policy = "strict" \/ KeepsRoute
  PROVE  Spec => []BusyHoldsOpenJob
<1> DEFINE Inv == VInv /\ JobLink /\ BusyInv
<1>1. Init => Inv
  BY InitVInv, InitJobLink, InitBusyInv
<1>2. Inv /\ [Next]_vars => Inv'
  BY VInvStep, JobLinkStep, NextBusyInv DEF VInv
<1>3. Inv => BusyHoldsOpenJob
  BY NoneAssumption DEF Inv, BusyInv, JobLink, BusyHoldsOpenJob
<1>4. QED
  BY <1>1, <1>2, <1>3, PTL DEF Spec
=============================================================================
