---------------------------- MODULE BrokerProofs ----------------------------
(***************************************************************************)
(* Proofs about Broker for every set of sessions, routing ids, workers and *)
(* jobs, every assignment of them, both policies and both entry points.    *)
(***************************************************************************)
EXTENDS Broker, TLAPS

-----------------------------------------------------------------------------
(* The inductive invariant.  TypeOK alone is not inductive: that a handler *)
(* finds what it needs in its locals depends on the place it is at, and    *)
(* that a routing id can be sent to depends on its record having been      *)
(* created.                                                                *)

Known(s) == rec[s].state # "UNKNOWN"

Expiring == ExpiryPlaces \ {"scan"}

\* Every session that a dictionary, a snapshot or a local leads to has a record.
RecordsExist ==
  /\ \A s \in Sessions : Known(s) => rec[s].route \in Routes
  /\ \A r \in Routes : workers[r] # None => Known(workers[r])
  /\ \A t \in Threads : \A s \in todo[t] : Known(s)
  /\ \A t \in Threads : cur[t] # None => Known(cur[t])
  /\ worker # None => Known(worker)

\* The locals a place of the code relies on are set when it is reached.
LocalsSet ==
  /\ \A t \in Threads : pc[t] \in Expiring => cur[t] # None
  /\ pc["main"] \in {"refresh", "assign", "send_job"} => worker # None
  /\ pc["main"] \in {"register", "ack_ready", "decide", "settle", "ack_result"}
       => msg # None
  /\ pc["main"] = "register" => Known(msg.session)
  /\ pc["main"] \in {"decide", "settle", "ack_result"} => msg.job \in Jobs
  /\ \A m \in JobsSent : m.job \in Jobs
  /\ pc["main"] = "send_job" => stats.job_id \in Jobs

TInv == TypeOK /\ RecordsExist /\ LocalsSet

-----------------------------------------------------------------------------
LEMMA InitTInv == Init => TInv
<1> SUFFICES ASSUME Init PROVE TInv
  OBVIOUS
<1> USE NoneAssumption DEF Init, Threads
<1>1. TypeOK
  <2>1. rec \in [Sessions -> WorkerRecord]
    BY DEF WorkerRecord, WorkerStates
  <2>2. stats \in BrokerStats
    BY DEF BrokerStats, TransportCases
  <2>3. changes \in [routing : Nat, session : Nat]
    OBVIOUS
  <2>4. expired_workers \in Seq(Sessions)
    OBVIOUS
  <2>5. QED
    BY <2>1, <2>2, <2>3, <2>4
       DEF TypeOK, MainPlaces, ExpiryPlaces, HeartbeatPlaces
<1>2. RecordsExist
  BY DEF RecordsExist, Known
<1>3. LocalsSet
  BY DEF LocalsSet, Expiring, ExpiryPlaces, JobsSent
<1>4. QED
  BY <1>1, <1>2, <1>3 DEF TInv

\* A transition keeps a record's route and job.
LEMMA TransitionEffect ==
  ASSUME rec \in [Sessions -> WorkerRecord],
         NEW s \in Sessions, Known(s),
         NEW to \in WorkerStates \ {"UNKNOWN"},
         Transition(s, to)
  PROVE  /\ rec' \in [Sessions -> WorkerRecord]
         /\ \A x \in Sessions : /\ rec'[x].route = rec[x].route
                                /\ rec'[x].job = rec[x].job
                                /\ Known(x) <=> Known(x)'
BY DEF Transition, WorkerRecord, Known

\* The two assignments to a record, of its state and of its job.
LEMMA AssignmentEffect ==
  ASSUME rec \in [Sessions -> WorkerRecord],
         NEW s \in Sessions, Known(s),
         NEW to \in WorkerStates \ {"UNKNOWN"}, NEW j \in Jobs \union {None},
         rec' = [rec EXCEPT ![s].state = to, ![s].job = j]
  PROVE  /\ rec' \in [Sessions -> WorkerRecord]
         /\ \A x \in Sessions : /\ rec'[x].route = rec[x].route
                                /\ Known(x) <=> Known(x)'
         /\ rec'[s].job = j
         /\ \A x \in Sessions \ {s} : rec'[x] = rec[x]
<1>1. rec[s] \in WorkerRecord
  OBVIOUS
<1>2. rec'[s] = [rec[s] EXCEPT !.state = to, !.job = j]
  OBVIOUS
<1>3. rec'[s] \in WorkerRecord /\ rec'[s].route = rec[s].route
      /\ rec'[s].state = to /\ rec'[s].job = j
  BY <1>1, <1>2 DEF WorkerRecord
<1>4. \A x \in Sessions \ {s} : rec'[x] = rec[x]
  OBVIOUS
<1>5. rec' \in [Sessions -> WorkerRecord]
  BY <1>3, <1>4
<1>6. QED
  BY <1>3, <1>4, <1>5 DEF Known

\* Setting a flag of a job record.
LEMMA JobUpdate ==
  ASSUME jobs \in [Jobs -> JobRecord \union {None}],
         NEW j \in Jobs, jobs[j] # None
  PROVE  /\ [jobs EXCEPT ![j].completed = TRUE]
              \in [Jobs -> JobRecord \union {None}]
         /\ [jobs EXCEPT ![j].rejected = TRUE]
              \in [Jobs -> JobRecord \union {None}]
         /\ [jobs EXCEPT ![j].ack = TRUE] \in [Jobs -> JobRecord \union {None}]
<1>1. jobs[j] \in JobRecord
  OBVIOUS
<1>2. /\ [jobs[j] EXCEPT !.completed = TRUE] \in JobRecord
      /\ [jobs[j] EXCEPT !.rejected = TRUE] \in JobRecord
      /\ [jobs[j] EXCEPT !.ack = TRUE] \in JobRecord
  BY <1>1 DEF JobRecord
<1>3. QED
  BY <1>2

\* A snapshot of the registry holds records that exist.
LEMMA SnapshotEffect ==
  ASSUME TypeOK, RecordsExist, NEW t \in Threads, Snapshot(t)
  PROVE  /\ todo' \in [Threads -> SUBSET Sessions]
         /\ \A x \in Threads : \A s \in todo'[x] : Known(s)
         /\ cur' = cur
<1> DEFINE S == {s \in Sessions : Registered(s)}
<1>1. \A s \in S : Known(s)
  BY NoneAssumption DEF RecordsExist, Registered, TypeOK
<1>2. todo' = [todo EXCEPT ![t] = S] /\ cur' = cur
  BY DEF Snapshot
<1>3. S \subseteq Sessions
  OBVIOUS
<1> HIDE DEF S
<1>4. QED
  BY <1>1, <1>2, <1>3 DEF RecordsExist, TypeOK

\* No step but _handle_ready makes records, and none unmakes them.
LEMMA RecordsKept ==
  ASSUME TypeOK, RecordsExist,
         \A x \in Sessions : /\ rec'[x].route = rec[x].route
                             /\ Known(x) <=> Known(x)',
         \A r \in Routes : workers'[r] \in {workers[r], None},
         \A t \in Threads : \A s \in todo'[t] : s \in Sessions /\ Known(s),
         \A t \in Threads : cur'[t] # None
           => cur'[t] \in Sessions /\ Known(cur'[t]),
         worker' # None => worker' \in Sessions /\ Known(worker')
  PROVE  RecordsExist'
BY DEF TypeOK, RecordsExist, Known

LEMMA ExpireTInv ==
  ASSUME TInv, NEW t \in Threads, Expire(t)
  PROVE  TInv'
<1> USE NoneAssumption, PeerAssumption DEF TInv, registry, locals, At, Goto
<1>a. TypeOK /\ RecordsExist /\ LocalsSet
  OBVIOUS
<1>1. ASSUME NEW s \in Sessions, Scan(t, s) PROVE TInv'
  <2>1. TypeOK'
    BY <1>1 DEF Scan, Threads, TypeOK, MainPlaces, ExpiryPlaces,
                HeartbeatPlaces
  <2>2. RecordsExist'
    BY <1>1 DEF Scan, TypeOK, RecordsExist, Known
  <2>3. LocalsSet'
    BY <1>1 DEF Scan, Threads, TypeOK, LocalsSet, Expiring, ExpiryPlaces,
                JobsSent, Known
  <2>4. QED
    BY <2>1, <2>2, <2>3
<1>2. CASE Mark(t)
  <2>1. cur[t] \in Sessions /\ Known(cur[t])
    BY <1>2 DEF Mark, TypeOK, RecordsExist, LocalsSet, Expiring, ExpiryPlaces
  <2>2. /\ rec' \in [Sessions -> WorkerRecord]
        /\ \A x \in Sessions : /\ rec'[x].route = rec[x].route
                               /\ Known(x) <=> Known(x)'
    BY <1>2, <2>1, TransitionEffect DEF Mark, TypeOK, WorkerStates
  <2>3. stats' \in BrokerStats
    BY <1>2 DEF Mark, BrokerStats, TypeOK
  <2>4. expired_workers' \in Seq(Sessions)
    BY <1>2, <2>1 DEF Mark, TypeOK
  <2>5. TypeOK'
    BY <1>2, <2>2, <2>3, <2>4
       DEF Mark, Threads, TypeOK, MainPlaces, ExpiryPlaces, HeartbeatPlaces
  <2>6. RecordsExist'
    BY <1>2, <2>2, RecordsKept DEF Mark, TypeOK, RecordsExist
  <2>7. LocalsSet'
    BY <1>2, <2>2
       DEF Mark, Threads, TypeOK, Message, LocalsSet, Expiring, ExpiryPlaces,
           JobsSent
  <2>8. QED
    BY <2>5, <2>6, <2>7
<1>3. CASE Remove(t)
  <2>1. cur[t] \in Sessions /\ Known(cur[t])
    BY <1>3 DEF Remove, TypeOK, RecordsExist, LocalsSet, Expiring, ExpiryPlaces
  <2>2. /\ rec' \in [Sessions -> WorkerRecord]
        /\ \A x \in Sessions : /\ rec'[x].route = rec[x].route
                               /\ Known(x) <=> Known(x)'
    BY <1>3, <2>1, TransitionEffect DEF Remove, TypeOK, WorkerStates
  <2>3. TypeOK'
    BY <1>3, <2>2
       DEF Remove, Threads, TypeOK, MainPlaces, ExpiryPlaces, HeartbeatPlaces
  <2>4. RecordsExist'
    BY <1>3, <2>2, RecordsKept DEF Remove, TypeOK, RecordsExist
  <2>5. LocalsSet'
    BY <1>3, <2>2
       DEF Remove, Threads, TypeOK, Message, LocalsSet, Expiring,
           ExpiryPlaces, JobsSent
  <2>6. QED
    BY <2>3, <2>4, <2>5
<1>4. CASE DeleteRoute(t)
  <2>1. TypeOK'
    BY <1>4 DEF DeleteRoute, Threads, TypeOK, MainPlaces, ExpiryPlaces,
                HeartbeatPlaces
  <2>2. RecordsExist'
    BY <1>4 DEF DeleteRoute, TypeOK, RecordsExist, Known
  <2>3. LocalsSet'
    BY <1>4 DEF DeleteRoute, Threads, TypeOK, LocalsSet, Expiring,
                ExpiryPlaces, JobsSent, Known
  <2>4. QED
    BY <2>1, <2>2, <2>3
<1>5. CASE CheckId(t)
  <2>1. TypeOK'
    BY <1>5 DEF CheckId, Threads, TypeOK, MainPlaces, ExpiryPlaces,
                HeartbeatPlaces
  <2>2. RecordsExist'
    BY <1>5 DEF CheckId, TypeOK, RecordsExist, Known
  <2>3. LocalsSet'
    BY <1>5 DEF CheckId, Threads, TypeOK, LocalsSet, Expiring, ExpiryPlaces,
                JobsSent, Known
  <2>4. QED
    BY <2>1, <2>2, <2>3
<1>6. CASE DeleteId(t)
  <2>a. workers_by_id' \in [WorkerIds -> Sessions \union {None}]
    BY <1>6 DEF DeleteId, TypeOK
  <2>b. cur' \in [Threads -> Sessions \union {None}]
    BY <1>6 DEF DeleteId, TypeOK
  <2>1. TypeOK'
    BY <1>6, <2>a, <2>b
       DEF DeleteId, Threads, TypeOK, MainPlaces, ExpiryPlaces,
           HeartbeatPlaces
  <2>2. RecordsExist'
    BY <1>6 DEF DeleteId, TypeOK, RecordsExist, Known
  <2>3. LocalsSet'
    BY <1>6 DEF DeleteId, Threads, TypeOK, LocalsSet, Expiring, ExpiryPlaces,
                JobsSent, Known
  <2>4. QED
    BY <2>1, <2>2, <2>3
<1>7. CASE EndExpiry(t)
  <2>1. /\ todo' \in [Threads -> SUBSET Sessions]
        /\ \A x \in Threads : \A s \in todo'[x] : Known(s)
        /\ cur' = cur
    BY <1>7, SnapshotEffect DEF EndExpiry, TypeOK, RecordsExist
  <2>2. TypeOK'
    BY <1>7, <2>1 DEF EndExpiry, Threads, TypeOK, MainPlaces, ExpiryPlaces,
                      HeartbeatPlaces
  <2>3. RecordsExist'
    BY <1>7, <2>1 DEF EndExpiry, TypeOK, RecordsExist, Known
  <2>4. LocalsSet'
    BY <1>7, <2>1 DEF EndExpiry, Threads, TypeOK, LocalsSet, Expiring,
                      ExpiryPlaces, JobsSent, Known
  <2>5. QED
    BY <2>2, <2>3, <2>4
<1>8. QED
  BY <1>1, <1>2, <1>3, <1>4, <1>5, <1>6, <1>7 DEF Expire

LEMMA HeartbeatTInv ==
  ASSUME TInv, HeartbeatLoop
  PROVE  TInv'
<1> USE NoneAssumption, PeerAssumption DEF TInv, registry, locals, At, Goto
<1>a. TypeOK /\ RecordsExist /\ LocalsSet
  OBVIOUS
<1>1. CASE Wake
  <2>a. CASE stop
    <3>1. TypeOK'
      BY <1>1, <2>a DEF Wake, Threads, TypeOK, MainPlaces, ExpiryPlaces,
        HeartbeatPlaces
    <3>2. RecordsExist'
      BY <1>1, <2>a DEF Wake, TypeOK, RecordsExist, Known
    <3>3. LocalsSet'
      BY <1>1, <2>a DEF Wake, Threads, TypeOK, LocalsSet, Expiring,
        ExpiryPlaces, JobsSent, Known
    <3>4. QED
      BY <3>1, <3>2, <3>3
  <2>b. CASE ~stop
    <3>a. /\ todo' \in [Threads -> SUBSET Sessions]
          /\ \A x \in Threads : \A s \in todo'[x] : Known(s)
          /\ cur' = cur
      BY <1>1, <2>b, SnapshotEffect DEF Wake, Threads
    <3>1. TypeOK'
      BY <1>1, <2>b, <3>a DEF Wake, Threads, TypeOK, MainPlaces,
        ExpiryPlaces, HeartbeatPlaces
    <3>2. RecordsExist'
      BY <1>1, <2>b, <3>a DEF Wake, TypeOK, RecordsExist, Known
    <3>3. LocalsSet'
      BY <1>1, <2>b, <3>a DEF Wake, Threads, TypeOK, LocalsSet, Expiring,
        ExpiryPlaces, JobsSent, Known
    <3>4. QED
      BY <3>1, <3>2, <3>3
  <2>c. QED
    BY <2>a, <2>b
<1>2. ASSUME NEW s \in Sessions, SendBeat(s) PROVE TInv'
  <2>a. Msg("HEARTBEAT", rec[s].route, s, None) \in Message
    BY <1>2 DEF SendBeat, Threads, RecordsExist, Known, Msg, Message
  <2>1. TypeOK'
    BY <1>2, <2>a DEF SendBeat, Send, Threads, TypeOK
  <2>2. RecordsExist'
    BY <1>2 DEF SendBeat, TypeOK, RecordsExist, Known
  <2>3. LocalsSet'
    BY <1>2 DEF SendBeat, Send, Msg, TypeOK, LocalsSet, JobsSent, Known
  <2>4. QED
    BY <2>1, <2>2, <2>3
<1>3. CASE Rest
  <2>1. TypeOK'
    BY <1>3 DEF Rest, MainGoto, Threads, TypeOK, MainPlaces,
      ExpiryPlaces, HeartbeatPlaces
  <2>2. RecordsExist'
    BY <1>3 DEF Rest, MainGoto, TypeOK, RecordsExist, Known
  <2>3. LocalsSet'
    BY <1>3 DEF Rest, MainGoto, Threads, TypeOK, LocalsSet,
      Expiring, ExpiryPlaces, JobsSent, Known
  <2>4. QED
    BY <2>1, <2>2, <2>3
<1>4. CASE Expire("heartbeat")
  BY <1>4, ExpireTInv DEF Threads
<1>5. QED
  BY <1>1, <1>2, <1>3, <1>4 DEF HeartbeatLoop

LEMMA MainTInv ==
  ASSUME TInv, MainThread
  PROVE  TInv'
<1> USE NoneAssumption, PeerAssumption DEF TInv, registry, locals, At, Goto
<1>a. TypeOK /\ RecordsExist /\ LocalsSet
  OBVIOUS
<1>1. CASE StartExpiry
  <2>a. /\ todo' \in [Threads -> SUBSET Sessions]
        /\ \A x \in Threads : \A s \in todo'[x] : Known(s)
        /\ cur' = cur
    BY <1>1, SnapshotEffect DEF StartExpiry, Threads
  <2>1. TypeOK'
    BY <1>1, <2>a DEF StartExpiry, MainGoto, Threads, TypeOK,
      MainPlaces, ExpiryPlaces, HeartbeatPlaces
  <2>2. RecordsExist'
    BY <1>1, <2>a DEF StartExpiry, MainGoto, TypeOK, RecordsExist, Known
  <2>3. LocalsSet'
    BY <1>1, <2>a DEF StartExpiry, MainGoto, Threads, TypeOK,
      LocalsSet, Expiring, ExpiryPlaces, JobsSent, Known
  <2>4. QED
    BY <2>1, <2>2, <2>3
<1>2. CASE Expire("main")
  BY <1>2, ExpireTInv DEF Threads
<1>3. CASE PollTimeout
  <2>1. TypeOK'
    BY <1>3 DEF PollTimeout, AfterMessage, MainGoto, Threads, TypeOK,
      MainPlaces, ExpiryPlaces, HeartbeatPlaces
  <2>2. RecordsExist'
    BY <1>3
       DEF PollTimeout, AfterMessage, MainGoto, TypeOK, RecordsExist, Known
  <2>3. LocalsSet'
    BY <1>3 DEF PollTimeout, AfterMessage, MainGoto, Threads, TypeOK,
      LocalsSet, Expiring, ExpiryPlaces, JobsSent, Known
  <2>4. QED
    BY <2>1, <2>2, <2>3
<1>4. CASE EnterGrace
  <2>1. TypeOK'
    BY <1>4 DEF EnterGrace, MainGoto, Threads, TypeOK,
      MainPlaces, ExpiryPlaces, HeartbeatPlaces
  <2>2. RecordsExist'
    BY <1>4 DEF EnterGrace, MainGoto, TypeOK, RecordsExist, Known
  <2>3. LocalsSet'
    BY <1>4 DEF EnterGrace, MainGoto, Threads, TypeOK,
      LocalsSet, Expiring, ExpiryPlaces, JobsSent, Known
  <2>4. QED
    BY <2>1, <2>2, <2>3
<1>5. CASE Finalize
  <2>a. stats' \in BrokerStats
    <3>1. FinalCase \in TransportCases
      BY DEF FinalCase, TypeOK, BrokerStats, TransportCases
    <3>2. QED
      BY <1>5, <3>1 DEF Finalize, TypeOK, BrokerStats
  <2>1. TypeOK'
    BY <1>5, <2>a DEF Finalize, MainGoto, Threads, TypeOK,
      MainPlaces, ExpiryPlaces, HeartbeatPlaces
  <2>2. RecordsExist'
    BY <1>5 DEF Finalize, MainGoto, TypeOK, RecordsExist, Known
  <2>3. LocalsSet'
    BY <1>5 DEF Finalize, MainGoto, Threads, TypeOK,
      LocalsSet, Expiring, ExpiryPlaces, JobsSent, Known
  <2>4. QED
    BY <2>1, <2>2, <2>3
<1>6. CASE Shutdown
  <2>1. TypeOK'
    BY <1>6 DEF Shutdown, control, MainGoto, Threads, TypeOK,
      MainPlaces, ExpiryPlaces, HeartbeatPlaces
  <2>2. RecordsExist'
    BY <1>6 DEF Shutdown, control, MainGoto, TypeOK, RecordsExist, Known
  <2>3. LocalsSet'
    BY <1>6 DEF Shutdown, control, MainGoto, Threads, TypeOK,
      LocalsSet, Expiring, ExpiryPlaces, JobsSent, Known
  <2>4. QED
    BY <2>1, <2>2, <2>3
<1>7. CASE RegisterId
  <2>a. msg \in Message /\ msg.session \in Sessions /\ msg.route \in Routes
    BY <1>7 DEF RegisterId, LocalsSet, TypeOK, Message
  <2>b. Known(msg.session)
    BY <1>7 DEF RegisterId, LocalsSet
  <2>c. /\ rec' \in [Sessions -> WorkerRecord]
        /\ \A x \in Sessions : /\ rec'[x].route = rec[x].route
                               /\ Known(x) <=> Known(x)'
    <3>1. CASE is_reconnect
      BY <1>7, <3>1, <2>a, <2>b, TransitionEffect
         DEF RegisterId, TypeOK, WorkerStates
    <3>2. CASE ~is_reconnect
      BY <1>7, <3>2 DEF RegisterId, TypeOK, Known
    <3>3. QED
      BY <3>1, <3>2
  <2>1. TypeOK'
    BY <1>7, <2>a, <2>c DEF RegisterId, MainGoto, Threads, TypeOK,
      MainPlaces, ExpiryPlaces, HeartbeatPlaces
  <2>2. RecordsExist'
    BY <1>7, <2>c, RecordsKept DEF RegisterId, MainGoto, TypeOK, RecordsExist
  <2>3. LocalsSet'
    BY <1>7 DEF RegisterId, MainGoto, Threads, TypeOK,
      LocalsSet, Expiring, ExpiryPlaces, JobsSent, Known
  <2>4. QED
    BY <2>1, <2>2, <2>3
<1>8. CASE AckReady
  <2>a. Msg("READY_ACK", msg.route, msg.session, None) \in Message
    BY <1>8 DEF AckReady, LocalsSet, TypeOK, Msg, Message
  <2>1. TypeOK'
    BY <1>8, <2>a DEF AckReady, AfterMessage, Send, MainGoto, Threads, TypeOK,
      MainPlaces, ExpiryPlaces, HeartbeatPlaces
  <2>2. RecordsExist'
    BY <1>8
       DEF AckReady, AfterMessage, Send, MainGoto, TypeOK, RecordsExist, Known
  <2>3. LocalsSet'
    BY <1>8 DEF AckReady, AfterMessage, Send, MainGoto, Threads, TypeOK,
      LocalsSet, Expiring, ExpiryPlaces, JobsSent, Known, Msg
  <2>4. QED
    BY <2>1, <2>2, <2>3
<1>9. CASE Refresh
  <2>1. TypeOK'
    BY <1>9 DEF Refresh, AfterMessage, MainGoto, Threads, TypeOK,
      MainPlaces, ExpiryPlaces, HeartbeatPlaces
  <2>2. RecordsExist'
    BY <1>9 DEF Refresh, AfterMessage, MainGoto, TypeOK, RecordsExist, Known
  <2>3. LocalsSet'
    BY <1>9 DEF Refresh, AfterMessage, MainGoto, Threads, TypeOK,
      LocalsSet, Expiring, ExpiryPlaces, JobsSent, Known
  <2>4. QED
    BY <2>1, <2>2, <2>3
<1>10. CASE DecideResult
  <2>a. msg \in Message /\ msg.job \in Jobs
    BY <1>10 DEF DecideResult, LocalsSet, TypeOK
  <2>b. CASE Accept(msg)
    <3>1. jobs' \in [Jobs -> JobRecord \union {None}]
      BY <1>10, <2>b, <2>a, JobUpdate DEF Accept, TypeOK
    <3>2. stats' \in BrokerStats
      BY <1>10, <2>b, <2>a DEF Accept, TypeOK, BrokerStats
    <3>3. TypeOK'
      BY <1>10, <2>b, <2>a, <3>1, <3>2
         DEF DecideResult, Accept, AfterMessage, MainGoto, Threads, TypeOK,
             MainPlaces, ExpiryPlaces, HeartbeatPlaces
    <3>4. RecordsExist'
      BY <1>10, <2>b, <2>a
         DEF DecideResult, Accept, MainGoto, TypeOK, RecordsExist, Known
    <3>5. LocalsSet'
      BY <1>10, <2>b, <2>a
         DEF DecideResult, Accept, AfterMessage, MainGoto, Threads, TypeOK,
             LocalsSet, Expiring, ExpiryPlaces, JobsSent, Known
    <3>6. QED
      BY <3>3, <3>4, <3>5
  <2>c. ASSUME NEW reason \in RejectReasons, Reject(msg, reason) PROVE TInv'
    <3>1. jobs' \in [Jobs -> JobRecord \union {None}]
      BY <1>10, <2>c, <2>a, JobUpdate DEF Reject, TypeOK
    <3>2. stats' \in BrokerStats
      BY <1>10, <2>c, <2>a DEF Reject, TypeOK, BrokerStats
    <3>3. TypeOK'
      BY <1>10, <2>c, <2>a, <3>1, <3>2
         DEF DecideResult, Reject, AfterMessage, MainGoto, Threads, TypeOK,
             MainPlaces, ExpiryPlaces, HeartbeatPlaces
    <3>4. RecordsExist'
      BY <1>10, <2>c, <2>a
         DEF DecideResult, Reject, MainGoto, TypeOK, RecordsExist, Known
    <3>5. LocalsSet'
      BY <1>10, <2>c, <2>a
         DEF DecideResult, Reject, AfterMessage, MainGoto, Threads, TypeOK,
             LocalsSet, Expiring, ExpiryPlaces, JobsSent, Known
    <3>6. QED
      BY <3>3, <3>4, <3>5
  <2>d. RejectReason(worker, msg) \in RejectReasons \union {None}
    BY DEF RejectReason, JobIdReason, StrictReason, RejectReasons
  <2>e. QED
    BY <1>10, <2>b, <2>c, <2>d DEF DecideResult
<1>11. CASE SettleWorker
  <2>c. /\ rec' \in [Sessions -> WorkerRecord]
        /\ \A x \in Sessions : /\ rec'[x].route = rec[x].route
                               /\ Known(x) <=> Known(x)'
    <3>1. CASE worker = None
      BY <1>11, <3>1 DEF SettleWorker, TypeOK, Known
    <3>2. CASE worker # None
      BY <1>11, <3>2, AssignmentEffect
         DEF SettleWorker, FreeWorker, TypeOK, RecordsExist, WorkerStates
    <3>3. QED
      BY <3>1, <3>2
  <2>1. TypeOK'
    BY <1>11, <2>c DEF SettleWorker, MainGoto, Threads, TypeOK,
      MainPlaces, ExpiryPlaces, HeartbeatPlaces
  <2>2. RecordsExist'
    BY <1>11, <2>c, RecordsKept
       DEF SettleWorker, MainGoto, TypeOK, RecordsExist
  <2>3. LocalsSet'
    BY <1>11 DEF SettleWorker, MainGoto, Threads, TypeOK,
      LocalsSet, Expiring, ExpiryPlaces, JobsSent, Known
  <2>4. QED
    BY <2>1, <2>2, <2>3
<1>12. CASE AckResult
  <2>a. /\ msg \in Message /\ msg.job \in Jobs
        /\ Msg("RESULT_ACK", msg.route, msg.session, msg.job) \in Message
    BY <1>12 DEF AckResult, LocalsSet, TypeOK, Msg, Message
  <2>b. jobs' \in [Jobs -> JobRecord \union {None}]
    BY <1>12, <2>a, JobUpdate DEF AckResult, TypeOK
  <2>c. stats' \in BrokerStats
    BY <1>12 DEF AckResult, TypeOK, BrokerStats
  <2>1. TypeOK'
    BY <1>12, <2>a, <2>b, <2>c
       DEF AckResult, AfterMessage, Send, MainGoto, Threads, TypeOK,
           MainPlaces, ExpiryPlaces, HeartbeatPlaces
  <2>2. RecordsExist'
    BY <1>12
       DEF AckResult, AfterMessage, Send, MainGoto, TypeOK, RecordsExist,
           Known
  <2>3. LocalsSet'
    BY <1>12 DEF AckResult, AfterMessage, Send, MainGoto, Threads, TypeOK,
      LocalsSet, Expiring, ExpiryPlaces, JobsSent, Known, Msg
  <2>4. QED
    BY <2>1, <2>2, <2>3
<1>13. ASSUME NEW s \in Sessions, PickWorker(s) PROVE TInv'
  <2>b. Known(s)
    BY <1>13 DEF PickWorker, Dispatchable, Known
  <2>c. /\ rec' \in [Sessions -> WorkerRecord]
        /\ \A x \in Sessions : /\ rec'[x].route = rec[x].route
                               /\ Known(x) <=> Known(x)'
    BY <1>13, <2>b, TransitionEffect DEF PickWorker, TypeOK, WorkerStates
  <2>1. TypeOK'
    BY <1>13, <2>c DEF PickWorker, MainGoto, Threads, TypeOK,
      MainPlaces, ExpiryPlaces, HeartbeatPlaces
  <2>2. RecordsExist'
    BY <1>13, <2>b, <2>c, RecordsKept
       DEF PickWorker, MainGoto, TypeOK, RecordsExist
  <2>3. LocalsSet'
    BY <1>13 DEF PickWorker, MainGoto, Threads, TypeOK,
      LocalsSet, Expiring, ExpiryPlaces, JobsSent, Known
  <2>4. QED
    BY <2>1, <2>2, <2>3
<1>14. CASE NothingToDispatch
  <2>1. TypeOK'
    BY <1>14 DEF NothingToDispatch, MainGoto, Threads, TypeOK,
      MainPlaces, ExpiryPlaces, HeartbeatPlaces
  <2>2. RecordsExist'
    BY <1>14 DEF NothingToDispatch, MainGoto, TypeOK, RecordsExist, Known
  <2>3. LocalsSet'
    BY <1>14 DEF NothingToDispatch, MainGoto, Threads, TypeOK,
      LocalsSet, Expiring, ExpiryPlaces, JobsSent, Known
  <2>4. QED
    BY <2>1, <2>2, <2>3
<1>15. ASSUME NEW j \in Jobs, Assign(j) PROVE TInv'
  <2>a. worker \in Sessions /\ Known(worker)
    BY <1>15 DEF Assign, LocalsSet, TypeOK, RecordsExist
  <2>b. /\ jobs' \in [Jobs -> JobRecord \union {None}]
        /\ stats' \in BrokerStats
    BY <1>15, <2>a DEF Assign, TypeOK, JobRecord, BrokerStats
  <2>c. /\ rec' \in [Sessions -> WorkerRecord]
        /\ \A x \in Sessions : /\ rec'[x].route = rec[x].route
                               /\ Known(x) <=> Known(x)'
    BY <1>15, <2>a, AssignmentEffect DEF Assign, TypeOK, WorkerStates
  <2>1. TypeOK'
    BY <1>15, <2>a, <2>b, <2>c DEF Assign, MainGoto, Threads, TypeOK,
      MainPlaces, ExpiryPlaces, HeartbeatPlaces
  <2>2. RecordsExist'
    BY <1>15, <2>c, RecordsKept DEF Assign, MainGoto, TypeOK, RecordsExist
  <2>3. LocalsSet'
    BY <1>15 DEF Assign, MainGoto, Threads, TypeOK,
      LocalsSet, Expiring, ExpiryPlaces, JobsSent, Known, BrokerStats
  <2>4. QED
    BY <2>1, <2>2, <2>3
<1>16. CASE SendJob
  <2>a. /\ Msg("JOB", rec[worker].route, worker, stats.job_id) \in Message
        /\ stats.job_id \in Jobs
    BY <1>16 DEF SendJob, LocalsSet, TypeOK, RecordsExist, Msg, Message
  <2>1. TypeOK'
    BY <1>16, <2>a DEF SendJob, Send, MainGoto, Threads, TypeOK,
      MainPlaces, ExpiryPlaces, HeartbeatPlaces
  <2>2. RecordsExist'
    BY <1>16 DEF SendJob, Send, MainGoto, TypeOK, RecordsExist, Known
  <2>3. LocalsSet'
    BY <1>16, <2>a DEF SendJob, Send, MainGoto, Threads, TypeOK,
      LocalsSet, Expiring, ExpiryPlaces, JobsSent, Known, Msg
  <2>4. QED
    BY <2>1, <2>2, <2>3
<1>17. QED
  BY <1>1, <1>2, <1>3, <1>4, <1>5, <1>6, <1>7, <1>8, <1>9, <1>10, <1>11,
     <1>12, <1>13, <1>14, <1>15, <1>16 DEF MainThread

LEMMA ArrivalTInv ==
  ASSUME TInv, Arrival
  PROVE  TInv'
<1> USE NoneAssumption, PeerAssumption DEF TInv, registry, locals, At, Goto
<1>a. TypeOK /\ RecordsExist /\ LocalsSet
  OBVIOUS
<1>1. ASSUME NEW s \in Sessions, NEW r \in Routes, ReadyArrives(s, r)
      PROVE  TInv'
  <2> DEFINE m == Msg("READY", r, s, None)
  <2>a. /\ m \in Message /\ m # None /\ m.session = s /\ m.route = r /\ m.job = None
        /\ HandleReady(m)
    BY <1>1 DEF ReadyArrives, Msg, Message
  <2> HIDE DEF m
  <2>b. /\ rec' \in [Sessions -> WorkerRecord]
        /\ rec'[s].route = r /\ Known(s)'
        /\ \A x \in Sessions \ {s} : rec'[x] = rec[x]
    BY <2>a DEF HandleReady, TypeOK, WorkerRecord, WorkerStates, Known
  <2>c. changes' \in [routing : Nat, session : Nat]
    BY <2>a DEF HandleReady, TypeOK
  <2>1. TypeOK'
    BY <2>a, <2>b, <2>c DEF HandleReady, Put, MainGoto, Threads, TypeOK,
      MainPlaces, ExpiryPlaces, HeartbeatPlaces
  <2>2. RecordsExist'
    BY <2>a, <2>b DEF HandleReady, Put, MainGoto, TypeOK, RecordsExist, Known
  <2>3. LocalsSet'
    BY <2>a, <2>b DEF HandleReady, MainGoto, Threads, TypeOK, LocalsSet,
      Expiring, ExpiryPlaces, JobsSent
  <2>4. QED
    BY <2>1, <2>2, <2>3
<1>2. ASSUME NEW r \in Routes, HandleHeartbeat(r) PROVE TInv'
  <2>1. TypeOK'
    BY <1>2 DEF HandleHeartbeat, AfterMessage, MainGoto, Threads, TypeOK,
      MainPlaces, ExpiryPlaces, HeartbeatPlaces
  <2>2. RecordsExist'
    BY <1>2
       DEF HandleHeartbeat, AfterMessage, MainGoto, TypeOK, RecordsExist,
           Known
  <2>3. LocalsSet'
    BY <1>2 DEF HandleHeartbeat, AfterMessage, MainGoto, Threads, TypeOK,
      LocalsSet, Expiring, ExpiryPlaces, JobsSent, Known
  <2>4. QED
    BY <2>1, <2>2, <2>3
<1>3. ASSUME NEW d \in JobsSent, NEW s \in Sessions, NEW r \in Routes,
             ResultArrives(d, s, r)
      PROVE  TInv'
  <2> DEFINE m == Msg("RESULT", r, s, d.job)
  <2>a. m \in Message /\ m # None /\ m.route = r /\ m.job \in Jobs /\ HandleResult(m)
    BY <1>3 DEF ResultArrives, Msg, Message, LocalsSet
  <2> HIDE DEF m
  <2>b. stats' \in BrokerStats
    BY <2>a DEF HandleResult, TypeOK, BrokerStats
  <2>1. TypeOK'
    BY <2>a, <2>b DEF HandleResult, MainGoto, Threads, TypeOK, MainPlaces,
                      ExpiryPlaces, HeartbeatPlaces
  <2>2. RecordsExist'
    BY <2>a DEF HandleResult, MainGoto, TypeOK, RecordsExist, Known
  <2>3. LocalsSet'
    BY <2>a DEF HandleResult, MainGoto, Threads, TypeOK,
      LocalsSet, Expiring, ExpiryPlaces, JobsSent, Known
  <2>4. QED
    BY <2>1, <2>2, <2>3
<1>4. QED
  BY <1>1, <1>2, <1>3 DEF Arrival, HeartbeatArrives

LEMMA PassageTInv ==
  ASSUME TInv, Passage
  PROVE  TInv'
<1> USE NoneAssumption, PeerAssumption DEF TInv, registry, locals, At, Goto
<1>a. TypeOK /\ RecordsExist /\ LocalsSet
  OBVIOUS
<1>1. ASSUME NEW s \in Sessions, Lapse(s) PROVE TInv'
  <2>1. TypeOK'
    BY <1>1 DEF Lapse, control, MainGoto, Threads, TypeOK,
      MainPlaces, ExpiryPlaces, HeartbeatPlaces
  <2>2. RecordsExist'
    BY <1>1 DEF Lapse, control, MainGoto, TypeOK, RecordsExist, Known
  <2>3. LocalsSet'
    BY <1>1 DEF Lapse, control, MainGoto, Threads, TypeOK,
      LocalsSet, Expiring, ExpiryPlaces, JobsSent, Known
  <2>4. QED
    BY <2>1, <2>2, <2>3
<1>2. ASSUME NEW d \in Deadlines, DeadlinePasses(d) PROVE TInv'
  <2>1. TypeOK'
    BY <1>2 DEF DeadlinePasses, control, MainGoto, Threads, TypeOK,
      MainPlaces, ExpiryPlaces, HeartbeatPlaces
  <2>2. RecordsExist'
    BY <1>2 DEF DeadlinePasses, control, MainGoto, TypeOK, RecordsExist, Known
  <2>3. LocalsSet'
    BY <1>2 DEF DeadlinePasses, control, MainGoto, Threads, TypeOK,
      LocalsSet, Expiring, ExpiryPlaces, JobsSent, Known
  <2>4. QED
    BY <2>1, <2>2, <2>3
<1>3. CASE Interrupt
  <2>1. TypeOK'
    BY <1>3 DEF Interrupt, MainGoto, Threads, TypeOK,
      MainPlaces, ExpiryPlaces, HeartbeatPlaces
  <2>2. RecordsExist'
    BY <1>3 DEF Interrupt, MainGoto, TypeOK, RecordsExist, Known
  <2>3. LocalsSet'
    BY <1>3 DEF Interrupt, MainGoto, Threads, TypeOK,
      LocalsSet, Expiring, ExpiryPlaces, JobsSent, Known
  <2>4. QED
    BY <2>1, <2>2, <2>3
<1>4. QED
  BY <1>1, <1>2, <1>3 DEF Passage

LEMMA NextTInv == TInv /\ [Next]_vars => TInv'
<1> SUFFICES ASSUME TInv, [Next]_vars PROVE TInv'
  OBVIOUS
<1>1. CASE MainThread
  BY <1>1, MainTInv
<1>2. CASE HeartbeatLoop
  BY <1>2, HeartbeatTInv
<1>3. CASE Arrival
  BY <1>3, ArrivalTInv
<1>4. CASE Passage
  BY <1>4, PassageTInv
<1>5. CASE UNCHANGED vars
  <2>1. TypeOK'
    BY <1>5 DEF TInv, vars, registry, locals, control, TypeOK
  <2>2. RecordsExist'
    BY <1>5 DEF TInv, vars, registry, locals, control, RecordsExist, Known
  <2>3. LocalsSet'
    BY <1>5 DEF TInv, vars, registry, locals, control, LocalsSet, Known,
      JobsSent
  <2>4. QED
    BY <2>1, <2>2, <2>3 DEF TInv
<1>6. QED
  BY <1>1, <1>2, <1>3, <1>4, <1>5 DEF Next

\* Whatever the two threads, the peers and the clock do, every variable keeps
\* its type, and every handler finds its locals set and its records created.
THEOREM TypeCorrect == Spec => []TInv
BY InitTInv, NextTInv, PTL DEF Spec

\* The type invariant, which _handle_ready, the expiry and the rest preserve only
\* with what TInv says of locals and records.
THEOREM TypeOKHolds == Spec => []TypeOK
BY TypeCorrect, PTL DEF TInv

=============================================================================
