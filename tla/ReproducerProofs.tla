--------------------------- MODULE ReproducerProofs ---------------------------
(***************************************************************************)
(* Proofs about Reproducer, for every scenario, every socket option and    *)
(* every way the two sides, the harness and libzmq interleave: the         *)
(* reproducer is an instance of Broker, so that what BrokerProofs,         *)
(* BrokerSafety and BrokerVerdict prove holds of it, and the properties of *)
(* the whole run follow from that and from what the worker does.           *)
(***************************************************************************)
EXTENDS Reproducer, BrokerVerdict

-----------------------------------------------------------------------------
(* What the sessions and routing ids of the run have to do with those of   *)
(* Broker.                                                                 *)

First == SessionOf[0]
Second == SessionOf[1]

LEMMA OneWorkersRun ==
  /\ WorkerOf[First] = WorkerOf[Second]
  /\ Generation[First] < Generation[Second]
  /\ \A e \in Sessions :
       WorkerOf[e] = WorkerOf[First] /\ Generation[e] < Generation[Second]
         => e = First
  /\ RouteOf[1] \in RoutesOf[First]
  /\ RouteOf[2] \in RoutesOf[First] \cap RoutesOf[Second]
BY OneWorker DEF First, Second

-----------------------------------------------------------------------------
(* The worker: which job it has, and where it is with it.                  *)

SideType ==
  /\ W!WorkerTypeOK
  /\ up \in [W!Conns -> Seq(Message)]
  /\ down \in [W!Conns -> Seq(Message)]
  /\ config \in Configs

\* The worker has not yet applied its post-job strategy.
Early ==
  \/ wstats.job_id = None
  \/ net \in {"working", "strategy"}
  \/ job_thread = "running"
  \/ W!Separate /\ job_thread # "none"

\* It has not yet tried to send its RESULT.
Pending ==
  Early \/ net \in {"send_ready", "ready_ack", "heartbeat", "send_result"}

\* It has taken the job off its thread and goes on with the result.
Resting ==
  \/ net \in {"strategy", "heartbeat", "send_result", "sent", "not_sent",
              "result_ack"}
  \/ net \in {"send_ready", "ready_ack"} /\ wstats.job_id # None

ControlInv ==
  /\ net \in {"loop", "poll"} => W!Separate
  /\ net \in {"job", "result_ack"} => ~W!Separate
  /\ net \in {"start", "job"} => wstats.job_id = None
  /\ job_thread # "none" => wstats.job_id # None
  /\ net \in {"working", "strategy", "heartbeat", "send_result", "sent",
              "not_sent", "result_ack"} => wstats.job_id # None
  /\ Resting => job_thread # "running" /\ (W!Separate => job_thread = "none")
  /\ Early => conn = 1 /\ socket_generation = 0
  /\ socket_generation = 1 => conn = 2
  /\ ~W!Separate /\ job_thread = "running" => net = "working"
  /\ ~W!Separate /\ caller = "returned" => W!NetEnded

-----------------------------------------------------------------------------
(* The messages on their way.                                              *)

InQ(q, m) == \E i \in 1..Len(q) : q[i] = m

InUp(m) == \E c \in W!Conns : InQ(up[c], m)

\* No READY or RESULT of a session is on its way twice.
Unrepeated(u) ==
  \A c, d \in W!Conns : \A i \in 1..Len(u[c]), k \in 1..Len(u[d]) :
    u[c][i].type # "HEARTBEAT" /\ u[c][i].type = u[d][k].type
    /\ u[c][i].session = u[d][k].session => c = d /\ i = k

\* What the worker has sent is what Broker lets a worker send, at the moment the
\* broker reads it.
Sendable(m) ==
  /\ m.type \in {"READY", "HEARTBEAT", "RESULT"}
  /\ m.type = "READY" =>
       /\ m.job = None /\ m.session \in {First, Second}
       /\ m.route \in RoutesOf[m.session] /\ ~Known(m.session)
  /\ m.type = "HEARTBEAT" =>
       \E n \in sent : n.type = "HEARTBEAT" /\ n.route = m.route
  /\ m.type = "RESULT" =>
       /\ m.session = W!session_id
       /\ m.route \in RoutesOf[m.session]
       /\ m.job # None /\ m.job = wstats.job_id
       /\ ~stats.raw_message_received

\* Neither its READY is on its way nor has the broker read it.
Fresh(s) ==
  ~Known(s) /\ \A m \in Message : InUp(m) => ~(m.type = "READY" /\ m.session = s)

UpInv ==
  /\ Unrepeated(up)
  /\ \A m \in Message : InUp(m) => Sendable(m)
  /\ net \in {"start", "send_ready"} => Fresh(W!session_id)
  /\ socket_generation = 0 => Fresh(Second)
  /\ Pending => /\ ~stats.raw_message_received
                /\ \A m \in Message : InUp(m) => m.type # "RESULT"

\* What reaches the worker was sent by the broker, to the connection it came on.
DownInv ==
  /\ \A c \in W!Conns : \A m \in Message :
       InQ(down[c], m) => m \in sent /\ m.route = RouteOf[c]
  /\ wstats.job_id # None => \E d \in JobsSent : d.job = wstats.job_id

\* Only the worker's sessions have records, and its job was sent to one.
KnownInv ==
  /\ \A s \in Sessions : Known(s) => s \in {First, Second}
  /\ \A m \in sent : m.type \in {"HEARTBEAT", "JOB"} => Known(m.session)
  /\ JobsSent # {} => Known(First)

PeerInv == SideType /\ ControlInv /\ UpInv /\ DownInv /\ KnownInv

-----------------------------------------------------------------------------
(* Queues.                                                                 *)

\* p is what is left of q once some messages are gone from its ends.
PartOf(p, q) ==
  \E k \in Nat : /\ k + Len(p) <= Len(q)
                 /\ \A i \in 1..Len(p) : p[i] = q[i + k]

LEMMA WholePart ==
  ASSUME NEW S, NEW q \in Seq(S)
  PROVE  PartOf(q, q)
<1>1. 0 + Len(q) <= Len(q) /\ \A i \in 1..Len(q) : q[i] = q[i + 0]
  OBVIOUS
<1>2. QED
  BY <1>1 DEF PartOf

LEMMA EmptyPart ==
  ASSUME NEW S, NEW q \in Seq(S)
  PROVE  PartOf(<<>>, q) /\ <<>> \in Seq(S)
<1>1. 0 + Len(<<>>) <= Len(q) /\ \A i \in 1..Len(<<>>) : <<>>[i] = q[i + 0]
  OBVIOUS
<1>2. QED
  BY <1>1 DEF PartOf

LEMMA TailPart ==
  ASSUME NEW S, NEW q \in Seq(S), q # <<>>
  PROVE  /\ Tail(q) \in Seq(S) /\ PartOf(Tail(q), q)
         /\ Len(q) \in Nat /\ Len(q) >= 1 /\ Len(Tail(q)) = Len(q) - 1
         /\ \A i \in 1..Len(Tail(q)) : Tail(q)[i] = q[i + 1]
         /\ Head(q) \in S /\ q[1] = Head(q)
<1>1. /\ Tail(q) \in Seq(S) /\ Len(q) \in Nat /\ Len(q) >= 1
      /\ Len(Tail(q)) = Len(q) - 1
      /\ \A i \in 1..Len(Tail(q)) : Tail(q)[i] = q[i + 1]
      /\ Head(q) \in S /\ q[1] = Head(q)
  OBVIOUS
<1>2. 1 + Len(Tail(q)) <= Len(q)
  BY <1>1
<1>3. QED
  BY <1>1, <1>2 DEF PartOf

LEMMA PrefixPart ==
  ASSUME NEW S, NEW q \in Seq(S), NEW p \in W!Prefixes(q)
  PROVE  p \in Seq(S) /\ PartOf(p, q)
<1>1. PICK n \in 0..Len(q) : p = SubSeq(q, 1, n)
  BY DEF W!Prefixes
<1>2. p \in Seq(S) /\ Len(p) = n /\ \A i \in 1..Len(p) : p[i] = q[i]
  BY <1>1
<1>3. 0 + Len(p) <= Len(q) /\ \A i \in 1..Len(p) : p[i] = q[i + 0]
  BY <1>2
<1>4. QED
  BY <1>2, <1>3 DEF PartOf

LEMMA PartItems ==
  ASSUME NEW S, NEW p \in Seq(S), NEW q \in Seq(S), PartOf(p, q), NEW m,
         InQ(p, m)
  PROVE  InQ(q, m)
<1>1. PICK i \in 1..Len(p) : p[i] = m
  BY DEF InQ
<1>2. PICK k \in Nat : k + Len(p) <= Len(q) /\ p[i] = q[i + k]
  BY DEF PartOf
<1>3. i + k \in 1..Len(q)
  BY <1>2
<1>4. QED
  BY <1>1, <1>2, <1>3 DEF InQ

LEMMA AppendItems ==
  ASSUME NEW S, NEW q \in Seq(S), NEW m \in S
  PROVE  /\ Append(q, m) \in Seq(S)
         /\ Len(Append(q, m)) = Len(q) + 1
         /\ \A i \in 1..Len(q) : Append(q, m)[i] = q[i]
         /\ Append(q, m)[Len(q) + 1] = m
         /\ InQ(Append(q, m), m)
         /\ \A n : InQ(Append(q, m), n) <=> n = m \/ InQ(q, n)
<1>1. /\ Append(q, m) \in Seq(S)
      /\ Len(Append(q, m)) = Len(q) + 1
      /\ \A i \in 1..Len(q) : Append(q, m)[i] = q[i]
      /\ Append(q, m)[Len(q) + 1] = m
  OBVIOUS
<1>2. Len(q) \in Nat /\ 1..(Len(q) + 1) = 1..Len(q) \union {Len(q) + 1}
  OBVIOUS
<1>3. QED
  BY <1>1, <1>2 DEF InQ

\* A message that is queued comes last, unless the same HEARTBEAT waits already.
LEMMA QueuedItems ==
  ASSUME NEW q \in Seq(Message), NEW m \in Message
  PROVE  /\ W!Queued(q, m) \in Seq(Message)
         /\ \/ W!Queued(q, m) = q /\ m.type = "HEARTBEAT"
            \/ W!Queued(q, m) = Append(q, m)
         /\ \A n : InQ(W!Queued(q, m), n) => n = m \/ InQ(q, n)
<1>1. CASE W!Queued(q, m) = q /\ m.type = "HEARTBEAT"
  BY <1>1
<1>2. CASE W!Queued(q, m) = Append(q, m)
  BY <1>2, AppendItems
<1>3. QED
  BY <1>1, <1>2 DEF W!Queued

LEMMA PartUnrepeated ==
  ASSUME NEW u \in [W!Conns -> Seq(Message)], NEW v \in [W!Conns -> Seq(Message)],
         \A c \in W!Conns : PartOf(v[c], u[c]), Unrepeated(u)
  PROVE  Unrepeated(v)
<1> SUFFICES ASSUME NEW c \in W!Conns, NEW d \in W!Conns,
                    NEW i \in 1..Len(v[c]), NEW k \in 1..Len(v[d]),
                    v[c][i].type # "HEARTBEAT", v[c][i].type = v[d][k].type,
                    v[c][i].session = v[d][k].session
             PROVE  c = d /\ i = k
  BY DEF Unrepeated
<1>a. /\ Len(v[c]) \in Nat /\ Len(v[d]) \in Nat
      /\ Len(u[c]) \in Nat /\ Len(u[d]) \in Nat
  OBVIOUS
<1>1. PICK x \in Nat : /\ x + Len(v[c]) <= Len(u[c])
                       /\ \A n \in 1..Len(v[c]) : v[c][n] = u[c][n + x]
  BY DEF PartOf
<1>2. PICK y \in Nat : /\ y + Len(v[d]) <= Len(u[d])
                       /\ \A n \in 1..Len(v[d]) : v[d][n] = u[d][n + y]
  BY DEF PartOf
<1>3. /\ i + x \in 1..Len(u[c]) /\ v[c][i] = u[c][i + x]
      /\ k + y \in 1..Len(u[d]) /\ v[d][k] = u[d][k + y]
  BY <1>a, <1>1, <1>2
<1>4. c = d /\ i + x = k + y
  <2> DEFINE I == i + x
             K == k + y
  <2>1. /\ I \in 1..Len(u[c]) /\ v[c][i] = u[c][I]
        /\ K \in 1..Len(u[d]) /\ v[d][k] = u[d][K]
    BY <1>3
  <2> HIDE DEF I, K
  <2>2. /\ u[c][I].type # "HEARTBEAT" /\ u[c][I].type = u[d][K].type
        /\ u[c][I].session = u[d][K].session
    BY <2>1
  <2>3. c = d /\ I = K
    BY <2>1, <2>2 DEF Unrepeated
  <2>4. QED
    BY <2>3 DEF I, K
<1>5. k \in 1..Len(v[c])
  BY <1>4
<1>6. v[c][k] = u[c][k + x]
  BY <1>1, <1>5
<1>7. k + x \in 1..Len(u[c])
  BY <1>a, <1>1, <1>5
<1>8. k + x = i + x
  <2> DEFINE I == i + x
             K == k + x
  <2>1. /\ I \in 1..Len(u[c]) /\ v[c][i] = u[c][I]
        /\ K \in 1..Len(u[c]) /\ v[c][k] = u[c][K]
    BY <1>3, <1>6, <1>7
  <2> HIDE DEF I, K
  <2>2. /\ u[c][I].type # "HEARTBEAT" /\ u[c][I].type = u[c][K].type
        /\ u[c][I].session = u[c][K].session
    BY <1>4, <2>1
  <2>3. I = K
    BY <2>1, <2>2 DEF Unrepeated
  <2>4. QED
    BY <2>3 DEF I, K
<1>9. QED
  BY <1>4, <1>8

\* Nothing of u is m again.
NoneLike(u, m) ==
  \/ m.type = "HEARTBEAT"
  \/ \A d \in W!Conns : \A n \in Message :
       InQ(u[d], n) => n.type # m.type \/ n.session # m.session

LEMMA AppendUnrepeated ==
  ASSUME NEW u \in [W!Conns -> Seq(Message)], NEW v \in [W!Conns -> Seq(Message)],
         NEW c \in W!Conns, NEW m \in Message, Unrepeated(u),
         v = [u EXCEPT ![c] = Append(u[c], m)],
         NoneLike(u, m)
  PROVE  Unrepeated(v)
<1>a. SUFFICES \A x, y \in W!Conns : \A i \in 1..Len(v[x]), k \in 1..Len(v[y]) :
                 v[x][i].type # "HEARTBEAT" /\ v[x][i].type = v[y][k].type
                 /\ v[x][i].session = v[y][k].session => x = y /\ i = k
  BY Zenon DEF Unrepeated
<1>b. SUFFICES ASSUME NEW x \in W!Conns, NEW y \in W!Conns,
                      NEW i \in 1..Len(v[x]), NEW k \in 1..Len(v[y]),
                      v[x][i].type # "HEARTBEAT", v[x][i].type = v[y][k].type,
                      v[x][i].session = v[y][k].session
               PROVE  x = y /\ i = k
  OBVIOUS
<1>1. \A d \in W!Conns : \A n \in 1..Len(v[d]) :
        \/ n \in 1..Len(u[d]) /\ v[d][n] = u[d][n]
        \/ d = c /\ n = Len(u[c]) + 1 /\ v[d][n] = m
  <2> TAKE d \in W!Conns
  <2>1. CASE d = c
    BY <2>1, AppendItems
  <2>2. CASE d # c
    BY <2>2
  <2>3. QED
    BY <2>1, <2>2
<1>2. \A d \in W!Conns : \A n \in 1..Len(u[d]) : InQ(u[d], u[d][n]) /\ u[d][n] \in Message
  BY DEF InQ
<1>3. \/ i \in 1..Len(u[x]) /\ v[x][i] = u[x][i]
      \/ x = c /\ i = Len(u[c]) + 1 /\ v[x][i] = m
  BY <1>1
<1>4. \/ k \in 1..Len(u[y]) /\ v[y][k] = u[y][k]
      \/ y = c /\ k = Len(u[c]) + 1 /\ v[y][k] = m
  BY <1>1
<1>5. CASE /\ i \in 1..Len(u[x]) /\ v[x][i] = u[x][i]
           /\ k \in 1..Len(u[y]) /\ v[y][k] = u[y][k]
  BY <1>b, <1>5 DEF Unrepeated
<1>6. CASE /\ x = c /\ i = Len(u[c]) + 1 /\ v[x][i] = m
           /\ y = c /\ k = Len(u[c]) + 1
  BY <1>6
<1>7. CASE i \in 1..Len(u[x]) /\ v[x][i] = u[x][i] /\ v[y][k] = m
  BY <1>b, <1>2, <1>7 DEF NoneLike
<1>8. CASE k \in 1..Len(u[y]) /\ v[y][k] = u[y][k] /\ v[x][i] = m
  BY <1>b, <1>2, <1>8 DEF NoneLike
<1>9. QED
  BY ONLY <1>3, <1>4, <1>5, <1>6, <1>7, <1>8

\* What is read leaves no second one behind.
LEMMA TailUnrepeated ==
  ASSUME NEW u \in [W!Conns -> Seq(Message)], NEW v \in [W!Conns -> Seq(Message)],
         NEW c \in W!Conns, Unrepeated(u), u[c] # <<>>,
         v = [u EXCEPT ![c] = Tail(u[c])]
  PROVE  /\ \A d \in W!Conns : PartOf(v[d], u[d])
         /\ Head(u[c]) \in Message /\ InQ(u[c], Head(u[c]))
         /\ Head(u[c]).type # "HEARTBEAT" =>
              \A d \in W!Conns : \A n \in Message :
                InQ(v[d], n) =>
                  n.type # Head(u[c]).type \/ n.session # Head(u[c]).session
<1>1. /\ Tail(u[c]) \in Seq(Message) /\ PartOf(Tail(u[c]), u[c])
      /\ Len(u[c]) \in Nat /\ Len(u[c]) >= 1 /\ Len(Tail(u[c])) = Len(u[c]) - 1
      /\ \A i \in 1..Len(Tail(u[c])) : Tail(u[c])[i] = u[c][i + 1]
      /\ Head(u[c]) \in Message /\ u[c][1] = Head(u[c])
  BY TailPart
<1>2. \A d \in W!Conns : PartOf(v[d], u[d])
  BY <1>1, WholePart
<1>3. 1 \in 1..Len(u[c]) /\ InQ(u[c], Head(u[c]))
  BY <1>1 DEF InQ
<1>4. ASSUME Head(u[c]).type # "HEARTBEAT", NEW d \in W!Conns, NEW n \in Message,
             InQ(v[d], n), n.type = Head(u[c]).type, n.session = Head(u[c]).session
      PROVE  FALSE
  <2>1. PICK i \in 1..Len(v[d]) : v[d][i] = n
    BY <1>4 DEF InQ
  <2>2. CASE d = c
    <3>1. i + 1 \in 1..Len(u[c]) /\ u[c][i + 1] = n /\ i + 1 # 1
      BY <1>1, <2>1, <2>2
    <3>2. PICK k \in 1..Len(u[c]) : u[c][k] = n /\ k # 1
      BY <3>1
    <3>3. u[c][k].type # "HEARTBEAT" /\ u[c][k].type = u[c][1].type
          /\ u[c][k].session = u[c][1].session
      BY <1>1, <1>4, <3>2
    <3>4. QED
      BY <1>3, <3>2, <3>3 DEF Unrepeated
  <2>3. CASE d # c
    <3>1. i \in 1..Len(u[d]) /\ u[d][i] = n
      BY <2>1, <2>3
    <3>2. QED
      BY <1>1, <1>3, <1>4, <2>3, <3>1 DEF Unrepeated
  <2>4. QED
    BY <2>2, <2>3
<1>5. QED
  BY <1>1, <1>2, <1>3, <1>4

-----------------------------------------------------------------------------
(* Every step is one of Broker or leaves it alone.                         *)

LEMMA RunConstants ==
  /\ First \in Sessions /\ Second \in Sessions /\ First # Second
         /\ Mode = "run_once"
         /\ \A c \in W!Conns : RouteOf[c] \in Routes
         /\ W!Conns = {1, 2}
<1>1. /\ SessionOf \in [0..1 -> Sessions] /\ RouteOf \in [W!Conns -> Routes]
      /\ Mode = "run_once"
  BY OneRun
<1>2. First \in Sessions /\ Second \in Sessions
  BY <1>1 DEF First, Second
<1>3. First # Second
  BY <1>2, PeerAssumption, OneWorkersRun
<1>4. W!Conns = {1, 2}
  BY DEF W!Conns
<1>5. QED
  BY <1>1, <1>2, <1>3, <1>4

LEMMA OwnSteps ==
  ASSUME BrokerSends \/ BrokerKeepsToItself
  PROVE  Next
<1>1. CASE \/ StartExpiry \/ PollTimeout \/ EnterGrace \/ Finalize \/ Shutdown
           \/ RegisterId \/ AckReady \/ Refresh \/ DecideResult
           \/ SettleWorker \/ AckResult \/ NothingToDispatch \/ SendJob
           \/ (\E s \in Sessions : PickWorker(s)) \/ (\E j \in Jobs : Assign(j))
           \/ Expire("main")
  BY <1>1 DEF Next, MainThread
<1>2. CASE \/ Wake \/ Rest \/ Expire("heartbeat")
           \/ \E s \in Sessions : SendBeat(s)
  BY <1>2 DEF Next, HeartbeatLoop
<1>3. CASE \/ \E s \in Sessions : Lapse(s)
           \/ \E d \in Deadlines : DeadlinePasses(d)
  BY <1>3 DEF Next, Passage
<1>4. QED
  BY <1>1, <1>2, <1>3 DEF BrokerSends, BrokerKeepsToItself, Threads

\* The broker has not heard of the second session while the first is in use.
LEMMA FirstOnly ==
  ASSUME PeerInv, socket_generation = 0
  PROVE  /\ W!session_id = First
         /\ \A s \in Sessions : Known(s) => s = First
         /\ \A m \in Message : InUp(m) /\ m.type = "READY" => m.session = First
<1>1. W!session_id = First
  BY DEF W!session_id, First
<1>2. Fresh(Second)
  BY DEF PeerInv, UpInv
<1>3. \A s \in Sessions : Known(s) => s \in {First, Second}
  BY DEF PeerInv, KnownInv
<1>4. \A m \in Message : InUp(m) /\ m.type = "READY" => m.session \in {First, Second}
  BY DEF PeerInv, UpInv, Sendable
<1>5. QED
  BY <1>1, <1>2, <1>3, <1>4 DEF Fresh

\* Once it is in use, the first one is known.
LEMMA FirstKnown ==
  ASSUME PeerInv, socket_generation # 0
  PROVE  /\ socket_generation = 1 /\ W!session_id = Second /\ conn = 2
         /\ wstats.job_id # None /\ JobsSent # {} /\ Known(First)
<1>1. socket_generation = 1
  BY DEF PeerInv, SideType, W!WorkerTypeOK
<1>2. W!session_id = Second
  BY <1>1 DEF W!session_id, Second
<1>3. ~Early /\ conn = 2
  BY <1>1 DEF PeerInv, ControlInv
<1>4. wstats.job_id # None
  BY <1>3 DEF Early
<1>5. JobsSent # {}
  BY <1>4 DEF PeerInv, DownInv
<1>6. Known(First)
  BY <1>5 DEF PeerInv, KnownInv
<1>7. QED
  BY <1>1, <1>2, <1>3, <1>4, <1>5, <1>6

\* What the broker reads is what Broker lets arrive.
LEMMA ReadsArrive ==
  ASSUME TInv, PeerInv, NEW c \in W!Conns, BrokerReads(c)
  PROVE  LET m == Head(up[c])
         IN  /\ m \in Message /\ InUp(m) /\ Sendable(m)
             /\ \/ m.type = "READY" /\ HandleReady(m) /\ ReadyArrives(m.session, m.route)
                \/ m.type = "HEARTBEAT" /\ HandleHeartbeat(m.route)
                     /\ HeartbeatArrives(m.route)
                \/ /\ m.type = "RESULT" /\ HandleResult(m)
                   /\ \E d \in JobsSent : ResultArrives(d, m.session, m.route)
<1> DEFINE m == Head(up[c])
<1>1. m \in Message /\ InQ(up[c], m)
  <2>1. up[c] \in Seq(Message) /\ up[c] # <<>>
    BY DEF BrokerReads, PeerInv, SideType
  <2>2. m \in Message /\ up[c][1] = m /\ 1 \in 1..Len(up[c])
    BY <2>1
  <2>3. QED
    BY <2>2 DEF InQ
<1>2. InUp(m)
  BY <1>1 DEF InUp
<1>3. Sendable(m)
  BY <1>1, <1>2 DEF PeerInv, UpInv
<1>4. /\ m.type = "READY" => HandleReady(m)
      /\ m.type = "HEARTBEAT" => HandleHeartbeat(m.route)
      /\ m.type = "RESULT" => HandleResult(m)
  BY DEF BrokerReads
<1>5. m \in [type : {"READY", "READY_ACK", "HEARTBEAT", "JOB", "RESULT", "RESULT_ACK"},
             route : Routes, session : Sessions, job : Jobs \union {None}]
  BY <1>1 DEF Message
<1> HIDE DEF m
<1>6. CASE m.type = "READY"
  <2>1. /\ m.job = None /\ m.session \in {First, Second}
        /\ m.route \in RoutesOf[m.session] /\ ~Known(m.session)
    BY <1>3, <1>6 DEF Sendable
  <2>2. m = Msg("READY", m.route, m.session, None)
    BY <1>5, <1>6, <2>1 DEF Msg
  <2>3. ASSUME NEW e \in Sessions, WorkerOf[e] = WorkerOf[m.session],
               Generation[e] < Generation[m.session]
        PROVE  Known(e)
    <3>1. Generation \in [Sessions -> Nat]
      BY PeerAssumption
    <3>2. e = First
      BY <2>1, <2>3, <3>1, RunConstants, OneWorkersRun
    <3>3. m.session # First
      BY <2>3, <3>1, <3>2, RunConstants
    <3>4. socket_generation # 0
      BY <1>1, <1>2, <1>6, <3>3, FirstOnly
    <3>5. QED
      BY <3>2, <3>4, FirstKnown
  <2>4. ReadyArrives(m.session, m.route)
    <3>1. HandleReady(Msg("READY", m.route, m.session, None))
      BY <1>4, <1>6, <2>2
    <3>2. QED
      BY <2>1, <2>3, <3>1 DEF ReadyArrives, Known
  <2>5. QED
    BY <1>1, <1>2, <1>3, <1>4, <1>6, <2>4 DEF m
<1>7. CASE m.type = "HEARTBEAT"
  <2>1. HeartbeatArrives(m.route)
    BY <1>3, <1>4, <1>7 DEF Sendable, HeartbeatArrives
  <2>2. QED
    BY <1>1, <1>2, <1>3, <1>4, <1>7, <2>1 DEF m
<1>8. CASE m.type = "RESULT"
  <2>1. /\ m.session = W!session_id /\ m.route \in RoutesOf[m.session]
        /\ m.job # None /\ m.job = wstats.job_id /\ ~stats.raw_message_received
    BY <1>3, <1>8 DEF Sendable
  <2>2. PICK d \in JobsSent : d.job = m.job
    BY <2>1 DEF PeerInv, DownInv
  <2>3. m = Msg("RESULT", m.route, m.session, d.job)
    BY <1>5, <1>8, <2>2 DEF Msg
  <2>4. d \in sent /\ d.type = "JOB" /\ d.session \in Sessions
    BY <2>2 DEF JobsSent, TInv, TypeOK, Message
  <2>5. Known(d.session) /\ d.session \in {First, Second}
    BY <2>4 DEF PeerInv, KnownInv
  <2>6. /\ WorkerOf[m.session] = WorkerOf[d.session]
        /\ Generation[m.session] >= Generation[d.session]
    <3>1. Generation \in [Sessions -> Nat]
      BY PeerAssumption
    <3>2. CASE socket_generation = 0
      BY <2>1, <2>4, <2>5, <3>1, <3>2, FirstOnly, RunConstants
    <3>3. CASE socket_generation # 0
      BY <2>1, <2>5, <3>1, <3>3, FirstKnown, RunConstants, OneWorkersRun
    <3>4. QED
      BY <3>2, <3>3
  <2>7. HandleResult(Msg("RESULT", m.route, m.session, d.job))
    BY <1>4, <1>8, <2>3
  <2>8. ResultArrives(d, m.session, m.route)
    BY <2>1, <2>6, <2>7 DEF ResultArrives
  <2>9. QED
    BY <1>1, <1>2, <1>3, <1>4, <1>8, <2>2, <2>8 DEF m
<1>9. QED
  BY <1>3, <1>6, <1>7, <1>8 DEF Sendable

LEMMA StepsOfBroker ==
  ASSUME TInv, PeerInv, [SysNext]_sysVars
  PROVE  [Next]_vars
<1>1. CASE BrokerSends \/ BrokerKeepsToItself
  BY <1>1, OwnSteps
<1>2. ASSUME NEW c \in W!Conns, BrokerReads(c)
      PROVE  Next
  <2>1. PICK m \in Message : m = Head(up[c])
    BY <1>2, ReadsArrive
  <2>2. m.session \in Sessions /\ m.route \in Routes
    BY <2>1 DEF Message
  <2>3. \/ ReadyArrives(m.session, m.route)
        \/ HeartbeatArrives(m.route)
        \/ \E d \in JobsSent : ResultArrives(d, m.session, m.route)
    BY <1>2, <2>1, ReadsArrive
  <2>4. QED
    BY <2>2, <2>3 DEF Next, Arrival
<1>3. CASE WorkerStep \/ TransportStep \/ Collect \/ UNCHANGED sysVars
  BY <1>3 DEF WorkerStep, TransportStep, Collect, sysVars
<1>4. QED
  BY <1>1, <1>2, <1>3 DEF SysNext, BrokerStep

-----------------------------------------------------------------------------
(* What a step of the broker does to what the worker knows of it.          *)

\* A message of the broker is put on the ROUTER socket: it has a record to go
\* to, or had one when it was asked for.
Puts(m) ==
  /\ m \in Message
  /\ m.type \in {"READY_ACK", "HEARTBEAT", "JOB", "RESULT_ACK"}
  /\ m.type \in {"HEARTBEAT", "JOB"} => Known(m.session)
  /\ m.type = "READY_ACK" => AckReady
  /\ sent' = sent \union {m}
  /\ down' = W!Routed(m)

LEMMA OwnRecords ==
  ASSUME TInv, BrokerSends \/ BrokerKeepsToItself
  PROVE  \A s \in Sessions : Known(s) <=> Known(s)'
<1>1. CASE MainThread
  BY <1>1, MainRecords
<1>2. CASE Expire("heartbeat")
  <2>1. CASE RegistryStep
    <3>1. ASSUME NEW t \in Threads, Mark(t)
          PROVE  \A s \in Sessions : Known(s) <=> Known(s)'
      <4>1. cur[t] \in Sessions /\ Known(cur[t])
        BY <3>1, NoneAssumption
           DEF Mark, At, TInv, TypeOK, RecordsExist, LocalsSet, Expiring,
               ExpiryPlaces
      <4>2. QED
        BY <3>1, <4>1, TransitionEffect DEF Mark, TInv, TypeOK, WorkerStates
    <3>2. ASSUME NEW t \in Threads, DeleteRoute(t) \/ DeleteId(t)
          PROVE  \A s \in Sessions : Known(s) <=> Known(s)'
      BY <3>2 DEF DeleteRoute, DeleteId, Known
    <3>3. ASSUME NEW s \in Sessions, NEW r \in Routes, ReadyArrives(s, r)
          PROVE  FALSE
      <4>1. pc'["main"] # pc["main"]
        BY <3>3, ReadyRegistry
      <4>2. pc'["main"] = pc["main"]
        BY <1>2 DEF Expire, Scan, Mark, Remove, DeleteRoute, CheckId, DeleteId,
                    EndExpiry, Goto, TInv, TypeOK, Threads
      <4>3. QED
        BY <4>1, <4>2
    <3>4. QED
      BY <2>1, <3>1, <3>2, <3>3 DEF RegistryStep
  <2>2. CASE ~RegistryStep
    <3>1. Passive
      BY <1>2, <2>2, ExpirePassive DEF Threads
    <3>2. QED
      BY <3>1 DEF Passive
  <2>3. QED
    BY <2>1, <2>2
<1>3. CASE \/ Wake \/ Rest \/ (\E s \in Sessions : SendBeat(s))
           \/ (\E s \in Sessions : Lapse(s)) \/ \E d \in Deadlines : DeadlinePasses(d)
  <2>1. rec' = rec
    BY <1>3 DEF Wake, Rest, SendBeat, Lapse, DeadlinePasses, registry
  <2>2. QED
    BY <2>1 DEF Known
<1>4. QED
  BY <1>1, <1>2, <1>3 DEF BrokerSends, BrokerKeepsToItself, MainThread, Threads

LEMMA OwnRaw ==
  ASSUME TInv, BrokerSends \/ BrokerKeepsToItself
  PROVE  stats'.raw_message_received = stats.raw_message_received
<1>a. stats \in BrokerStats
  BY DEF TInv, TypeOK
<1>1. ASSUME NEW t \in Threads, Expire(t)
      PROVE  stats'.raw_message_received = stats.raw_message_received
  <2>1. CASE Mark(t)
    BY <1>a, <2>1 DEF Mark, BrokerStats
  <2>2. CASE ~Mark(t)
    BY <1>1, <2>2 DEF Expire, Scan, Remove, DeleteRoute, CheckId, DeleteId, EndExpiry
  <2>3. QED
    BY <2>1, <2>2
<1>2. CASE Finalize
  BY <1>a, <1>2 DEF Finalize, BrokerStats
<1>3. CASE DecideResult
  BY <1>a, <1>3 DEF DecideResult, Accept, Reject, BrokerStats
<1>4. CASE AckResult
  BY <1>a, <1>4 DEF AckResult, BrokerStats
<1>5. CASE \E j \in Jobs : Assign(j)
  BY <1>a, <1>5 DEF Assign, BrokerStats
<1>6. CASE UNCHANGED stats
  BY <1>6
<1>7. QED
  BY <1>1, <1>2, <1>3, <1>4, <1>5, <1>6
     DEF BrokerSends, BrokerKeepsToItself, AckReady, SendJob, SendBeat,
         StartExpiry, PollTimeout, EnterGrace, Shutdown, RegisterId, Refresh,
         SettleWorker, PickWorker, Lapse, NothingToDispatch, DeadlinePasses,
         Wake, Rest

LEMMA OwnMessages ==
  ASSUME TInv, BrokerSends
  PROVE  /\ \E m \in Message : Puts(m)
         /\ UNCHANGED <<link, up, bound>>
<1> USE DEF Sends, Puts, Send
<1>a. TypeOK /\ RecordsExist /\ LocalsSet
  BY DEF TInv
<1>1. CASE AckReady /\ Sends(Msg("READY_ACK", msg.route, msg.session, None))
  <2>1. msg \in Message
    BY <1>a, <1>1, NoneAssumption DEF AckReady, At, TypeOK, LocalsSet
  <2>2. Msg("READY_ACK", msg.route, msg.session, None) \in Message
    BY <2>1 DEF Msg, Message
  <2>3. Puts(Msg("READY_ACK", msg.route, msg.session, None))
    BY <1>1, <2>2 DEF AckReady, Msg
  <2>4. QED
    BY <1>1, <2>2, <2>3
<1>2. CASE AckResult /\ Sends(Msg("RESULT_ACK", msg.route, msg.session, msg.job))
  <2>1. msg \in Message
    BY <1>a, <1>2, NoneAssumption DEF AckResult, At, TypeOK, LocalsSet
  <2>2. Msg("RESULT_ACK", msg.route, msg.session, msg.job) \in Message
    BY <2>1 DEF Msg, Message
  <2>3. Puts(Msg("RESULT_ACK", msg.route, msg.session, msg.job))
    BY <1>2, <2>2 DEF AckResult, Msg
  <2>4. QED
    BY <1>2, <2>2, <2>3
<1>3. CASE SendJob /\ Sends(Msg("JOB", rec[worker].route, worker, stats.job_id))
  <2>1. worker \in Sessions /\ Known(worker) /\ rec[worker].route \in Routes
        /\ stats.job_id \in Jobs
    BY <1>a, <1>3 DEF SendJob, At, TypeOK, RecordsExist, LocalsSet
  <2>2. Msg("JOB", rec[worker].route, worker, stats.job_id) \in Message
    BY <2>1 DEF Msg, Message
  <2>3. Puts(Msg("JOB", rec[worker].route, worker, stats.job_id))
    BY <1>3, <2>1, <2>2 DEF SendJob, Msg
  <2>4. QED
    BY <1>3, <2>2, <2>3
<1>4. ASSUME NEW s \in Sessions, SendBeat(s),
             Sends(Msg("HEARTBEAT", rec[s].route, s, None))
      PROVE  (\E m \in Message : Puts(m)) /\ UNCHANGED <<link, up, bound>>
  <2>1. Known(s) /\ rec[s].route \in Routes
    BY <1>a, <1>4 DEF SendBeat, RecordsExist, Threads
  <2>2. Msg("HEARTBEAT", rec[s].route, s, None) \in Message
    BY <2>1 DEF Msg, Message
  <2>3. Puts(Msg("HEARTBEAT", rec[s].route, s, None))
    BY <1>4, <2>1, <2>2 DEF SendBeat, Msg
  <2>4. QED
    BY <1>4, <2>2, <2>3
<1>5. QED
  BY <1>1, <1>2, <1>3, <1>4 DEF BrokerSends

LEMMA OwnSilence ==
  ASSUME TInv, BrokerKeepsToItself
  PROVE  sent' = sent
<1>1. ASSUME NEW t \in Threads, Expire(t)
      PROVE  sent' = sent
  BY <1>1 DEF Expire, Scan, Mark, Remove, DeleteRoute, CheckId, DeleteId, EndExpiry
<1>2. QED
  BY <1>1
     DEF BrokerKeepsToItself, StartExpiry, PollTimeout, EnterGrace, Finalize,
         Shutdown, RegisterId, Refresh, DecideResult, SettleWorker, PickWorker,
         Lapse, NothingToDispatch, Assign, DeadlinePasses, Wake, Rest

-----------------------------------------------------------------------------
(* The invariant of the messages on their way is kept by a step that       *)
(* leaves no more of them than those of N.                                 *)

Adds(N) == \A n \in Message : InUp(n)' => InUp(n) \/ n \in N

\* They are new, and the worker may send them.
MaySend(N) ==
  \A n \in N :
    /\ Sendable(n)'
    /\ n.type = "READY" =>
         /\ net' \notin {"start", "send_ready"}
         /\ socket_generation' = 0 => n.session # Second
    /\ n.type = "RESULT" => ~Pending'

\* The worker goes on: it does not go back before its RESULT, and a session that
\* is to send READY is its first or a new one.
GoesOn ==
  /\ Pending' => Pending
  /\ ~Pending => UNCHANGED <<socket_generation, wstats.job_id>>
  /\ socket_generation' = 0 => socket_generation = 0
  /\ socket_generation' \in 0..1
  /\ net' \in {"start", "send_ready"} =>
       \/ net \in {"start", "send_ready"} /\ socket_generation' = socket_generation
       \/ socket_generation = 0 /\ socket_generation' = 1

LEMMA UpKept ==
  ASSUME UpInv,
         Unrepeated(up)',
         \A s \in Sessions : Known(s) <=> Known(s)',
         stats'.raw_message_received = stats.raw_message_received,
         sent \subseteq sent',
         NEW N, Adds(N), MaySend(N), GoesOn
  PROVE  UpInv'
<1> USE DEF Adds, MaySend, GoesOn
<1>a. First \in Sessions /\ Second \in Sessions /\ First # Second
  BY RunConstants
<1>1. ASSUME NEW s \in Sessions, Fresh(s),
             \A n \in N : n.type = "READY" => n.session # s
      PROVE  Fresh(s)'
  BY <1>1 DEF Fresh
<1>2. ASSUME NEW n \in Message, InUp(n)'
      PROVE  Sendable(n)'
  <2>1. CASE n \in N
    BY <2>1
  <2>2. CASE InUp(n)
    <3>1. Sendable(n)
      BY <2>2 DEF UpInv
    <3>2. n.type = "RESULT" => ~Pending
      BY <2>2 DEF UpInv
    <3>3. n.type = "RESULT" => W!session_id' = W!session_id /\ wstats'.job_id = wstats.job_id
      BY <3>2 DEF W!session_id
    <3>4. n.session \in Sessions
      BY DEF Message
    <3>5. n.type = "READY" => ~Known(n.session)'
      BY <3>1, <3>4 DEF Sendable
    <3>6. n.type = "HEARTBEAT" =>
            \E k \in sent' : k.type = "HEARTBEAT" /\ k.route = n.route
      BY <3>1 DEF Sendable
    <3>7. n.type = "RESULT" =>
            /\ n.session = W!session_id' /\ n.route \in RoutesOf[n.session]
            /\ n.job # None /\ n.job = wstats'.job_id
            /\ ~stats'.raw_message_received
      BY <3>1, <3>3 DEF Sendable
    <3>8. QED
      BY <3>1, <3>5, <3>6, <3>7 DEF Sendable
  <2>3. QED
    BY <1>2, <2>1, <2>2
<1>3. net' \in {"start", "send_ready"} => Fresh(W!session_id)'
  <2> SUFFICES ASSUME net' \in {"start", "send_ready"}
               PROVE  Fresh(W!session_id)'
    OBVIOUS
  <2>1. PICK s \in Sessions : s = W!session_id'
    BY OneRun DEF W!session_id
  <2>2. Fresh(s)
    <3>1. CASE net \in {"start", "send_ready"} /\ socket_generation' = socket_generation
      BY <2>1, <3>1 DEF UpInv, W!session_id
    <3>2. CASE socket_generation = 0 /\ socket_generation' = 1
      BY <2>1, <3>2 DEF UpInv, W!session_id, Second
    <3>3. QED
      BY <3>1, <3>2
  <2>3. Fresh(s)'
    BY <1>1, <2>2
  <2>4. QED
    BY <2>1, <2>3 DEF Fresh
<1>4. socket_generation' = 0 => Fresh(Second)'
  BY <1>a, <1>1 DEF UpInv
<1>5. Pending' => /\ ~stats'.raw_message_received
                  /\ \A n \in Message : InUp(n)' => n.type # "RESULT"
  BY DEF UpInv
<1>6. QED
  BY <1>2, <1>3, <1>4, <1>5 DEF UpInv

LEMMA DownKept ==
  ASSUME DownInv, sent \subseteq sent',
         \A c \in W!Conns : \A n \in Message :
           InQ(down'[c], n) => \/ InQ(down[c], n)
                               \/ n \in sent' /\ n.route = RouteOf[c],
         \/ wstats'.job_id = wstats.job_id
         \/ \E d \in JobsSent : wstats'.job_id = d.job
  PROVE  DownInv'
BY DEF DownInv, JobsSent

\* The broker's side and the sockets change nothing the worker itself has.
LEMMA WorkerKept ==
  ASSUME SideType, ControlInv, UNCHANGED workerVars,
         link' \in [W!Conns -> W!LinkStates], bound' \in BOOLEAN,
         up' \in [W!Conns -> Seq(Message)], down' \in [W!Conns -> Seq(Message)]
  PROVE  SideType' /\ ControlInv' /\ (Pending' <=> Pending)
<1>1. SideType'
  BY DEF SideType, W!WorkerTypeOK, workerVars
<1>2. ControlInv'
  BY DEF ControlInv, W!NetEnded, Resting, workerVars, Early, W!Separate
<1>3. Pending' <=> Pending
  BY DEF workerVars, Pending, Early, W!Separate
<1>4. QED
  BY <1>1, <1>2, <1>3

LEMMA RoutedItems ==
  ASSUME down \in [W!Conns -> Seq(Message)], NEW m \in Message, down' = W!Routed(m)
  PROVE  /\ down' \in [W!Conns -> Seq(Message)]
         /\ \A c \in W!Conns :
              \/ down'[c] = down[c]
              \/ link[c] = "attached" /\ RouteOf[c] = m.route
                   /\ down'[c] = W!Queued(down[c], m)
         /\ \A c \in W!Conns : \A n \in Message :
              InQ(down'[c], n) => InQ(down[c], n) \/ (n = m /\ m.route = RouteOf[c])
<1>1. \A c \in W!Conns : \/ down'[c] = down[c]
                         \/ link[c] = "attached" /\ RouteOf[c] = m.route
                              /\ down'[c] = W!Queued(down[c], m)
  BY DEF W!Routed
<1>2. \A c \in W!Conns : down[c] \in Seq(Message) /\ W!Queued(down[c], m) \in Seq(Message)
  BY QueuedItems
<1>3. down' \in [W!Conns -> Seq(Message)]
  BY <1>1, <1>2 DEF W!Routed
<1>4. ASSUME NEW c \in W!Conns, NEW n \in Message, InQ(down'[c], n)
      PROVE  InQ(down[c], n) \/ (n = m /\ m.route = RouteOf[c])
  <2>1. CASE down'[c] = down[c]
    BY <1>4, <2>1
  <2>2. CASE /\ link[c] = "attached" /\ RouteOf[c] = m.route
             /\ down'[c] = W!Queued(down[c], m)
    <3>1. n = m \/ InQ(down[c], n)
      BY <1>2, <1>4, <2>2, QueuedItems
    <3>2. QED
      BY <2>2, <3>1
  <2>3. QED
    BY <1>1, <2>1, <2>2
<1>5. QED
  BY <1>1, <1>3, <1>4

LEMMA OwnPeer ==
  ASSUME TInv, PeerInv,
         \/ BrokerSends /\ UNCHANGED <<workerVars, outcome>>
         \/ BrokerKeepsToItself /\ UNCHANGED <<workerSide, outcome>>
  PROVE  PeerInv'
<1> USE DEF PeerInv
<1>1. /\ \A s \in Sessions : Known(s) <=> Known(s)'
      /\ stats'.raw_message_received = stats.raw_message_received
  BY OwnRecords, OwnRaw
<1>2. UNCHANGED workerVars /\ link' = link /\ bound' = bound /\ up' = up
  BY OwnMessages DEF workerSide, sockets
<1>3. \/ sent' = sent /\ down' = down
      \/ \E m \in Message : Puts(m)
  BY OwnMessages, OwnSilence DEF workerSide, sockets
<1>4. /\ down' \in [W!Conns -> Seq(Message)]
      /\ sent \subseteq sent'
      /\ \A c \in W!Conns : \A n \in Message :
           InQ(down'[c], n) => \/ InQ(down[c], n)
                               \/ n \in sent' /\ n.route = RouteOf[c]
  <2>1. CASE sent' = sent /\ down' = down
    BY <2>1 DEF SideType
  <2>2. ASSUME NEW m \in Message, Puts(m)
        PROVE  <1>4!:
    BY <2>2, RoutedItems DEF SideType, Puts
  <2>3. QED
    BY <1>3, <2>1, <2>2
<1>5. SideType' /\ ControlInv' /\ (Pending' <=> Pending)
  BY <1>2, <1>4, WorkerKept DEF SideType, W!WorkerTypeOK
<1>6. UpInv'
  <2>1. UNCHANGED <<net, socket_generation, wstats>> /\ socket_generation \in 0..1
    BY <1>2 DEF workerVars, SideType, W!WorkerTypeOK
  <2>2. Unrepeated(up)' /\ Adds({}) /\ MaySend({})
    BY <1>2 DEF UpInv, InUp, Adds, MaySend
  <2>3. GoesOn /\ UpInv
    BY <1>5, <2>1 DEF GoesOn
  <2>4. QED
    BY ONLY <1>1, <1>4, <2>2, <2>3, UpKept
<1>7. DownInv'
  BY <1>2, <1>4, DownKept DEF workerVars
<1>8. KnownInv'
  <2>1. \A s \in Sessions : Known(s)' => s \in {First, Second}
    BY <1>1 DEF KnownInv
  <2>2. \A m \in sent' : m.type \in {"HEARTBEAT", "JOB"} => Known(m.session)'
    <3>1. \A m \in sent' : m \in Message /\ m.session \in Sessions
      BY <1>3 DEF TInv, TypeOK, Message, Puts
    <3>2. \A m \in sent' : m.type \in {"HEARTBEAT", "JOB"} => Known(m.session)
      BY <1>3 DEF Puts, KnownInv
    <3>3. QED
      BY <1>1, <3>1, <3>2
  <2>3. JobsSent' # {} => Known(First)'
    <3>1. ASSUME JobsSent' # {} PROVE Known(First)
      <4>1. CASE JobsSent # {}
        BY <4>1 DEF KnownInv
      <4>2. CASE JobsSent = {}
        <5>1. PICK m \in Message : m.type = "JOB" /\ Known(m.session)
          BY <1>3, <3>1, <4>2 DEF JobsSent, Puts
        <5>2. m.session \in {First, Second}
          BY <5>1 DEF KnownInv, Message
        <5>3. CASE socket_generation = 0
          BY <5>1, <5>2, <5>3, FirstOnly, RunConstants
        <5>4. CASE socket_generation # 0
          BY <5>4, FirstKnown
        <5>5. QED
          BY <5>3, <5>4
      <4>3. QED
        BY <4>1, <4>2
    <3>2. QED
      BY <1>1, <3>1, RunConstants
  <2>4. QED
    BY <2>1, <2>2, <2>3 DEF KnownInv
<1>9. QED
  BY <1>5, <1>6, <1>7, <1>8

\* A READY makes its session known, and a RESULT is noted.
LEMMA ReadRecords ==
  ASSUME TInv, PeerInv, NEW c \in W!Conns, BrokerReads(c),
         NEW m \in Message, m = Head(up[c])
  PROVE  /\ \A s \in Sessions :
              Known(s)' <=> Known(s) \/ (m.type = "READY" /\ s = m.session)
         /\ stats'.raw_message_received =
              (stats.raw_message_received \/ m.type = "RESULT")
<1>a. \/ m.type = "READY" /\ HandleReady(m) /\ ReadyArrives(m.session, m.route)
      \/ m.type = "HEARTBEAT" /\ HandleHeartbeat(m.route)
      \/ m.type = "RESULT" /\ HandleResult(m)
  BY ReadsArrive
<1>1. CASE m.type = "READY" /\ HandleReady(m) /\ ReadyArrives(m.session, m.route)
  <2>1. m.session \in Sessions /\ m.route \in Routes
    BY DEF Message
  <2>2. /\ Known(m.session)'
        /\ \A x \in Sessions \ {m.session} : rec'[x] = rec[x]
    BY <1>1, <2>1, ReadyRegistry
  <2>3. stats' = stats
    BY <1>1 DEF HandleReady
  <2>4. \A x \in Sessions \ {m.session} : Known(x)' <=> Known(x)
    BY <2>2 DEF Known
  <2>5. stats.raw_message_received \in BOOLEAN
    BY DEF TInv, TypeOK, BrokerStats
  <2>6. QED
    BY <1>1, <2>1, <2>2, <2>3, <2>4, <2>5
<1>2. CASE m.type = "HEARTBEAT" /\ HandleHeartbeat(m.route)
  <2>1. rec' = rec /\ stats' = stats /\ stats.raw_message_received \in BOOLEAN
    BY <1>2 DEF HandleHeartbeat, registry, TInv, TypeOK, BrokerStats
  <2>2. QED
    BY <1>2, <2>1 DEF Known
<1>3. CASE m.type = "RESULT" /\ HandleResult(m)
  <2>1. rec' = rec /\ stats' = [stats EXCEPT !.raw_message_received = TRUE]
        /\ stats \in BrokerStats
    BY <1>3 DEF HandleResult, registry, TInv, TypeOK
  <2>2. stats'.raw_message_received = TRUE /\ stats.raw_message_received \in BOOLEAN
    BY <2>1 DEF BrokerStats
  <2>3. QED
    BY <1>3, <2>1, <2>2 DEF Known
<1>4. QED
  BY <1>a, <1>1, <1>2, <1>3

LEMMA ReadPeer ==
  ASSUME TInv, PeerInv, NEW c \in W!Conns, BrokerReads(c),
         UNCHANGED <<workerVars, outcome>>
  PROVE  PeerInv'
<1> USE DEF PeerInv
<1>1. PICK m \in Message : m = Head(up[c])
  BY ReadsArrive
<1>2. /\ InUp(m) /\ Sendable(m)
      /\ \/ m.type = "READY" /\ HandleReady(m) /\ ReadyArrives(m.session, m.route)
         \/ m.type = "HEARTBEAT" /\ HandleHeartbeat(m.route)
         \/ m.type = "RESULT" /\ HandleResult(m)
  BY <1>1, ReadsArrive
<1>3. /\ up[c] # <<>> /\ up' = [up EXCEPT ![c] = Tail(up[c])]
      /\ UNCHANGED <<link, down, bound>>
      /\ UNCHANGED <<net, socket_generation, wstats, config>>
  BY DEF BrokerReads, workerVars
<1>4. up \in [W!Conns -> Seq(Message)] /\ up[c] \in Seq(Message)
  BY DEF SideType
<1>5. up' \in [W!Conns -> Seq(Message)]
  BY <1>3, <1>4, TailPart
<1>6. /\ \A d \in W!Conns : PartOf(up'[d], up[d])
      /\ m.type # "HEARTBEAT" =>
           \A d \in W!Conns : \A n \in Message :
             InQ(up'[d], n) => n.type # m.type \/ n.session # m.session
  BY <1>1, <1>3, <1>4, <1>5, TailUnrepeated DEF UpInv
<1>7. Unrepeated(up)'
  <2>1. Unrepeated(up) /\ up \in [W!Conns -> Seq(Message)]
    BY <1>4 DEF UpInv
  <2>2. \A u : u = up' => Unrepeated(u)
    BY <1>5, <1>6, <2>1, PartUnrepeated
  <2>3. QED
    BY <2>2
<1>8. \A n \in Message : InUp(n)' =>
        /\ InUp(n)
        /\ m.type = "HEARTBEAT" \/ n.type # m.type \/ n.session # m.session
  <2> SUFFICES ASSUME NEW n \in Message, InUp(n)'
               PROVE  /\ InUp(n)
                      /\ m.type = "HEARTBEAT" \/ n.type # m.type \/ n.session # m.session
    OBVIOUS
  <2>1. PICK d \in W!Conns : InQ(up'[d], n)
    BY DEF InUp, InQ
  <2>2. up'[d] \in Seq(Message) /\ up[d] \in Seq(Message) /\ PartOf(up'[d], up[d])
    BY <1>4, <1>5, <1>6
  <2>3. InQ(up[d], n)
    BY <2>1, <2>2, PartItems
  <2>4. QED
    BY <1>6, <2>1, <2>3 DEF InUp
<1>9. SideType' /\ ControlInv' /\ (Pending' <=> Pending)
  BY <1>3, <1>5, WorkerKept DEF SideType, W!WorkerTypeOK
<1>10. sent' = sent
  BY <1>2 DEF HandleReady, HandleHeartbeat, HandleResult
<1>11. DownInv'
  BY <1>3, <1>10, DownKept
<1>12. /\ \A s \in Sessions :
            Known(s)' <=> Known(s) \/ (m.type = "READY" /\ s = m.session)
       /\ stats'.raw_message_received =
            (stats.raw_message_received \/ m.type = "RESULT")
  BY <1>1, ReadRecords
<1>13. KnownInv'
  <2>1. m.type = "READY" => m.session \in {First, Second}
    BY <1>2 DEF Sendable
  <2>2. \A n \in sent : n.session \in Sessions
    BY DEF TInv, TypeOK, Message
  <2>3. QED
    BY <1>10, <1>12, <2>1, <2>2, RunConstants DEF KnownInv, JobsSent
<1>14. \A s \in Sessions : Fresh(s) => Fresh(s)'
  <2> SUFFICES ASSUME NEW s \in Sessions, Fresh(s) PROVE Fresh(s)'
    OBVIOUS
  <2>1. ~(m.type = "READY" /\ m.session = s)
    BY <1>2 DEF Fresh
  <2>2. ~Known(s)'
    BY <1>12, <2>1 DEF Fresh
  <2>3. \A n \in Message : InUp(n)' => ~(n.type = "READY" /\ n.session = s)
    BY <1>8 DEF Fresh
  <2>4. QED
    BY <2>2, <2>3 DEF Fresh
<1>15. \A n \in Message : InUp(n)' => Sendable(n)'
  <2> SUFFICES ASSUME NEW n \in Message, InUp(n)' PROVE Sendable(n)'
    OBVIOUS
  <2>1. InUp(n) /\ Sendable(n)
    BY <1>8 DEF UpInv
  <2>2. n.session \in Sessions
    BY DEF Message
  <2>3. n.type = "READY" => ~Known(n.session)'
    BY <1>8, <1>12, <2>1, <2>2 DEF Sendable
  <2>4. n.type = "RESULT" => ~stats'.raw_message_received
    <3>1. n.type = "RESULT" /\ m.type = "RESULT" => n.session = m.session
      BY <1>2, <2>1 DEF Sendable
    <3>2. QED
      BY <1>8, <1>12, <2>1, <3>1 DEF Sendable
  <2>5. W!session_id' = W!session_id
    BY <1>3 DEF W!session_id
  <2>6. QED
    BY <1>3, <1>10, <2>1, <2>3, <2>4, <2>5 DEF Sendable
<1>16. UpInv'
  <2>1. W!session_id' = W!session_id
    BY <1>3 DEF W!session_id
  <2>2. PICK s \in Sessions : s = W!session_id
    BY OneRun DEF W!session_id, SideType, W!WorkerTypeOK
  <2>3. net' \in {"start", "send_ready"} => Fresh(W!session_id)'
    <3>1. net' \in {"start", "send_ready"} => Fresh(s)'
      BY <1>3, <1>14, <2>2 DEF UpInv, Fresh
    <3>2. QED
      BY <2>1, <2>2, <3>1 DEF Fresh
  <2>4. socket_generation' = 0 => Fresh(Second)'
    BY <1>3, <1>14, RunConstants DEF UpInv
  <2>5. Pending' => /\ ~stats'.raw_message_received
                    /\ \A n \in Message : InUp(n)' => n.type # "RESULT"
    BY <1>2, <1>8, <1>9, <1>12 DEF UpInv
  <2>6. QED
    BY <1>7, <1>15, <2>3, <2>4, <2>5 DEF UpInv
<1>17. QED
  BY <1>9, <1>11, <1>13, <1>16

-----------------------------------------------------------------------------
(* Steps of the worker and of the sockets.                                 *)

\* The worker learns of a job by a JOB only.
LearnsJob ==
  \/ wstats'.job_id = wstats.job_id
  \/ \E d \in JobsSent : wstats'.job_id = d.job

Shrinks(v, u) == \A c \in W!Conns : PartOf(v[c], u[c])

LEMMA OthersKept ==
  ASSUME PeerInv, UNCHANGED vars, SideType', Shrinks(down', down), LearnsJob
  PROVE  DownInv' /\ KnownInv' /\ (\A s \in Sessions : Known(s) <=> Known(s)')
<1>1. sent' = sent /\ rec' = rec /\ stats' = stats
  BY DEF vars, registry
<1>2. \A c \in W!Conns : \A n \in Message : InQ(down'[c], n) => InQ(down[c], n)
  <2> TAKE c \in W!Conns
  <2>1. down'[c] \in Seq(Message) /\ down[c] \in Seq(Message) /\ PartOf(down'[c], down[c])
    BY DEF PeerInv, SideType, Shrinks
  <2>2. QED
    BY <2>1, PartItems
<1>3. JobsSent' = JobsSent
  BY <1>1 DEF JobsSent
<1>4. DownInv'
  BY <1>1, <1>2, <1>3, DownKept DEF PeerInv, LearnsJob
<1>5. KnownInv' /\ (\A s \in Sessions : Known(s) <=> Known(s)')
  BY <1>1, <1>3 DEF PeerInv, KnownInv, Known
<1>6. QED
  BY <1>4, <1>5

LEMMA SilentPeer ==
  ASSUME PeerInv, UNCHANGED vars, SideType', ControlInv',
         Shrinks(up', up), Shrinks(down', down), GoesOn, LearnsJob
  PROVE  PeerInv'
<1>1. DownInv' /\ KnownInv' /\ (\A s \in Sessions : Known(s) <=> Known(s)')
  BY OthersKept
<1>2. /\ stats'.raw_message_received = stats.raw_message_received
      /\ sent \subseteq sent'
  BY DEF vars
<1>3. up \in [W!Conns -> Seq(Message)] /\ up' \in [W!Conns -> Seq(Message)]
  BY DEF PeerInv, SideType
<1>4. Unrepeated(up)'
  <2>1. \A u : u = up' => Unrepeated(u)
    BY <1>3, PartUnrepeated DEF PeerInv, UpInv, Shrinks
  <2>2. QED
    BY <2>1
<1>5. Adds({}) /\ MaySend({})
  <2>1. ASSUME NEW n \in Message, NEW c \in W!Conns, InQ(up'[c], n)
        PROVE  InQ(up[c], n)
    <3>1. up'[c] \in Seq(Message) /\ up[c] \in Seq(Message) /\ PartOf(up'[c], up[c])
      BY <1>3 DEF Shrinks
    <3>2. QED
      BY <2>1, <3>1, PartItems
  <2>2. \A n \in Message : InUp(n)' => InUp(n)
    <3> SUFFICES ASSUME NEW n \in Message, InUp(n)' PROVE InUp(n)
      OBVIOUS
    <3>1. PICK c \in W!Conns : InQ(up'[c], n)
      BY DEF InUp, InQ
    <3>2. QED
      BY <2>1, <3>1 DEF InUp
  <2>3. QED
    BY <2>2 DEF Adds, MaySend
<1>6. UpInv
  BY DEF PeerInv
<1>7. UpInv'
  BY ONLY <1>1, <1>2, <1>4, <1>5, <1>6, UpKept, GoesOn
<1>8. QED
  BY <1>1, <1>7 DEF PeerInv

LEMMA SendPeer ==
  ASSUME PeerInv, UNCHANGED vars, SideType', ControlInv',
         NEW m \in Message, up' = [up EXCEPT ![conn] = Append(up[conn], m)],
         \/ m.type = "HEARTBEAT"
         \/ \A n \in Message : InUp(n) => n.type # m.type \/ n.session # m.session,
         MaySend({m}),
         Shrinks(down', down), GoesOn, LearnsJob
  PROVE  PeerInv'
<1>1. DownInv' /\ KnownInv' /\ (\A s \in Sessions : Known(s) <=> Known(s)')
  BY OthersKept
<1>2. /\ stats'.raw_message_received = stats.raw_message_received
      /\ sent \subseteq sent'
  BY DEF vars
<1>3. /\ up \in [W!Conns -> Seq(Message)] /\ up' \in [W!Conns -> Seq(Message)]
      /\ conn \in W!Conns
  BY DEF PeerInv, SideType, W!WorkerTypeOK
<1>4. Unrepeated(up)'
  <2>1. Unrepeated(up)
    BY DEF PeerInv, UpInv
  <2>2. \/ m.type = "HEARTBEAT"
        \/ \A d \in W!Conns : \A n \in Message :
             InQ(up[d], n) => n.type # m.type \/ n.session # m.session
    BY DEF InUp
  <2>3. PICK c \in W!Conns : c = conn
    BY <1>3
  <2>4. PICK u \in [W!Conns -> Seq(Message)] : u = up
    BY <1>3
  <2>5. PICK v \in [W!Conns -> Seq(Message)] : v = up'
    BY <1>3
  <2>6. /\ Unrepeated(u) /\ v = [u EXCEPT ![c] = Append(u[c], m)]
        /\ NoneLike(u, m)
    BY <2>1, <2>2, <2>3, <2>4, <2>5 DEF NoneLike
  <2>7. Unrepeated(v)
    BY ONLY <2>6, AppendUnrepeated, m \in Message, c \in W!Conns,
       u \in [W!Conns -> Seq(Message)], v \in [W!Conns -> Seq(Message)]
  <2>8. QED
    BY <2>5, <2>7
<1>5. Adds({m})
  <2>1. ASSUME NEW n \in Message, NEW c \in W!Conns, InQ(up'[c], n)
        PROVE  InQ(up[c], n) \/ n = m
    <3>1. CASE c = conn
      BY <1>3, <2>1, <3>1, AppendItems
    <3>2. CASE c # conn
      BY <1>3, <2>1, <3>2
    <3>3. QED
      BY <3>1, <3>2
  <2>2. \A n \in Message : InUp(n)' => InUp(n) \/ n \in {m}
    <3> SUFFICES ASSUME NEW n \in Message, InUp(n)' PROVE InUp(n) \/ n = m
      OBVIOUS
    <3>1. PICK c \in W!Conns : InQ(up'[c], n)
      BY DEF InUp, InQ
    <3>2. QED
      BY <2>1, <3>1 DEF InUp
  <2>3. QED
    BY <2>2 DEF Adds
<1>6. UpInv
  BY DEF PeerInv
<1>7. UpInv'
  BY ONLY <1>1, <1>2, <1>4, <1>5, <1>6, UpKept, GoesOn, MaySend({m})
<1>8. QED
  BY <1>1, <1>7 DEF PeerInv

LEMMA Cleared ==
  ASSUME NEW u \in [W!Conns -> Seq(Message)], NEW v, NEW c \in W!Conns,
         NEW q \in Seq(Message), PartOf(q, u[c]), v = [u EXCEPT ![c] = q]
  PROVE  v \in [W!Conns -> Seq(Message)] /\ Shrinks(v, u)
<1>1. v \in [W!Conns -> Seq(Message)] /\ v[c] = q /\ \A d \in W!Conns \ {c} : v[d] = u[d]
  OBVIOUS
<1>2. QED
  BY <1>1, WholePart DEF Shrinks

LEMMA SameWire ==
  ASSUME NEW u \in [W!Conns -> Seq(Message)]
  PROVE  Shrinks(u, u)
BY WholePart DEF Shrinks

\* A step of the sockets takes messages from the ends of the queues.
QueuesShrink ==
  /\ link' \in [W!Conns -> W!LinkStates] /\ bound' \in BOOLEAN
  /\ up' \in [W!Conns -> Seq(Message)] /\ Shrinks(up', up)
  /\ down' \in [W!Conns -> Seq(Message)] /\ Shrinks(down', down)

LEMMA TransportQueues ==
  ASSUME PeerInv, TransportStep
  PROVE  QueuesShrink
<1> USE DEF PeerInv, SideType, QueuesShrink
<1>1. ASSUME NEW c \in W!Conns, W!Attach(c)
      PROVE  QueuesShrink
  <2>1. link' \in [W!Conns -> W!LinkStates] /\ bound' \in BOOLEAN /\ down' = down
    BY <1>1 DEF W!Attach, W!WorkerTypeOK, W!LinkStates
  <2>2. up' = up \/ up' = [up EXCEPT ![c] = <<>>]
    BY <1>1 DEF W!Attach
  <2>3. <<>> \in Seq(Message) /\ PartOf(<<>>, up[c])
    BY EmptyPart
  <2>4. QED
    BY <2>1, <2>2, <2>3, Cleared, SameWire
<1>2. ASSUME NEW c \in W!Conns, W!Forget(c)
      PROVE  QueuesShrink
  <2>1. link' \in [W!Conns -> W!LinkStates] /\ bound' \in BOOLEAN /\ down' = down
        /\ up' = up
    BY <1>2 DEF W!Forget, W!WorkerTypeOK, W!LinkStates
  <2>2. QED
    BY <2>1, SameWire
<1>3. CASE W!Unbind
  <2>1. link' \in [W!Conns -> W!LinkStates] /\ bound' \in BOOLEAN
    BY <1>3 DEF W!Unbind, W!WorkerTypeOK, W!LinkStates
  <2>2. up' = [c \in W!Conns |-> <<>>]
    BY <1>3 DEF W!Unbind
  <2>3. /\ up' \in [W!Conns -> Seq(Message)]
        /\ \A c \in W!Conns : PartOf(up'[c], up[c])
    BY <2>2, EmptyPart
  <2>4. PICK q \in [W!Conns -> UNION {W!Prefixes(down[c]) : c \in W!Conns}] :
          down' = q /\ \A c \in W!Conns : q[c] \in W!Prefixes(down[c])
    BY <1>3 DEF W!Unbind
  <2>5. \A c \in W!Conns : q[c] \in Seq(Message) /\ PartOf(q[c], down[c])
    BY <2>4, PrefixPart
  <2>6. down' \in [W!Conns -> Seq(Message)] /\ \A c \in W!Conns : PartOf(down'[c], down[c])
    BY <2>4, <2>5
  <2>7. QED
    BY <2>1, <2>3, <2>6 DEF Shrinks
<1>4. QED
  BY <1>1, <1>2, <1>3 DEF TransportStep

LEMMA TransportPeer ==
  ASSUME PeerInv, TransportStep
  PROVE  PeerInv'
<1> USE DEF PeerInv, SideType
<1>1. UNCHANGED vars /\ UNCHANGED workerVars
  BY DEF TransportStep
<1>2. /\ link' \in [W!Conns -> W!LinkStates] /\ bound' \in BOOLEAN
      /\ up' \in [W!Conns -> Seq(Message)] /\ Shrinks(up', up)
      /\ down' \in [W!Conns -> Seq(Message)] /\ Shrinks(down', down)
  BY ONLY TransportQueues, PeerInv, TransportStep DEF QueuesShrink
<1>3. SideType' /\ ControlInv' /\ (Pending' <=> Pending)
  BY <1>1, <1>2, WorkerKept
<1>4. GoesOn /\ LearnsJob
  BY <1>1, <1>3 DEF GoesOn, LearnsJob, workerVars, W!WorkerTypeOK
<1>5. QED
  BY ONLY <1>1, <1>2, <1>3, <1>4, SilentPeer, PeerInv


-----------------------------------------------------------------------------
(* The worker's steps.                                                     *)

\* What a step of the worker does besides sending.
WorkerMoves ==
  /\ SideType' /\ ControlInv'
  /\ Shrinks(down', down) /\ GoesOn /\ LearnsJob

LEMMA ConfigKept ==
  ASSUME config' = config
  PROVE  /\ W!Separate' = W!Separate /\ W!ReconnectFirst' = W!ReconnectFirst
         /\ W!ModeUsed' = W!ModeUsed
BY DEF W!Separate, W!ReconnectFirst, W!ModeUsed

LEMMA SessionUsed ==
  ASSUME SideType
  PROVE  W!session_id \in Sessions /\ RouteOf[conn] \in Routes
BY OneRun DEF SideType, W!WorkerTypeOK, W!session_id

LEMMA Handed ==
  ASSUME SideType, NEW m \in Message, NEW ok \in BOOLEAN, W!SendMessage(m, ok)
  PROVE  /\ up' \in [W!Conns -> Seq(Message)]
         /\ up' = up \/ up' = [up EXCEPT ![conn] = Append(up[conn], m)]
<1>1. up \in [W!Conns -> Seq(Message)] /\ conn \in W!Conns /\ up[conn] \in Seq(Message)
  BY DEF SideType, W!WorkerTypeOK
<1>2. Append(up[conn], m) \in Seq(Message)
  BY <1>1, AppendItems
<1>3. up' = up \/ up' = [up EXCEPT ![conn] = W!Queued(up[conn], m)]
  BY DEF W!SendMessage, W!WithSent
<1>4. W!Queued(up[conn], m) \in {up[conn], Append(up[conn], m)}
  BY <1>1, QueuedItems
<1>5. QED
  BY <1>1, <1>2, <1>3, <1>4

LEMMA Received ==
  ASSUME PeerInv, NEW m, W!RecvMessage(m)
  PROVE  /\ m \in Message /\ InQ(down[conn], m) /\ m \in sent
         /\ m.route = RouteOf[conn] /\ socket
         /\ down' \in [W!Conns -> Seq(Message)] /\ Shrinks(down', down)
         /\ link' = link /\ bound' = bound
<1>1. /\ down \in [W!Conns -> Seq(Message)] /\ conn \in W!Conns
      /\ down[conn] \in Seq(Message) /\ down[conn] # <<>>
      /\ m = Head(down[conn]) /\ socket
      /\ down' = [down EXCEPT ![conn] = Tail(down[conn])]
      /\ link' = link /\ bound' = bound
  BY DEF PeerInv, SideType, W!WorkerTypeOK, W!RecvMessage
<1>2. /\ m \in Message /\ InQ(down[conn], m)
      /\ Tail(down[conn]) \in Seq(Message) /\ PartOf(Tail(down[conn]), down[conn])
  BY <1>1, TailPart DEF InQ
<1>3. m \in sent /\ m.route = RouteOf[conn]
  BY <1>1, <1>2 DEF PeerInv, DownInv
<1>4. down' \in [W!Conns -> Seq(Message)] /\ Shrinks(down', down)
  BY <1>1, <1>2, Cleared
<1>5. QED
  BY <1>1, <1>2, <1>3, <1>4

\* A step of the network side on a HEARTBEAT leaves the rest of its statistics.
LEMMA Echoed ==
  ASSUME SideType, NEW m \in Message, W!HandleHeartbeat(m)
  PROVE  /\ wstats' \in W!WorkerStats /\ wstats'.job_id = wstats.job_id
         /\ wstats'.send_succeeded = wstats.send_succeeded
         /\ wstats'.result_ack_received = wstats.result_ack_received
         /\ up' \in [W!Conns -> Seq(Message)]
         /\ \/ up' = up
            \/ up' = [up EXCEPT ![conn] = Append(up[conn], W!EchoOf(m))]
         /\ W!EchoOf(m) \in Message /\ W!EchoOf(m).type = "HEARTBEAT"
         /\ W!EchoOf(m).route = RouteOf[conn]
<1>1. wstats \in W!WorkerStats /\ up \in [W!Conns -> Seq(Message)]
  BY DEF SideType, W!WorkerTypeOK
<1>2. /\ wstats' \in W!WorkerStats /\ wstats'.job_id = wstats.job_id
      /\ wstats'.send_succeeded = wstats.send_succeeded
      /\ wstats'.result_ack_received = wstats.result_ack_received
  <2>1. PICK b \in BOOLEAN : wstats' = [wstats EXCEPT !.session_validated_heartbeat = b]
    BY <1>1 DEF W!HandleHeartbeat, W!WorkerStats
  <2>2. QED
    BY <1>1, <2>1 DEF W!WorkerStats
<1>3. /\ W!EchoOf(m) \in Message /\ W!EchoOf(m).type = "HEARTBEAT"
      /\ W!EchoOf(m).route = RouteOf[conn]
  BY SessionUsed DEF W!EchoOf, W!Msg, Message
<1>4. /\ up' \in [W!Conns -> Seq(Message)]
      /\ up' = up \/ up' = [up EXCEPT ![conn] = Append(up[conn], W!EchoOf(m))]
  <2>1. CASE up' = up
    BY <1>1, <2>1
  <2>2. ASSUME NEW ok \in BOOLEAN, W!SendMessage(W!EchoOf(m), ok)
        PROVE  <1>4!:
    BY <1>3, <2>2, Handed
  <2>3. QED
    BY <2>1, <2>2 DEF W!HandleHeartbeat
<1>5. QED
  BY <1>2, <1>3, <1>4

LEMMA ClosedConnection ==
  ASSUME SideType, NEW open \in BOOLEAN, W!CloseConnection(open)
  PROVE  /\ link' \in [W!Conns -> W!LinkStates] /\ bound' = bound
         /\ up' \in [W!Conns -> Seq(Message)] /\ Shrinks(up', up)
         /\ down' \in [W!Conns -> Seq(Message)] /\ Shrinks(down', down)
<1>a. /\ up \in [W!Conns -> Seq(Message)] /\ down \in [W!Conns -> Seq(Message)]
      /\ conn \in W!Conns /\ up[conn] \in Seq(Message)
      /\ link \in [W!Conns -> W!LinkStates]
  BY DEF SideType, W!WorkerTypeOK
<1>1. link' \in [W!Conns -> W!LinkStates] /\ bound' = bound
  BY <1>a DEF W!CloseConnection, W!LinkStates, W!Closed
<1>2. down' \in [W!Conns -> Seq(Message)] /\ Shrinks(down', down)
  <2>1. down' = [down EXCEPT ![conn] = <<>>]
    BY DEF W!CloseConnection
  <2>2. QED
    BY <1>a, <2>1, EmptyPart, Cleared
<1>3. up' \in [W!Conns -> Seq(Message)] /\ Shrinks(up', up)
  <2>1. PICK q \in W!HandedOver(conn) : up' = [up EXCEPT ![conn] = q]
    BY DEF W!CloseConnection
  <2>2. q \in W!Prefixes(up[conn]) \/ q = up[conn] \/ q = <<>>
    BY DEF W!HandedOver
  <2>3. q \in Seq(Message) /\ PartOf(q, up[conn])
    BY <1>a, <2>2, PrefixPart, WholePart, EmptyPart
  <2>4. QED
    BY <1>a, <2>1, <2>3, Cleared
<1>4. QED
  BY <1>1, <1>2, <1>3

LEMMA SilentStep ==
  ASSUME PeerInv, UNCHANGED vars, WorkerMoves, Shrinks(up', up)
  PROVE  PeerInv'
<1>1. SideType' /\ ControlInv' /\ Shrinks(down', down) /\ GoesOn /\ LearnsJob
  BY DEF WorkerMoves
<1>2. UNCHANGED vars /\ Shrinks(up', up)
  OBVIOUS
<1>3. QED
  BY ONLY <1>1, <1>2, SilentPeer, PeerInv

LEMMA EchoStep ==
  ASSUME PeerInv, UNCHANGED vars, WorkerMoves,
         NEW m \in sent, m.type = "HEARTBEAT", m.route = RouteOf[conn],
         NEW e \in Message, e.type = "HEARTBEAT", e.route = RouteOf[conn],
         up' = up \/ up' = [up EXCEPT ![conn] = Append(up[conn], e)]
  PROVE  PeerInv'
<1>1. CASE up' = up
  <2>1. Shrinks(up', up)
    BY <1>1, SameWire DEF PeerInv, SideType
  <2>2. QED
    BY <2>1, SilentStep
<1>2. CASE up' = [up EXCEPT ![conn] = Append(up[conn], e)]
  <2>1. sent' = sent
    BY DEF vars
  <2>2. Sendable(e)'
    BY <2>1 DEF Sendable
  <2>3. MaySend({e})
    BY <2>2 DEF MaySend
  <2>4. SideType' /\ ControlInv' /\ Shrinks(down', down) /\ GoesOn /\ LearnsJob
    BY DEF WorkerMoves
  <2>5. UNCHANGED vars
    OBVIOUS
  <2>6. QED
    BY ONLY <1>2, <2>3, <2>4, <2>5, SendPeer, PeerInv,
       e \in Message, e.type = "HEARTBEAT"
<1>3. QED
  BY <1>1, <1>2


\* Steps of the worker that touch no message.
LEMMA IdlePeer ==
  ASSUME PeerInv, UNCHANGED vars, config' = config,
         \/ W!Connect \/ W!ReadyAckTimeout \/ W!NoJob \/ W!HeartbeatWaitTimeout
         \/ W!ResultAckTimeout \/ W!Loop \/ W!PollTimeout \/ W!UsesClosedSocket
         \/ W!FinishJob \/ W!CallerStops
  PROVE  PeerInv'
<1>a. SideType /\ ControlInv
  BY DEF PeerInv
<1>1. /\ wstats' = wstats /\ conn' = conn /\ socket_generation' = socket_generation
      /\ up' = up /\ down' = down /\ bound' = bound
      /\ current_session_id' = current_session_id
  BY DEF W!Connect, W!ReadyAckTimeout, W!NoJob, W!HeartbeatWaitTimeout,
         W!ResultAckTimeout, W!Loop, W!PollTimeout, W!UsesClosedSocket,
         W!FinishJob, W!CallerStops, W!Expires, W!transport
<1>2. link' \in [W!Conns -> W!LinkStates]
  <2>1. CASE W!Connect
    BY <1>a, <2>1 DEF W!Connect, SideType, W!WorkerTypeOK, W!LinkStates
  <2>2. CASE link' = link
    BY <1>a, <2>2 DEF SideType, W!WorkerTypeOK
  <2>3. QED
    BY <2>1, <2>2
       DEF W!ReadyAckTimeout, W!NoJob, W!HeartbeatWaitTimeout,
           W!ResultAckTimeout, W!Loop, W!PollTimeout, W!UsesClosedSocket,
           W!FinishJob, W!CallerStops, W!Expires, W!transport
<1>3. /\ net' \in {"start", "send_ready", "ready_ack", "job", "working",
                   "strategy", "heartbeat", "send_result", "sent", "not_sent",
                   "result_ack", "loop", "poll", "end", "dead"}
      /\ socket' \in BOOLEAN /\ wstop' \in BOOLEAN
      /\ job_thread' \in {"none", "running", "finished"}
      /\ caller' \in {"waiting", "joining", "returned"}
      /\ ControlInv' /\ (Pending' => Pending)
      /\ net' \in {"start", "send_ready"} => net \in {"start", "send_ready"}
  <2> USE <1>a, <1>1, ConfigKept
      DEF SideType, W!WorkerTypeOK, W!NetEnded, ControlInv, Resting, Early,
          Pending
  <2>1. CASE W!Connect
    BY <2>1 DEF W!Connect
  <2>2. CASE W!ReadyAckTimeout
    BY <2>2 DEF W!ReadyAckTimeout, W!HandshakeFails, W!AfterHandshake, W!Initial,
                W!Expires
  <2>3. CASE W!NoJob
    BY <2>3 DEF W!NoJob, W!Expires
  <2>4. CASE W!HeartbeatWaitTimeout
    BY <2>4 DEF W!HeartbeatWaitTimeout, W!Expires
  <2>5. CASE W!ResultAckTimeout
    BY <2>5 DEF W!ResultAckTimeout, W!Expires
  <2>6. CASE W!Loop
    BY <2>6 DEF W!Loop
  <2>7. CASE W!PollTimeout
    BY <2>7 DEF W!PollTimeout, W!Expires
  <2>8. CASE W!UsesClosedSocket
    BY <2>8 DEF W!UsesClosedSocket
  <2>9. CASE W!FinishJob
    BY <2>9 DEF W!FinishJob
  <2>10. CASE W!CallerStops
    BY <2>10 DEF W!CallerStops
  <2>11. QED
    BY ONLY <2>1, <2>2, <2>3, <2>4, <2>5, <2>6, <2>7, <2>8, <2>9, <2>10,
       \/ W!Connect \/ W!ReadyAckTimeout \/ W!NoJob \/ W!HeartbeatWaitTimeout
       \/ W!ResultAckTimeout \/ W!Loop \/ W!PollTimeout \/ W!UsesClosedSocket
       \/ W!FinishJob \/ W!CallerStops
<1>4. SideType'
  BY <1>a, <1>1, <1>2, <1>3 DEF SideType, W!WorkerTypeOK
<1>5. Shrinks(up', up) /\ Shrinks(down', down)
  BY <1>a, <1>1, SameWire DEF SideType
<1>6. GoesOn /\ LearnsJob
  BY <1>a, <1>1, <1>3 DEF GoesOn, LearnsJob, SideType, W!WorkerTypeOK
<1>7. QED
  BY <1>3, <1>4, <1>5, <1>6, SilentStep DEF WorkerMoves


\* Steps of the worker that close a connection.
LEMMA ClosingPeer ==
  ASSUME PeerInv, UNCHANGED vars, config' = config,
         W!ApplyPostJobStrategy \/ W!Return
  PROVE  PeerInv'
<1>a. SideType /\ ControlInv
  BY DEF PeerInv
<1>1. /\ link' \in [W!Conns -> W!LinkStates] /\ bound' = bound
      /\ up' \in [W!Conns -> Seq(Message)] /\ Shrinks(up', up)
      /\ down' \in [W!Conns -> Seq(Message)] /\ Shrinks(down', down)
  <2>1. CASE UNCHANGED W!transport
    BY <1>a, <2>1, SameWire DEF SideType, W!WorkerTypeOK, W!transport
  <2>2. CASE W!CloseConnection(TRUE)
    BY <1>a, <2>2, ClosedConnection
  <2>3. CASE W!CloseConnection(FALSE)
    BY <1>a, <2>3, ClosedConnection
  <2>4. QED
    BY <2>1, <2>2, <2>3
       DEF W!ApplyPostJobStrategy, W!Return, W!Reconnect, W!transport
<1>2. /\ wstats' \in W!WorkerStats /\ wstats'.job_id = wstats.job_id
      /\ current_session_id' = current_session_id /\ job_thread' = job_thread
      /\ wstop' = wstop
  <2>1. wstats \in W!WorkerStats
    BY <1>a DEF SideType, W!WorkerTypeOK
  <2>2. \/ wstats' = wstats
        \/ wstats' = [wstats EXCEPT !.manual_reconnect_performed = TRUE]
    BY DEF W!ApplyPostJobStrategy, W!Return
  <2>3. QED
    BY <2>1, <2>2 DEF W!WorkerStats, W!ApplyPostJobStrategy, W!Return
<1>3. /\ net' \in {"strategy", "send_ready", "heartbeat", "send_result", net}
      /\ socket' \in BOOLEAN /\ caller' \in {"waiting", "joining", "returned"}
      /\ conn' \in W!Conns /\ socket_generation' \in 0..1
      /\ ControlInv' /\ (Pending' => Pending)
      /\ ~Pending => socket_generation' = socket_generation
      /\ socket_generation' = 0 => socket_generation = 0
      /\ net' \in {"start", "send_ready"} =>
           \/ net \in {"start", "send_ready"} /\ socket_generation' = socket_generation
           \/ socket_generation = 0 /\ socket_generation' = 1
  <2> USE <1>a, <1>2, ConfigKept
      DEF SideType, W!WorkerTypeOK, W!NetEnded, ControlInv, Resting, Early,
          Pending
  <2>1. CASE W!Return
    <3>1. /\ net' = net /\ conn' = conn /\ socket_generation' = socket_generation
          /\ socket' = FALSE /\ caller' = "returned"
          /\ W!Separate \/ W!NetEnded
      BY <2>1 DEF W!Return
    <3>2. ControlInv' /\ (Pending' <=> Pending)
      BY <3>1
    <3>3. QED
      BY <3>1, <3>2
  <2>2. CASE W!ApplyPostJobStrategy /\ ~W!ReconnectFirst
    BY <2>2 DEF W!ApplyPostJobStrategy
  <2>3. CASE W!ApplyPostJobStrategy /\ W!ReconnectFirst
    <3>1. /\ net = "strategy" /\ conn = 1 /\ socket_generation = 0
          /\ wstats.job_id # None
      BY <2>3 DEF W!ApplyPostJobStrategy
    <3>2. /\ socket' = TRUE /\ conn' = 2 /\ caller' = caller
          /\ socket_generation' = IF W!ModeUsed = "full" THEN 1 ELSE 0
      BY <2>3, <3>1 DEF W!ApplyPostJobStrategy, W!Reconnect
    <3>3. /\ net' \in {"heartbeat", "send_ready", "send_result"}
          /\ net' = "send_ready" => W!ModeUsed = "full"
      BY <2>3 DEF W!ApplyPostJobStrategy, W!AfterReconnect, W!ModeUsed
    <3>4. job_thread # "running" /\ (W!Separate => job_thread = "none")
      BY <3>1
    <3>5. QED
      BY <3>1, <3>2, <3>3, <3>4 DEF W!Conns
  <2>4. QED
    BY <2>1, <2>2, <2>3
<1>4. SideType'
  BY <1>a, <1>1, <1>2, <1>3 DEF SideType, W!WorkerTypeOK
<1>5. GoesOn /\ LearnsJob
  BY <1>2, <1>3 DEF GoesOn, LearnsJob
<1>6. QED
  BY <1>1, <1>3, <1>4, <1>5, SilentStep DEF WorkerMoves

LEMMA ReadyPeer ==
  ASSUME PeerInv, UNCHANGED vars, config' = config, W!SendReady
  PROVE  PeerInv'
<1>a. SideType /\ ControlInv
  BY DEF PeerInv
<1>1. PICK m \in Message :
        /\ m = Msg("READY", RouteOf[conn], W!session_id, None)
        /\ m.type = "READY" /\ m.session = W!session_id
        /\ m.route = RouteOf[conn] /\ m.job = None
  <2> DEFINE r == Msg("READY", RouteOf[conn], W!session_id, None)
  <2>1. /\ r \in Message /\ r.type = "READY" /\ r.session = W!session_id
        /\ r.route = RouteOf[conn] /\ r.job = None
    BY <1>a, SessionUsed DEF Msg, Message
  <2> HIDE DEF r
  <2>2. QED
    BY <2>1 DEF r
<1>2. PICK ok \in BOOLEAN :
        /\ W!SendMessage(m, ok)
        /\ IF ok THEN net' = "ready_ack" /\ wstop' = wstop ELSE W!HandshakeFails
  BY <1>1 DEF W!SendReady, W!Msg, Msg
<1>3. /\ net = "send_ready" /\ wstats' = wstats /\ conn' = conn
      /\ socket_generation' = socket_generation /\ down' = down /\ link' = link
      /\ bound' = bound /\ current_session_id' = current_session_id
      /\ socket' = socket /\ job_thread' = job_thread /\ caller' = caller
  BY DEF W!SendReady
<1>4. /\ up' \in [W!Conns -> Seq(Message)]
      /\ up' = up \/ up' = [up EXCEPT ![conn] = Append(up[conn], m)]
  BY <1>a, <1>1, <1>2, Handed
<1>5. /\ net' \in {"ready_ack", "send_result", "end"} /\ wstop' \in BOOLEAN
      /\ net' = "end" => wstats.job_id = None
      /\ net' = "send_result" => wstats.job_id # None
  BY <1>a, <1>2 DEF W!HandshakeFails, W!AfterHandshake, W!Initial, SideType,
                    W!WorkerTypeOK
<1>6. SideType'
  BY <1>a, <1>3, <1>4, <1>5 DEF SideType, W!WorkerTypeOK
<1>7. ControlInv' /\ (Pending' <=> Pending)
  BY <1>a, <1>3, <1>5, ConfigKept DEF ControlInv, W!NetEnded, Resting, Early,
                                                Pending
<1>8. GoesOn /\ LearnsJob /\ Shrinks(down', down)
  BY <1>a, <1>3, <1>5, <1>7, SameWire
     DEF GoesOn, LearnsJob, SideType, W!WorkerTypeOK
<1>9. CASE up' = up
  <2>1. Shrinks(up', up)
    BY <1>a, <1>9, SameWire DEF SideType
  <2>2. QED
    BY <1>6, <1>7, <1>8, <2>1, SilentStep DEF WorkerMoves
<1>10. CASE up' = [up EXCEPT ![conn] = Append(up[conn], m)]
  <2>1. PICK s \in Sessions : s = W!session_id
    BY <1>a, SessionUsed
  <2>2. Fresh(s)
    BY <1>3, <2>1 DEF PeerInv, UpInv
  <2>3. \A n \in Message : InUp(n) => n.type # m.type \/ n.session # m.session
    BY <1>1, <2>1, <2>2 DEF Fresh
  <2>4. /\ s \in {First, Second} /\ (socket_generation = 0 => s = First)
        /\ m.route \in RoutesOf[s]
    <3>1. socket_generation = 0 \/ socket_generation = 1
      BY <1>a DEF SideType, W!WorkerTypeOK
    <3>2. conn \in {1, 2} /\ (socket_generation = 1 => conn = 2)
      BY <1>a DEF SideType, W!WorkerTypeOK, W!Conns, ControlInv
    <3>3. QED
      BY <1>1, <2>1, <3>1, <3>2, OneWorkersRun DEF First, Second, W!session_id
  <2>5. ~Known(s)'
    <3>1. ~Known(s) /\ UNCHANGED registry
      BY <2>2 DEF Fresh, vars
    <3>2. QED
      BY <3>1 DEF Known, registry
  <2>6. Sendable(m)'
    BY <1>1, <2>1, <2>4, <2>5 DEF Sendable
  <2>7. MaySend({m})
    BY <1>1, <1>3, <1>5, <2>1, <2>4, <2>6, RunConstants DEF MaySend
  <2>8. UNCHANGED vars
    OBVIOUS
  <2>9. QED
    BY ONLY <1>1, <1>6, <1>7, <1>8, <1>10, <2>3, <2>7, <2>8, SendPeer,
       PeerInv
<1>11. QED
  BY <1>4, <1>9, <1>10

LEMMA ResultPeer ==
  ASSUME PeerInv, UNCHANGED vars, config' = config, W!SendResult
  PROVE  PeerInv'
<1>a. SideType /\ ControlInv
  BY DEF PeerInv
<1>b. wstats \in W!WorkerStats
  BY <1>a DEF SideType, W!WorkerTypeOK
<1>1. PICK m \in Message :
        /\ m = Msg("RESULT", RouteOf[conn], W!session_id, wstats.job_id)
        /\ m.type = "RESULT" /\ m.session = W!session_id
        /\ m.route = RouteOf[conn] /\ m.job = wstats.job_id
  <2> DEFINE r == Msg("RESULT", RouteOf[conn], W!session_id, wstats.job_id)
  <2>1. /\ r \in Message /\ r.type = "RESULT" /\ r.session = W!session_id
        /\ r.route = RouteOf[conn] /\ r.job = wstats.job_id
    BY <1>a, <1>b, SessionUsed DEF Msg, Message, W!WorkerStats
  <2> HIDE DEF r
  <2>2. QED
    BY <2>1 DEF r
<1>2. PICK ok \in BOOLEAN :
        W!SendMessage(m, ok) /\ net' = IF ok THEN "sent" ELSE "not_sent"
  BY <1>1 DEF W!SendResult, W!Msg, Msg
<1>3. /\ net = "send_result" /\ conn' = conn
      /\ socket_generation' = socket_generation /\ down' = down /\ link' = link
      /\ bound' = bound /\ current_session_id' = current_session_id
      /\ socket' = socket /\ job_thread' = job_thread /\ caller' = caller
      /\ wstop' = wstop /\ wstats' = wstats
  BY DEF W!SendResult
<1>4. /\ up' \in [W!Conns -> Seq(Message)]
      /\ up' = up \/ up' = [up EXCEPT ![conn] = Append(up[conn], m)]
  BY <1>a, <1>1, <1>2, Handed
<1>5. wstats' \in W!WorkerStats /\ wstats'.job_id = wstats.job_id
      /\ wstats.job_id # None
  BY <1>a, <1>b, <1>3 DEF ControlInv
<1>6. SideType'
  BY <1>a, <1>2, <1>3, <1>4, <1>5 DEF SideType, W!WorkerTypeOK
<1>7. ControlInv' /\ Pending /\ ~Pending'
  BY <1>a, <1>2, <1>3, <1>5, ConfigKept DEF ControlInv, W!NetEnded, Resting, Early,
                                                Pending
<1>8. GoesOn /\ LearnsJob /\ Shrinks(down', down)
  BY <1>a, <1>2, <1>3, <1>5, <1>7, SameWire
     DEF GoesOn, LearnsJob, SideType, W!WorkerTypeOK
<1>9. CASE up' = up
  <2>1. Shrinks(up', up)
    BY <1>a, <1>9, SameWire DEF SideType
  <2>2. QED
    BY <1>6, <1>7, <1>8, <2>1, SilentStep DEF WorkerMoves
<1>10. CASE up' = [up EXCEPT ![conn] = Append(up[conn], m)]
  <2>1. ~stats.raw_message_received
        /\ \A n \in Message : InUp(n) => n.type # "RESULT"
    BY <1>7 DEF PeerInv, UpInv
  <2>2. \A n \in Message : InUp(n) => n.type # m.type \/ n.session # m.session
    BY <1>1, <2>1
  <2>3. m.route \in RoutesOf[W!session_id] /\ W!session_id' = W!session_id
    <3>1. socket_generation = 0 \/ socket_generation = 1
      BY <1>a DEF SideType, W!WorkerTypeOK
    <3>2. conn \in {1, 2} /\ (socket_generation = 1 => conn = 2)
      BY <1>a DEF SideType, W!WorkerTypeOK, W!Conns, ControlInv
    <3>3. QED
      BY <1>1, <1>3, <3>1, <3>2, OneWorkersRun DEF First, Second, W!session_id
  <2>4. stats' = stats
    BY DEF vars
  <2>5. Sendable(m)'
    BY <1>1, <1>5, <2>1, <2>3, <2>4 DEF Sendable
  <2>6. MaySend({m})
    BY <1>1, <1>7, <2>5 DEF MaySend
  <2>7. UNCHANGED vars
    OBVIOUS
  <2>8. QED
    BY ONLY <1>1, <1>6, <1>7, <1>8, <1>10, <2>2, <2>6, <2>7, SendPeer,
       PeerInv
<1>11. QED
  BY <1>4, <1>9, <1>10


LEMMA RecordPeer ==
  ASSUME PeerInv, UNCHANGED vars, config' = config, W!RecordSend
  PROVE  PeerInv'
<1>a. SideType /\ ControlInv /\ wstats \in W!WorkerStats
  BY DEF PeerInv, SideType, W!WorkerTypeOK
<1>1. /\ UNCHANGED <<link, up, down, bound, conn, socket_generation, socket,
                     current_session_id, job_thread, wstop, caller>>
      /\ net \in {"sent", "not_sent"}
      /\ net' = IF W!Separate THEN "poll" ELSE "result_ack"
      /\ wstats' = [wstats EXCEPT !.send_succeeded = (net = "sent")]
  BY DEF W!RecordSend, W!transport
<1>2. wstats' \in W!WorkerStats /\ wstats'.job_id = wstats.job_id
  BY <1>a, <1>1 DEF W!WorkerStats
<1>3. SideType'
  BY <1>a, <1>1, <1>2 DEF SideType, W!WorkerTypeOK
<1>4. ControlInv' /\ (Pending' => Pending)
  BY <1>a, <1>1, <1>2, ConfigKept DEF ControlInv, W!NetEnded, Resting, Early,
                                      Pending
<1>5. Shrinks(up', up) /\ Shrinks(down', down)
  BY <1>a, <1>1, SameWire DEF SideType
<1>6. GoesOn /\ LearnsJob
  BY <1>a, <1>1, <1>2, <1>4 DEF GoesOn, LearnsJob, SideType, W!WorkerTypeOK
<1>7. QED
  BY <1>3, <1>4, <1>5, <1>6, SilentStep DEF WorkerMoves


\* What a message does to the worker: an echo at most, and which place and job.
Takes(m) ==
  \/ /\ up' = up
     /\ wstats' \in W!WorkerStats
     /\ wstats'.job_id = wstats.job_id
  \/ m.type = "HEARTBEAT" /\ W!HandleHeartbeat(m)
  \/ /\ up' = up /\ m.type = "JOB" /\ wstats.job_id = None
     /\ wstats' \in W!WorkerStats
     /\ wstats'.job_id = m.job

LEMMA ReceivingSteps ==
  ASSUME PeerInv, NEW m, W!Receives(m)
  PROVE  W!RecvMessage(m) /\ Takes(m)
<1>1. W!RecvMessage(m)
  BY DEF W!Receives, W!WaitReadyAck, W!TakeJob, W!WaitForHeartbeat,
         W!WaitResultAck, W!PollReceives
<1>2. wstats \in W!WorkerStats /\ m \in Message
  BY <1>1, Received DEF PeerInv, SideType, W!WorkerTypeOK
<1>3. CASE wstats' = wstats /\ up' = up
  BY <1>1, <1>2, <1>3 DEF Takes
<1>4. CASE m.type = "HEARTBEAT" /\ W!HandleHeartbeat(m)
  BY <1>1, <1>4 DEF Takes
<1>5. CASE W!WaitReadyAck(m)
  <2>1. CASE /\ up' = up
             /\ wstats' = [wstats EXCEPT !.worker_was_ready = TRUE,
                                         !.session_validated_ready_ack = TRUE]
    BY <1>1, <1>2, <2>1 DEF Takes, W!WorkerStats
  <2>2. QED
    BY <1>3, <1>4, <1>5, <2>1 DEF W!WaitReadyAck
<1>6. CASE m.type = "JOB" /\ up' = up /\ wstats.job_id = None
           /\ wstats' = [wstats EXCEPT !.job_id = m.job]
  BY <1>1, <1>2, <1>6 DEF Takes, W!WorkerStats, Message
<1>7. CASE up' = up /\ wstats' = W!Answered(wstats)
  BY <1>1, <1>2, <1>7 DEF Takes, W!WorkerStats, W!Answered
<1>8. net = "job" => wstats.job_id = None
  BY DEF PeerInv, ControlInv
<1>9. QED
  BY <1>3, <1>4, <1>5, <1>6, <1>7, <1>8
     DEF W!Receives, W!TakeJob, W!WaitForHeartbeat, W!WaitResultAck,
         W!PollReceives, W!Initial

LEMMA ReceivingPeer ==
  ASSUME TInv, PeerInv, UNCHANGED vars, config' = config,
         NEW m, W!Receives(m)
  PROVE  PeerInv'
<1>a. SideType /\ ControlInv
  BY DEF PeerInv
<1>1. W!RecvMessage(m) /\ Takes(m)
  BY ReceivingSteps
<1>2. /\ m \in Message /\ m \in sent /\ m.route = RouteOf[conn]
      /\ down' \in [W!Conns -> Seq(Message)] /\ Shrinks(down', down)
      /\ link' = link /\ bound' = bound
  BY <1>1, Received
<1>3. m.type = "JOB" => m \in JobsSent /\ m.job \in Jobs /\ m.job # None
  BY <1>2, NoneAssumption DEF JobsSent, TInv, LocalsSet
<1>4. /\ up' \in [W!Conns -> Seq(Message)]
      /\ wstats' \in W!WorkerStats
      /\ \/ wstats'.job_id = wstats.job_id
         \/ m.type = "JOB" /\ wstats.job_id = None /\ wstats'.job_id = m.job
  <2>1. CASE m.type = "HEARTBEAT" /\ W!HandleHeartbeat(m)
    BY <1>a, <1>2, <2>1, Echoed
  <2>2. QED
    BY <1>a, <1>1, <2>1 DEF Takes, SideType
<1>5. /\ conn' = conn /\ socket_generation' = socket_generation
      /\ socket' = socket /\ wstop' = wstop /\ caller' = caller
      /\ current_session_id' \in {current_session_id, m.session}
  BY DEF W!Receives, W!WaitReadyAck, W!TakeJob, W!WaitForHeartbeat,
         W!WaitResultAck, W!PollReceives
<1>6. /\ net' \in {"job", "working", "heartbeat", "send_result", "ready_ack",
                   "result_ack", "loop", "end"}
      /\ job_thread' \in {"none", "running", "finished"}
      /\ ControlInv' /\ (Pending' => Pending)
      /\ ~Pending => wstats'.job_id = wstats.job_id
  <2> USE <1>a, <1>5, ConfigKept
      DEF SideType, W!WorkerTypeOK, W!NetEnded, ControlInv, Resting, Early,
          Pending
  <2>1. CASE W!WaitReadyAck(m)
    <3>1. /\ net = "ready_ack" /\ job_thread' = job_thread
          /\ net' = net \/ net' = W!AfterHandshake(TRUE)
      BY <2>1 DEF W!WaitReadyAck
    <3>2. wstats'.job_id = wstats.job_id
      BY <1>2, <2>1, <1>a, Echoed DEF W!WaitReadyAck, W!WorkerStats
    <3>3. QED
      BY <3>1, <3>2 DEF W!AfterHandshake, W!Initial
  <2>2. CASE W!TakeJob(m) /\ m.type = "JOB"
    <3>1. /\ net = "job" /\ job_thread' = "running" /\ net' = "working"
          /\ wstats'.job_id = m.job /\ wstats.job_id = None
      BY <1>2, <2>2 DEF W!TakeJob, W!WorkerStats
    <3>2. QED
      BY <1>3, <2>2, <3>1
  <2>3. CASE W!TakeJob(m) /\ m.type # "JOB"
    BY <2>3 DEF W!TakeJob
  <2>4. CASE W!WaitForHeartbeat(m)
    <3>1. /\ net = "heartbeat" /\ job_thread' = job_thread
          /\ net' = net \/ net' = "send_result"
      BY <2>4 DEF W!WaitForHeartbeat
    <3>2. wstats'.job_id = wstats.job_id
      BY <1>2, <2>4, <1>a, Echoed DEF W!WaitForHeartbeat
    <3>3. QED
      BY <3>1, <3>2
  <2>5. CASE W!WaitResultAck(m)
    <3>1. /\ net = "result_ack" /\ job_thread' = job_thread
          /\ net' = net \/ net' = "end"
      BY <2>5 DEF W!WaitResultAck
    <3>2. wstats'.job_id = wstats.job_id
      BY <1>2, <2>5, <1>a, Echoed DEF W!WaitResultAck, W!Answered, W!WorkerStats
    <3>3. QED
      BY <3>1, <3>2
  <2>6. CASE W!PollReceives(m) /\ m.type = "JOB" /\ W!Initial
    <3>1. /\ net = "poll" /\ job_thread' = "running" /\ net' = "loop"
          /\ wstats'.job_id = m.job /\ wstats.job_id = None
      BY <1>2, <2>6 DEF W!PollReceives, W!WorkerStats, W!Initial
    <3>2. QED
      BY <1>3, <2>6, <3>1
  <2>7. CASE W!PollReceives(m) /\ ~(m.type = "JOB" /\ W!Initial)
    <3>1. net = "poll" /\ job_thread' = job_thread /\ net' = "loop"
      BY <2>7 DEF W!PollReceives
    <3>2. wstats'.job_id = wstats.job_id
      BY <1>2, <2>7, <1>a, Echoed DEF W!PollReceives, W!Answered, W!WorkerStats
    <3>3. QED
      BY <3>1, <3>2
  <2>8. QED
    BY ONLY <2>1, <2>2, <2>3, <2>4, <2>5, <2>6, <2>7, W!Receives(m)
       DEF W!Receives
<1>7. SideType'
  <2>1. current_session_id' \in Sessions \union {None}
    BY <1>a, <1>2, <1>5 DEF SideType, W!WorkerTypeOK, Message
  <2>2. QED
    BY <1>a, <1>2, <1>4, <1>5, <1>6, <2>1 DEF SideType, W!WorkerTypeOK
<1>8. GoesOn /\ LearnsJob
  <2>1. net' \notin {"start", "send_ready"}
    BY <1>6
  <2>2. LearnsJob
    BY <1>3, <1>4 DEF LearnsJob
  <2>3. QED
    BY <1>a, <1>5, <1>6, <2>1, <2>2 DEF GoesOn, SideType, W!WorkerTypeOK
<1>9. WorkerMoves
  BY <1>2, <1>6, <1>7, <1>8 DEF WorkerMoves
<1>10. CASE up' = up
  <2>1. Shrinks(up', up)
    BY <1>a, <1>10, SameWire DEF SideType
  <2>2. QED
    BY <1>9, <2>1, SilentStep
<1>11. CASE m.type = "HEARTBEAT" /\ W!HandleHeartbeat(m)
  <2>1. PICK e \in Message :
          /\ e.type = "HEARTBEAT" /\ e.route = RouteOf[conn]
          /\ up' = up \/ up' = [up EXCEPT ![conn] = Append(up[conn], e)]
    BY <1>a, <1>2, <1>11, Echoed
  <2>2. UNCHANGED vars
    OBVIOUS
  <2>3. QED
    BY ONLY <1>2, <1>9, <1>11, <2>1, <2>2, EchoStep, PeerInv
<1>12. QED
  BY <1>1, <1>10, <1>11 DEF Takes


LEMMA WorkerPeer ==
  ASSUME TInv, PeerInv, WorkerStep
  PROVE  PeerInv'
<1>1. UNCHANGED vars /\ config' = config
  BY DEF WorkerStep, W!Step
<1>2. CASE \/ W!Connect \/ W!ReadyAckTimeout \/ W!NoJob \/ W!HeartbeatWaitTimeout
           \/ W!ResultAckTimeout \/ W!Loop \/ W!PollTimeout \/ W!UsesClosedSocket
           \/ W!FinishJob \/ W!CallerStops
  BY <1>1, <1>2, IdlePeer
<1>3. CASE W!ApplyPostJobStrategy \/ W!Return
  BY <1>1, <1>3, ClosingPeer
<1>4. CASE W!SendReady
  BY <1>1, <1>4, ReadyPeer
<1>5. CASE W!SendResult
  BY <1>1, <1>5, ResultPeer
<1>6. CASE W!RecordSend
  BY <1>1, <1>6, RecordPeer
<1>7. CASE \E m : W!Receives(m)
  BY <1>1, <1>7, ReceivingPeer
<1>8. QED
  BY <1>2, <1>3, <1>4, <1>5, <1>6, <1>7 DEF WorkerStep, W!Step, W!Network, W!Acts

LEMMA InitPeer ==
  ASSUME SysInit
  PROVE  Init /\ PeerInv
<1> USE DEF SysInit
<1>1. /\ up = [c \in W!Conns |-> <<>>] /\ down = [c \in W!Conns |-> <<>>]
      /\ link = [c \in W!Conns |-> "unused"] /\ bound = TRUE
      /\ sent = {} /\ rec = [s \in Sessions |-> [route |-> None, state |-> "UNKNOWN",
                                                 job |-> None]]
      /\ ~stats.raw_message_received
  BY DEF W!TransportInit, Init
<1>2. /\ net = "start" /\ conn = 1 /\ socket_generation = 0 /\ socket = FALSE
      /\ current_session_id = None /\ job_thread = "none" /\ wstop = FALSE
      /\ caller = "waiting" /\ wstats \in W!WorkerStats /\ wstats.job_id = None
  BY DEF W!WorkerInit, W!WorkerStats
<1>3. SideType
  <2>1. <<>> \in Seq(Message)
    OBVIOUS
  <2>2. up \in [W!Conns -> Seq(Message)] /\ down \in [W!Conns -> Seq(Message)]
    BY <1>1, <2>1
  <2>3. link \in [W!Conns -> W!LinkStates]
    BY <1>1 DEF W!LinkStates
  <2>4. config \in Configs /\ bound \in BOOLEAN /\ conn \in W!Conns
    BY <1>1, <1>2 DEF W!Conns
  <2>5. W!WorkerTypeOK
    <3>1. socket_generation \in 0..1
      BY <1>2
    <3>2. socket \in BOOLEAN /\ wstop \in BOOLEAN
      BY <1>2, Zenon
    <3>3. QED
      BY ONLY <1>2, <2>3, <2>4, <3>1, <3>2 DEF W!WorkerTypeOK
  <2>6. QED
    BY ONLY <2>2, <2>4, <2>5 DEF SideType
<1>4. ControlInv
  BY <1>2 DEF ControlInv, W!NetEnded, Resting, Early
<1>5. \A c \in W!Conns : \A m : ~InQ(up[c], m) /\ ~InQ(down[c], m)
  BY <1>1 DEF InQ
<1>6. \A m \in Message : ~InUp(m)
  BY <1>5 DEF InUp
<1>7. \A s \in Sessions : ~Known(s)
  BY <1>1, NoneAssumption DEF Known
<1>8. UpInv
  <2>1. W!session_id \in Sessions /\ Second \in Sessions
    BY <1>3, SessionUsed, RunConstants
  <2>2. Unrepeated(up)
    BY <1>1 DEF Unrepeated
  <2>3. QED
    BY <1>1, <1>6, <1>7, <2>1, <2>2 DEF UpInv, Fresh
<1>9. DownInv /\ KnownInv
  BY <1>1, <1>2, <1>5, <1>7 DEF DownInv, KnownInv, JobsSent
<1>10. QED
  BY <1>3, <1>4, <1>8, <1>9 DEF PeerInv

LEMMA CollectPeer ==
  ASSUME PeerInv, UNCHANGED <<vars, workerSide>>
  PROVE  PeerInv'
<1> USE DEF PeerInv, workerSide, workerVars, sockets, vars, registry
<1>1. SideType'
  BY DEF SideType, W!WorkerTypeOK
<1>2. ControlInv'
  BY DEF ControlInv, W!NetEnded, W!Separate, Resting, Early
<1>3. \A s \in Sessions : Known(s)' <=> Known(s)
  BY DEF Known
<1>4. Early' <=> Early
  BY DEF Early, W!Separate
<1>5. \A m \in Message : InUp(m)' <=> InUp(m)
  BY DEF InUp
<1>6. UpInv'
  <2>1. Unrepeated(up)'
    BY DEF UpInv, Unrepeated
  <2>2. \A m \in Message : InUp(m)' => Sendable(m)'
    BY <1>5 DEF UpInv, Sendable, Known, W!session_id
  <2>3. \A s : Fresh(s) => Fresh(s)'
    BY DEF Fresh, Known, InUp
  <2>4. QED
    BY <1>4, <1>5, <2>1, <2>2, <2>3 DEF UpInv, Pending, W!session_id
<1>7. DownInv'
  BY DEF DownInv, JobsSent
<1>8. KnownInv'
  BY <1>3 DEF KnownInv, JobsSent, Known
<1>9. QED
  BY <1>1, <1>2, <1>6, <1>7, <1>8

\* The reproducer's own invariant, next to that of the broker.
RInv == TInv /\ PeerInv

LEMMA NextRInv ==
  ASSUME RInv, [SysNext]_sysVars
  PROVE  RInv' /\ [Next]_vars
<1> USE DEF RInv
<1>1. [Next]_vars
  BY StepsOfBroker
<1>2. TInv'
  BY <1>1, NextTInv
<1>3. PeerInv'
  <2>1. CASE \/ BrokerSends /\ UNCHANGED <<workerVars, outcome>>
             \/ BrokerKeepsToItself /\ UNCHANGED <<workerSide, outcome>>
    BY <2>1, OwnPeer
  <2>2. ASSUME NEW c \in W!Conns, BrokerReads(c), UNCHANGED <<workerVars, outcome>>
        PROVE  PeerInv'
    BY <2>2, ReadPeer
  <2>3. CASE WorkerStep
    BY <2>3, WorkerPeer
  <2>4. CASE TransportStep
    BY <2>4, TransportPeer
  <2>5. CASE Collect \/ UNCHANGED sysVars
    BY <2>5, CollectPeer DEF Collect, sysVars
  <2>6. QED
    BY <2>1, <2>2, <2>3, <2>4, <2>5 DEF SysNext, BrokerStep
<1>4. QED
  BY <1>1, <1>2, <1>3

-----------------------------------------------------------------------------
(* Results.                                                                *)

\* What the worker, its sockets and the broker hold is of its type, the messages
\* on their way are such as Broker lets a worker send, and its job is one it was
\* sent: in every reachable state of every run.
THEOREM RunInvariant ==
  SysSpec => []RInv
<1>1. SysInit => RInv
  BY InitPeer, InitTInv DEF RInv
<1>2. RInv /\ [SysNext]_sysVars => RInv'
  BY NextRInv
<1>3. QED
  BY <1>1, <1>2, PTL DEF SysSpec

\* Every behaviour of the reproducer, worker.py and broker.py over their sockets,
\* is one of Broker: what the environment of Broker may send is no assumption
\* about this worker.
THEOREM ImplementsBrokerHolds ==
  SysSpec => ImplementsBroker
<1>1. SysInit => Init
  BY InitPeer
<1>2. RInv /\ [SysNext]_sysVars => [Next]_vars
  BY NextRInv
<1>3. QED
  BY <1>1, <1>2, RunInvariant, PTL DEF SysSpec, ImplementsBroker, Spec


-----------------------------------------------------------------------------
(* What a step of the worker does to its statistics and to its queue.      *)

StatsMove ==
  /\ wstats' \in W!WorkerStats
  /\ wstats'.job_id = wstats.job_id
       \/ (wstats.job_id = None /\ job_thread' = "running")
  /\ \/ wstats'.send_succeeded = wstats.send_succeeded
     \/ W!RecordSend /\ wstats'.send_succeeded = (net = "sent")
  /\ wstats'.result_ack_received =>
       \/ wstats.result_ack_received
       \/ /\ \E m \in sent : m.type = "RESULT_ACK"
          /\ net = "result_ack" \/ (net = "poll" /\ W!Polled)

LEMMA StatsEffect ==
  ASSUME PeerInv, W!Step
  PROVE  StatsMove
<1> USE DEF StatsMove
<1>a. SideType /\ wstats \in W!WorkerStats
  BY DEF PeerInv, SideType, W!WorkerTypeOK
<1>1. CASE wstats' = wstats
  BY <1>a, <1>1
<1>2. CASE W!RecordSend
  <2>1. PICK ok \in BOOLEAN : /\ wstats' = [wstats EXCEPT !.send_succeeded = ok]
                              /\ ok = (net = "sent")
    BY <1>2 DEF W!RecordSend
  <2>2. QED
    BY <1>a, <1>2, <2>1 DEF W!WorkerStats
<1>3. CASE wstats' = [wstats EXCEPT !.manual_reconnect_performed = TRUE]
  BY <1>a, <1>3 DEF W!WorkerStats
<1>4. ASSUME NEW m, W!Receives(m)
      PROVE  StatsMove
  <2>a. W!RecvMessage(m) /\ m \in Message /\ m \in sent
    BY <1>4, ReceivingSteps, Received
  <2>1. CASE m.type = "HEARTBEAT" /\ W!HandleHeartbeat(m)
    BY <1>a, <2>a, <2>1, Echoed
  <2>2. CASE wstats' = [wstats EXCEPT !.worker_was_ready = TRUE,
                                      !.session_validated_ready_ack = TRUE]
    BY <1>a, <2>2 DEF W!WorkerStats
  <2>3. CASE /\ wstats.job_id = None /\ wstats' = [wstats EXCEPT !.job_id = m.job]
             /\ job_thread' = "running"
    BY <1>a, <2>a, <2>3 DEF W!WorkerStats, Message
  <2>4. CASE /\ m.type = "RESULT_ACK" /\ wstats' = W!Answered(wstats)
             /\ net = "result_ack" \/ (net = "poll" /\ W!Polled)
    BY <1>a, <2>a, <2>4 DEF W!WorkerStats, W!Answered
  <2>5. net = "job" => wstats.job_id = None
    BY DEF PeerInv, ControlInv
  <2>6. QED
    BY <1>1, <1>4, <2>1, <2>2, <2>3, <2>4, <2>5
       DEF W!Receives, W!WaitReadyAck, W!TakeJob, W!WaitForHeartbeat,
           W!WaitResultAck, W!PollReceives, W!Initial, W!Answers
<1>5. CASE W!ApplyPostJobStrategy
  BY <1>1, <1>3, <1>5 DEF W!ApplyPostJobStrategy
<1>6. CASE \/ W!Connect \/ W!SendReady \/ W!ReadyAckTimeout \/ W!NoJob
           \/ W!HeartbeatWaitTimeout \/ W!ResultAckTimeout \/ W!Loop
           \/ W!PollTimeout \/ W!UsesClosedSocket \/ W!FinishJob
           \/ W!CallerStops \/ W!Return \/ W!SendResult
  BY <1>1, <1>6
     DEF W!SendResult, W!Connect, W!SendReady, W!ReadyAckTimeout, W!NoJob,
         W!HeartbeatWaitTimeout, W!ResultAckTimeout, W!Loop, W!PollTimeout,
         W!UsesClosedSocket, W!FinishJob, W!CallerStops, W!Return
<1>7. QED
  BY <1>2, <1>4, <1>5, <1>6 DEF W!Step, W!Network, W!Acts

\* What is new on the way to the broker.
New(n) ==
  \/ n.type = "HEARTBEAT"
  \/ W!SendReady /\ n.type = "READY" /\ n.session = W!session_id
  \/ W!SendResult /\ n.type = "RESULT" /\ net' = "sent"

LEMMA ShrinksUp ==
  ASSUME up \in [W!Conns -> Seq(Message)], up' \in [W!Conns -> Seq(Message)],
         Shrinks(up', up), NEW n \in Message, InUp(n)'
  PROVE  InUp(n)
<1>1. PICK c \in W!Conns : InQ(up'[c], n)
  BY DEF InUp, InQ
<1>2. up'[c] \in Seq(Message) /\ up[c] \in Seq(Message) /\ PartOf(up'[c], up[c])
  BY DEF Shrinks
<1>3. InQ(up[c], n)
  BY <1>1, <1>2, PartItems
<1>4. QED
  BY <1>3 DEF InUp

LEMMA AppendsUp ==
  ASSUME up \in [W!Conns -> Seq(Message)], NEW c \in W!Conns, NEW m \in Message,
         up' = up \/ up' = [up EXCEPT ![c] = Append(up[c], m)],
         NEW n \in Message, InUp(n)'
  PROVE  InUp(n) \/ n = m
<1>1. CASE up' = up
  BY <1>1 DEF InUp
<1>2. CASE up' = [up EXCEPT ![c] = Append(up[c], m)]
  <2>1. PICK d \in W!Conns : InQ(up'[d], n)
    BY DEF InUp, InQ
  <2>2. CASE d = c
    <3>1. up'[c] = Append(up[c], m) /\ up[c] \in Seq(Message)
      BY <1>2
    <3>2. n = m \/ InQ(up[c], n)
      BY <2>1, <2>2, <3>1, AppendItems
    <3>3. QED
      BY <3>2 DEF InUp
  <2>3. CASE d # c
    BY <1>2, <2>1, <2>3 DEF InUp
  <2>4. QED
    BY <2>2, <2>3
<1>3. QED
  BY <1>1, <1>2

LEMMA UpNews ==
  ASSUME PeerInv, W!Step, NEW n \in Message, InUp(n)'
  PROVE  InUp(n) \/ New(n)
<1>a. SideType /\ up \in [W!Conns -> Seq(Message)] /\ conn \in W!Conns
      /\ wstats \in W!WorkerStats
  BY DEF PeerInv, SideType, W!WorkerTypeOK
<1>1. CASE up' = up
  BY <1>1 DEF InUp
<1>2. ASSUME NEW open \in BOOLEAN, W!CloseConnection(open)
      PROVE  InUp(n)
  BY <1>a, <1>2, ClosedConnection, ShrinksUp
<1>3. ASSUME NEW m, W!Receives(m)
      PROVE  InUp(n) \/ New(n)
  <2>1. Takes(m) /\ m \in Message
    BY <1>3, ReceivingSteps, Received
  <2>2. CASE m.type = "HEARTBEAT" /\ W!HandleHeartbeat(m)
    <3>1. PICK e \in Message :
            /\ e.type = "HEARTBEAT"
            /\ up' = up \/ up' = [up EXCEPT ![conn] = Append(up[conn], e)]
      BY <1>a, <2>1, <2>2, Echoed
    <3>2. InUp(n) \/ n = e
      BY <1>a, <3>1, AppendsUp
    <3>3. QED
      BY <3>1, <3>2 DEF New
  <2>3. QED
    BY <1>1, <2>1, <2>2 DEF Takes
<1>4. CASE W!SendReady
  <2>1. PICK m \in Message :
          /\ m = Msg("READY", RouteOf[conn], W!session_id, None)
          /\ m.type = "READY" /\ m.session = W!session_id
    <3> DEFINE r == Msg("READY", RouteOf[conn], W!session_id, None)
    <3>1. r \in Message /\ r.type = "READY" /\ r.session = W!session_id
      BY <1>a, SessionUsed DEF Msg, Message
    <3> HIDE DEF r
    <3>2. QED
      BY <3>1 DEF r
  <2>2. up' = up \/ up' = [up EXCEPT ![conn] = Append(up[conn], m)]
    BY <1>a, <1>4, <2>1, Handed DEF W!SendReady, W!Msg, Msg
  <2>3. InUp(n) \/ n = m
    BY <1>a, <2>2, AppendsUp
  <2>4. QED
    BY <1>4, <2>1, <2>3 DEF New
<1>5. CASE W!SendResult
  <2>1. PICK m \in Message :
          /\ m = Msg("RESULT", RouteOf[conn], W!session_id, wstats.job_id)
          /\ m.type = "RESULT"
    <3> DEFINE r == Msg("RESULT", RouteOf[conn], W!session_id, wstats.job_id)
    <3>1. r \in Message /\ r.type = "RESULT"
      BY <1>a, SessionUsed DEF Msg, Message, W!WorkerStats
    <3> HIDE DEF r
    <3>2. QED
      BY <3>1 DEF r
  <2>2. PICK ok \in BOOLEAN : /\ W!SendMessage(m, ok)
                              /\ net' = IF ok THEN "sent" ELSE "not_sent"
    BY <1>5, <2>1 DEF W!SendResult, W!Msg, Msg
  <2>3. CASE ok
    <3>1. net' = "sent"
      BY <2>2, <2>3
    <3>2. up' = up \/ up' = [up EXCEPT ![conn] = Append(up[conn], m)]
      BY <1>a, <2>2, Handed
    <3>3. InUp(n) \/ n = m
      BY <1>a, <3>2, AppendsUp
    <3>4. QED
      BY <1>5, <2>1, <3>1, <3>3 DEF New
  <2>4. CASE ~ok
    BY <1>1, <2>2, <2>4 DEF W!SendMessage
  <2>5. QED
    BY <2>3, <2>4
<1>6. CASE W!ApplyPostJobStrategy \/ W!Return
  BY <1>1, <1>2, <1>6 DEF W!ApplyPostJobStrategy, W!Return, W!Reconnect, W!transport
<1>7. CASE \/ W!Connect \/ W!ReadyAckTimeout \/ W!NoJob
           \/ W!HeartbeatWaitTimeout \/ W!ResultAckTimeout \/ W!Loop
           \/ W!PollTimeout \/ W!UsesClosedSocket \/ W!FinishJob \/ W!CallerStops
           \/ W!RecordSend
  BY <1>1, <1>7
     DEF W!RecordSend, W!Connect, W!ReadyAckTimeout, W!NoJob, W!HeartbeatWaitTimeout,
         W!ResultAckTimeout, W!Loop, W!PollTimeout, W!UsesClosedSocket,
         W!FinishJob, W!CallerStops, W!Expires, W!transport
<1>8. QED
  BY <1>3, <1>4, <1>5, <1>6, <1>7 DEF W!Step, W!Network, W!Acts

-----------------------------------------------------------------------------
(* What a step of the broker does to its verdict, as the worker sees it.   *)

\* The broker decides about the RESULT it read, and acknowledges that one.
Decides ==
  /\ pc'["main"] \in Deciding => pc["main"] \in Deciding /\ msg' = msg
  /\ AcksSent \subseteq AcksSent'
  /\ \A m \in AcksSent' :
       m \in AcksSent \/ (pc["main"] \in Deciding /\ m.job = msg.job)

LEMMA OwnVerdict ==
  ASSUME TInv, BrokerSends \/ BrokerKeepsToItself
  PROVE  Decides
<1> USE DEF Decides, Deciding, At, Goto, MainGoto, locals
<1>a. TypeOK /\ Next
  BY OwnSteps DEF TInv
<1>1. CASE Quiet
  BY <1>1 DEF Quiet
<1>2. CASE Finalize
  BY <1>a, <1>2 DEF Finalize, TypeOK, Threads, AcksSent
<1>3. CASE DecideResult
  BY <1>a, <1>3 DEF DecideResult, Accept, Reject, AfterMessage, TypeOK, Threads,
                    AcksSent
<1>4. CASE AckResult
  <2>1. pc["main"] = "ack_result" /\ pc'["main"] \notin Deciding
    BY <1>a, <1>4 DEF AckResult, AfterMessage, TypeOK, Threads
  <2>2. PICK a : a.type = "RESULT_ACK" /\ a.job = msg.job /\ sent' = sent \union {a}
    BY <1>4 DEF AckResult, Send, Msg
  <2>3. AcksSent' = AcksSent \union {a}
    BY <2>2 DEF AcksSent
  <2>4. QED
    BY <2>1, <2>2, <2>3
<1>5. ASSUME NEW j \in Jobs, Assign(j)
      PROVE  Decides
  BY <1>a, <1>5 DEF Assign, TypeOK, Threads, AcksSent
<1>6. ASSUME NEW d \in JobsSent, NEW s \in Sessions, NEW r \in Routes,
             ResultArrives(d, s, r)
      PROVE  FALSE
  <2>1. ~stats.raw_message_received /\ stats'.raw_message_received
    BY <1>a, <1>6 DEF ResultArrives, HandleResult, TypeOK, BrokerStats
  <2>2. QED
    BY <2>1, OwnRaw
<1>7. QED
  BY <1>a, <1>1, <1>2, <1>3, <1>4, <1>5, <1>6, StepKinds DEF VerdictStep

\* What a message does to it when it is read.
Heard(m) ==
  /\ sent' = sent
  /\ \/ stats' = stats /\ pc'["main"] \notin Deciding \union {"done", "dead"}
     \/ /\ m.type = "RESULT" /\ msg' = m /\ pc'["main"] = "decide"
        /\ stats'.raw_message_received
        /\ stats'.result_accepted = stats.result_accepted
        /\ stats'.result_rejected = stats.result_rejected

LEMMA ReadVerdict ==
  ASSUME TInv, PeerInv, NEW c \in W!Conns, BrokerReads(c)
  PROVE  /\ ~MainEnded
         /\ \E m \in Message : InUp(m) /\ Sendable(m) /\ Heard(m)
<1> USE DEF Heard, Deciding, Goto, MainGoto, MainEnded, Receiving, At
<1>a. TypeOK
  BY DEF TInv
<1>1. PICK m \in Message : m = Head(up[c])
  BY ReadsArrive
<1>2. /\ InUp(m) /\ Sendable(m)
      /\ \/ m.type = "READY" /\ HandleReady(m)
         \/ m.type = "HEARTBEAT" /\ HandleHeartbeat(m.route)
         \/ m.type = "RESULT" /\ HandleResult(m)
  BY <1>1, ReadsArrive
<1>3. CASE HandleReady(m)
  BY <1>a, <1>2, <1>3 DEF HandleReady, TypeOK, Threads
<1>4. CASE HandleHeartbeat(m.route)
  BY <1>a, <1>2, <1>4 DEF HandleHeartbeat, AfterMessage, TypeOK, Threads
<1>5. CASE m.type = "RESULT" /\ HandleResult(m)
  BY <1>a, <1>2, <1>5 DEF HandleResult, TypeOK, BrokerStats, Threads
<1>6. QED
  BY <1>2, <1>3, <1>4, <1>5

\* The queue to the broker does not grow but by what the worker sends.
LEMMA ReadUp ==
  ASSUME PeerInv, NEW c \in W!Conns, BrokerReads(c), NEW n \in Message, InUp(n)'
  PROVE  InUp(n)
<1>1. /\ up \in [W!Conns -> Seq(Message)] /\ up[c] # <<>>
      /\ up' = [up EXCEPT ![c] = Tail(up[c])]
  BY DEF BrokerReads, PeerInv, SideType
<1>2. Tail(up[c]) \in Seq(Message) /\ PartOf(Tail(up[c]), up[c])
  BY <1>1, TailPart
<1>3. up' \in [W!Conns -> Seq(Message)] /\ Shrinks(up', up)
  BY <1>1, <1>2, Cleared
<1>4. QED
  BY <1>1, <1>3, ShrinksUp

\* The queues change by what is written, read or lost, in the sockets too.
LEMMA TransportUp ==
  ASSUME PeerInv, TransportStep, NEW n \in Message, InUp(n)'
  PROVE  InUp(n)
BY TransportQueues, ShrinksUp DEF PeerInv, SideType, QueuesShrink

\* The steps of the run, by whose they are.
OwnStep ==
  /\ BrokerSends \/ BrokerKeepsToItself
  /\ UNCHANGED <<link, up, bound, workerVars, outcome>>

ReadStep(c) == BrokerReads(c) /\ UNCHANGED <<workerVars, outcome>>

LEMMA RunSteps ==
  ASSUME RInv, [SysNext]_sysVars
  PROVE  \/ OwnStep
         \/ \E c \in W!Conns : ReadStep(c)
         \/ W!Step /\ UNCHANGED <<vars, outcome>>
         \/ TransportStep
         \/ Collect
         \/ UNCHANGED sysVars
<1>1. CASE BrokerSends /\ UNCHANGED <<workerVars, outcome>>
  BY <1>1, OwnMessages DEF RInv, OwnStep
<1>2. CASE BrokerKeepsToItself /\ UNCHANGED <<workerSide, outcome>>
  BY <1>2 DEF OwnStep, workerSide, sockets
<1>3. QED
  BY <1>1, <1>2 DEF SysNext, BrokerStep, WorkerStep, ReadStep

-----------------------------------------------------------------------------
(* The worker's RESULT and its ack, from end to end.                       *)

\* What the broker has read, decides about and has acknowledged is the RESULT of
\* the job the worker holds, and the worker counts as an ack what is one.
AckInv ==
  /\ stats.raw_message_received => wstats.job_id # None
  /\ pc["main"] \in Deciding => msg.job = wstats.job_id
  /\ \A m \in AcksSent : m.job = wstats.job_id
  /\ wstats.result_ack_received => AcksSent # {}

\* A RESULT that is on its way or was read was sent, as the worker reports or is
\* about to; and no ack comes before that report.
SentInv ==
  /\ stats.raw_message_received => wstats.send_succeeded \/ net = "sent"
  /\ \A m \in Message : InUp(m) /\ m.type = "RESULT" =>
       wstats.send_succeeded \/ net = "sent"
  /\ net = "not_sent" => /\ ~stats.raw_message_received
                         /\ \A m \in Message : InUp(m) => m.type # "RESULT"
  /\ wstats.result_ack_received => wstats.send_succeeded

LEMMA VerdictRead ==
  ASSUME VInv, pc["main"] \in Deciding \/ AcksSent # {}
  PROVE  stats.raw_message_received
BY DEF VInv, Outcome, Deciding, NoVerdict

LEMMA NextAckInv ==
  ASSUME RInv, VInv, AckInv, [SysNext]_sysVars
  PROVE  AckInv'
<1> USE DEF AckInv, RInv
<1>1. CASE OwnStep
  <2>1. /\ Decides /\ wstats' = wstats
        /\ stats'.raw_message_received = stats.raw_message_received
    BY <1>1, OwnVerdict, OwnRaw DEF OwnStep, workerVars
  <2>2. QED
    BY <2>1 DEF Decides
<1>2. ASSUME NEW c \in W!Conns, ReadStep(c)
      PROVE  AckInv'
  <2>1. wstats' = wstats
    BY <1>2 DEF ReadStep, workerVars
  <2>2. PICK m \in Message : InUp(m) /\ Sendable(m) /\ Heard(m)
    BY <1>2, ReadVerdict DEF ReadStep
  <2>3. AcksSent' = AcksSent
    BY <2>2 DEF Heard, AcksSent
  <2>4. m.type = "RESULT" => m.job # None /\ m.job = wstats.job_id
    BY <2>2 DEF Sendable
  <2>5. QED
    BY <2>1, <2>2, <2>3, <2>4 DEF Heard
<1>3. CASE W!Step /\ UNCHANGED <<vars, outcome>>
  <2>1. UNCHANGED <<stats, pc["main"], msg, AcksSent>>
    BY <1>3 DEF vars, control, locals, AcksSent
  <2>2. StatsMove
    BY <1>3, StatsEffect
  <2>3. pc["main"] \in Deciding \/ AcksSent # {} => stats.raw_message_received
    BY VerdictRead
  <2>4. stats.raw_message_received => wstats'.job_id = wstats.job_id
    BY <2>2 DEF StatsMove
  <2>5. wstats'.result_ack_received => AcksSent # {}
    BY <2>2 DEF StatsMove, AcksSent
  <2>6. QED
    BY <2>1, <2>3, <2>4, <2>5
<1>4. CASE TransportStep \/ Collect \/ UNCHANGED sysVars
  BY <1>4 DEF TransportStep, Collect, sysVars, workerSide, workerVars, vars,
              control, locals, AcksSent
<1>5. QED
  BY <1>1, <1>2, <1>3, <1>4, RunSteps

\* The two places between the send and its report.
LEMMA SentPlaces ==
  ASSUME PeerInv, W!Step
  PROVE  /\ net' \in {"sent", "not_sent"} => net' = net \/ W!SendResult
         /\ net \in {"sent", "not_sent"} => net' = net \/ W!RecordSend
<1>a. ~W!Separate /\ job_thread = "running" => net = "working"
  BY DEF PeerInv, ControlInv
<1> DEFINE Goal == /\ net' \in {"sent", "not_sent"} => net' = net \/ W!SendResult
                   /\ net \in {"sent", "not_sent"} => net' = net \/ W!RecordSend
<1> SUFFICES Goal
  OBVIOUS
<1>1. ASSUME NEW m, W!Receives(m)
      PROVE  Goal
  BY <1>1 DEF W!Receives, W!WaitReadyAck, W!TakeJob, W!WaitForHeartbeat,
              W!WaitResultAck, W!PollReceives, W!AfterHandshake
<1>2. CASE W!ApplyPostJobStrategy
  BY <1>2 DEF W!ApplyPostJobStrategy, W!AfterReconnect
<1>3. CASE \/ W!Connect \/ W!SendReady \/ W!ReadyAckTimeout \/ W!NoJob
           \/ W!HeartbeatWaitTimeout \/ W!ResultAckTimeout \/ W!Loop
           \/ W!PollTimeout \/ W!UsesClosedSocket
  BY <1>3
     DEF W!Connect, W!SendReady, W!ReadyAckTimeout, W!NoJob,
         W!HeartbeatWaitTimeout, W!ResultAckTimeout, W!Loop, W!PollTimeout,
         W!UsesClosedSocket, W!HandshakeFails, W!AfterHandshake
<1>4. CASE W!FinishJob \/ W!CallerStops \/ W!Return
  BY <1>a, <1>4 DEF W!FinishJob, W!CallerStops, W!Return
<1>5. CASE W!SendResult \/ W!RecordSend
  BY <1>5 DEF W!SendResult, W!RecordSend
<1> HIDE DEF Goal
<1>6. QED
  BY <1>1, <1>2, <1>3, <1>4, <1>5 DEF W!Step, W!Network, W!Acts

LEMMA NextSentInv ==
  ASSUME RInv, VInv, AckInv, SentInv, [SysNext]_sysVars
  PROVE  SentInv'
<1> USE DEF SentInv, RInv
<1>1. CASE OwnStep
  <2>1. /\ up' = up /\ wstats' = wstats /\ net' = net
        /\ stats'.raw_message_received = stats.raw_message_received
    BY <1>1, OwnRaw DEF OwnStep, workerVars
  <2>2. QED
    BY <2>1 DEF InUp
<1>2. ASSUME NEW c \in W!Conns, ReadStep(c)
      PROVE  SentInv'
  <2>1. wstats' = wstats /\ net' = net
    BY <1>2 DEF ReadStep, workerVars
  <2>2. PICK m \in Message : InUp(m) /\ Sendable(m) /\ Heard(m)
    BY <1>2, ReadVerdict DEF ReadStep
  <2>3. \A n \in Message : InUp(n)' => InUp(n)
    BY <1>2, ReadUp DEF ReadStep
  <2>4. QED
    BY <2>1, <2>2, <2>3 DEF Heard
<1>3. CASE W!Step /\ UNCHANGED <<vars, outcome>>
  <2>1. stats' = stats
    BY <1>3 DEF vars
  <2>2. StatsMove /\ \A n \in Message : InUp(n)' => InUp(n) \/ New(n)
    BY <1>3, StatsEffect, UpNews
  <2>3. CASE W!SendResult
    <3>1. /\ ~stats.raw_message_received
          /\ \A n \in Message : InUp(n) => n.type # "RESULT"
      BY <2>3 DEF W!SendResult, PeerInv, UpInv, Pending
    <3>2. wstats' = wstats /\ net' \in {"sent", "not_sent"}
      BY <2>3 DEF W!SendResult
    <3>3. QED
      BY <2>1, <2>2, <3>1, <3>2 DEF New
  <2>4. AcksSent # {} => stats.raw_message_received
    BY VerdictRead
  <2>5. wstats.result_ack_received => stats.raw_message_received
    BY <2>4 DEF AckInv
  <2>6. CASE W!RecordSend
    <3>1. /\ net \in {"sent", "not_sent"} /\ net' \notin {"sent", "not_sent"}
          /\ wstats' = [wstats EXCEPT !.send_succeeded = (net = "sent")]
      BY <2>6 DEF W!RecordSend
    <3>2. wstats \in W!WorkerStats
      BY DEF PeerInv, SideType, W!WorkerTypeOK
    <3>3. /\ wstats'.send_succeeded <=> net = "sent"
          /\ wstats'.result_ack_received = wstats.result_ack_received
      BY <3>1, <3>2 DEF W!WorkerStats
    <3>4. ~W!SendResult
      BY <3>1 DEF W!SendResult
    <3>5. QED
      BY <2>1, <2>2, <2>5, <3>1, <3>3, <3>4 DEF New
  <2>7. CASE ~W!SendResult /\ ~W!RecordSend
    <3>1. /\ wstats'.send_succeeded = wstats.send_succeeded
          /\ net' \in {"sent", "not_sent"} => net' = net
          /\ net \in {"sent", "not_sent"} => net' = net
      BY <1>3, <2>2, <2>7, SentPlaces DEF StatsMove
    <3>2. \A n \in Message : InUp(n)' /\ n.type = "RESULT" => InUp(n)
      BY <2>2, <2>7 DEF New
    <3>3. wstats'.result_ack_received => wstats.send_succeeded
      <4>1. CASE wstats.result_ack_received
        BY <4>1
      <4>2. CASE /\ \E m \in sent : m.type = "RESULT_ACK"
                 /\ net \in {"result_ack", "poll"}
        BY <2>4, <4>2 DEF AcksSent
      <4>3. QED
        BY <2>2, <4>1, <4>2 DEF StatsMove
    <3>4. QED
      BY <2>1, <3>1, <3>2, <3>3
  <2>8. QED
    BY <2>3, <2>6, <2>7
<1>4. CASE TransportStep
  <2>1. stats' = stats /\ wstats' = wstats /\ net' = net
    BY <1>4 DEF TransportStep, vars, workerVars
  <2>2. QED
    BY <1>4, <2>1, TransportUp
<1>5. CASE Collect \/ UNCHANGED sysVars
  <2>1. stats' = stats /\ wstats' = wstats /\ up' = up /\ net' = net
    BY <1>5 DEF Collect, sysVars, workerSide, sockets, vars, workerVars
  <2>2. QED
    BY <2>1 DEF InUp
<1>6. QED
  BY <1>1, <1>2, <1>3, <1>4, <1>5, RunSteps

-----------------------------------------------------------------------------
(* Once the broker's main thread has ended, and what the harness then      *)
(* reads.                                                                  *)

\* A run that breaks off, as one that ends, leaves no result half acknowledged.
EndedInv ==
  pc["main"] = "dead" =>
    AckedIfAccepted /\ (stats.raw_message_received => result_handled)

LEMMA NextEndedInv ==
  ASSUME VInv, EndedInv, [Next]_vars
  PROVE  EndedInv'
<1>a. TypeOK /\ Mode = "run_once"
  BY OneRun DEF VInv, TInv
<1> USE DEF At, Goto, MainGoto
<1>1. CASE Quiet
  BY <1>a, <1>1 DEF Quiet, EndedInv, AckedIfAccepted, VInv, Outcome, Deciding
<1>2. CASE VerdictStep
  <2>1. pc'["main"] # "dead"
    BY <1>a, <1>2
       DEF VerdictStep, Finalize, DecideResult, Accept, Reject, AckResult,
           AfterMessage, Assign, ResultArrives, HandleResult, TypeOK, Threads
  <2>2. QED
    BY <2>1 DEF EndedInv
<1>3. QED
  BY <1>1, <1>2, StepKinds DEF VInv

Settled ==
  UNCHANGED <<stats.raw_message_received, stats.result_accepted,
              stats.result_rejected, jobs, AcksSent>>

LEMMA EndedStays ==
  ASSUME VInv, MainEnded, [Next]_vars
  PROVE  MainEnded' /\ Settled
<1>a. TypeOK /\ Mode = "run_once"
  BY OneRun DEF VInv, TInv
<1> USE DEF At, MainEnded
<1>1. CASE Quiet
  BY <1>a, <1>1 DEF Quiet, Settled
<1>2. CASE VerdictStep
  BY <1>2 DEF VerdictStep, Finalize, DecideResult, AckResult, Assign,
              ResultArrives, HandleResult, Receiving
<1>3. QED
  BY <1>1, <1>2, StepKinds DEF VInv

\* What the verdict of an ended run is.
LEMMA EndedVerdict ==
  ASSUME VInv, EndedInv, MainEnded
  PROVE  /\ stats.raw_message_received <=> stats.result_accepted \/ stats.result_rejected
         /\ stats.result_missing <=> ~stats.raw_message_received
         /\ stats.result_accepted => ~stats.result_rejected
         /\ stats.result_accepted <=>
              \E j \in Jobs : jobs[j] # None /\ jobs[j].completed
         /\ stats.result_rejected <=>
              \E j \in Jobs : jobs[j] # None /\ jobs[j].rejected
         /\ AcksSent # {} => stats.result_accepted
<1>1. stats.raw_message_received => result_handled
  BY DEF EndedInv, MainEnded, VInv, Outcome, Deciding
<1>2. /\ NoVerdict \/ \E j \in Jobs : AcceptedAs(j) \/ RefusedAs(j)
      /\ ~stats.raw_message_received => NoVerdict
      /\ stats.raw_message_received => ~NoVerdict
  BY <1>1 DEF VInv, Outcome, NoVerdict
<1>3. CASE NoVerdict
  BY <1>2, <1>3 DEF NoVerdict
<1>4. ASSUME NEW j \in Jobs, AcceptedAs(j)
      PROVE  /\ stats.result_accepted /\ ~stats.result_rejected /\ ~stats.result_missing
             /\ \E k \in Jobs : jobs[k] # None /\ jobs[k].completed
             /\ ~\E k \in Jobs : jobs[k] # None /\ jobs[k].rejected
  BY <1>4 DEF AcceptedAs
<1>5. ASSUME NEW j \in Jobs, RefusedAs(j)
      PROVE  /\ ~stats.result_accepted /\ stats.result_rejected /\ ~stats.result_missing
             /\ \E k \in Jobs : jobs[k] # None /\ jobs[k].rejected
             /\ ~\E k \in Jobs : jobs[k] # None /\ jobs[k].completed
             /\ AcksSent = {}
  BY <1>5 DEF RefusedAs
<1>6. CASE ~NoVerdict
  BY <1>2, <1>4, <1>5, <1>6
<1>7. QED
  BY <1>3, <1>6

\* What the harness has written down is still so.
Told(o) ==
  /\ o.facts \in T!PossibleFacts
  /\ o.facts.raw_message_received => o.facts.send_succeeded \/ W!Separate
  /\ o.transport_case = T!ScenarioCase(o.facts)
  /\ o.facts.raw_message_received = stats.raw_message_received
  /\ o.facts.result_accepted = stats.result_accepted
  /\ o.facts.result_rejected = stats.result_rejected

OutcomeInv == outcome # None => MainEnded /\ Told(outcome)

LEMMA CollectedFacts ==
  ASSUME RInv, VInv, AckInv, SentInv, EndedInv, MainEnded
  PROVE  /\ Facts \in T!PossibleFacts
         /\ caller = "returned" /\ Facts.raw_message_received =>
              Facts.send_succeeded \/ W!Separate
<1>1. wstats \in W!WorkerStats /\ stats \in BrokerStats
  BY DEF RInv, TInv, TypeOK, PeerInv, SideType, W!WorkerTypeOK
<1>2. Facts \in T!Outcomes
  BY <1>1 DEF Facts, T!Outcomes, W!WorkerStats, BrokerStats
<1>3. wstats.result_ack_received => stats.result_accepted /\ wstats.send_succeeded
  BY EndedVerdict DEF SentInv, AckInv
<1>4. Facts \in T!PossibleFacts
  BY <1>2, <1>3, EndedVerdict DEF T!PossibleFacts, Facts
<1>5. ~W!Separate /\ caller = "returned" => net # "sent"
  BY DEF RInv, PeerInv, ControlInv, W!NetEnded
<1>6. QED
  BY <1>4, <1>5 DEF SentInv, Facts

LEMMA ConfigStays ==
  ASSUME RInv, [SysNext]_sysVars
  PROVE  config' = config
BY RunSteps DEF OwnStep, ReadStep, W!Step, TransportStep, Collect, sysVars,
                workerSide, workerVars

LEMMA NextOutcomeInv ==
  ASSUME RInv, VInv, AckInv, SentInv, EndedInv, OutcomeInv, [SysNext]_sysVars
  PROVE  OutcomeInv'
<1>1. CASE Collect
  <2>1. /\ MainEnded /\ UNCHANGED <<pc, stats>>
        /\ outcome' = [facts |-> Facts, transport_case |-> T!ScenarioCase(Facts)]
    BY <1>1 DEF Collect, vars, control
  <2>2. PICK f \in T!PossibleFacts :
          /\ f = Facts
          /\ f.raw_message_received => f.send_succeeded \/ W!Separate
    BY <1>1, <2>1, CollectedFacts DEF Collect
  <2>3. /\ f.raw_message_received = stats.raw_message_received
        /\ f.result_accepted = stats.result_accepted
        /\ f.result_rejected = stats.result_rejected
    BY <2>2 DEF Facts
  <2>4. outcome'.facts = f /\ outcome'.transport_case = T!ScenarioCase(f)
    BY <2>1, <2>2
  <2>5. outcome'.transport_case = T!ScenarioCase(outcome'.facts)
    BY <2>4
  <2>6. W!Separate' = W!Separate
    BY <1>1, ConfigKept DEF Collect, workerSide, workerVars
  <2>7. QED
    BY <2>1, <2>2, <2>3, <2>4, <2>5, <2>6 DEF OutcomeInv, Told, MainEnded
<1>2. CASE outcome' = outcome /\ outcome # None
  <2>1. MainEnded /\ Told(outcome)
    BY <1>2 DEF OutcomeInv
  <2>2. MainEnded' /\ Settled
    BY <2>1, EndedStays, NextRInv
  <2>3. W!Separate' = W!Separate
    BY ConfigStays, ConfigKept
  <2>4. QED
    BY <1>2, <2>1, <2>2, <2>3 DEF OutcomeInv, Told, Settled
<1>3. CASE outcome' = outcome /\ outcome = None
  BY <1>3 DEF OutcomeInv
<1>4. Collect \/ outcome' = outcome
  BY RunSteps DEF OwnStep, ReadStep, TransportStep, sysVars
<1>5. QED
  BY <1>1, <1>2, <1>3, <1>4

\* The invariant of the run: the verdict, its ack and its report, at both ends.
RunInv == RInv /\ VInv /\ AckInv /\ SentInv /\ EndedInv /\ OutcomeInv

LEMMA InitRunInv == SysInit => RunInv
<1> SUFFICES ASSUME SysInit PROVE RunInv
  OBVIOUS
<1>1. Init /\ PeerInv
  BY InitPeer
<1>2. RInv /\ VInv
  BY <1>1, InitVInv DEF RInv, VInv
<1>3. AckInv /\ SentInv
  <2>1. ~stats.raw_message_received /\ AcksSent = {} /\ pc["main"] = "loop"
    BY <1>1 DEF Init, AcksSent, Threads
  <2>2. ~wstats.result_ack_received /\ net = "start"
    BY DEF SysInit, W!WorkerInit
  <2>3. \A m \in Message : ~InUp(m)
    BY DEF SysInit, W!TransportInit, InUp, InQ
  <2>4. QED
    BY <2>1, <2>2, <2>3 DEF AckInv, SentInv, Deciding
<1>4. EndedInv /\ OutcomeInv
  BY <1>1 DEF Init, SysInit, EndedInv, OutcomeInv, Threads
<1>5. QED
  BY <1>2, <1>3, <1>4 DEF RunInv

LEMMA NextRunInv == RunInv /\ [SysNext]_sysVars => RunInv'
BY NextRInv, VInvStep, NextAckInv, NextSentInv, NextEndedInv, NextOutcomeInv
   DEF RunInv

LEMMA RunInvHolds == SysSpec => []RunInv
BY InitRunInv, NextRunInv, PTL DEF SysSpec

-----------------------------------------------------------------------------
(* Results on the verdict, as both ends and the harness see it.            *)

\* What the worker counts as the acknowledgement of its result is the broker's,
\* of its job, completed and never refused: through every reconnect, refused
\* connection and lost message.
THEOREM AckEndToEndHolds ==
  SysSpec => []AckEndToEnd
<1>1. RunInv => AckEndToEnd
  <2> SUFFICES ASSUME RunInv, wstats.result_ack_received
               PROVE  /\ wstats.job_id # None /\ jobs[wstats.job_id] # None
                      /\ jobs[wstats.job_id].completed
                      /\ ~jobs[wstats.job_id].rejected
                      /\ \E m \in sent :
                           m.type = "RESULT_ACK" /\ m.job = wstats.job_id
    BY DEF AckEndToEnd
  <2>1. PICK m \in AcksSent : m.job = wstats.job_id
    BY DEF RunInv, AckInv
  <2>2. PICK j \in Jobs : AcceptedAs(j)
    BY <2>1 DEF RunInv, VInv, Outcome, NoVerdict, RefusedAs
  <2>3. j = wstats.job_id /\ j # None
    BY <2>1, <2>2, NoneAssumption DEF AcceptedAs
  <2>4. QED
    BY <2>1, <2>2, <2>3 DEF AcceptedAs, AcksSent
<1>2. QED
  BY <1>1, RunInvHolds, PTL

\* The two sides report no combination of facts but those from which the reports
\* of a campaign are computed; and but for a network thread that outlived the join,
\* a result the broker got is reported as sent.
THEOREM FactsArePossibleHolds ==
  SysSpec => []FactsArePossible
<1>1. RunInv => FactsArePossible
  BY DEF RunInv, OutcomeInv, Told, FactsArePossible
<1>2. QED
  BY <1>1, RunInvHolds, PTL

\* The case of a scenario, on facts that are possible.
LEMMA ScenarioCases ==
  ASSUME NEW o \in T!PossibleFacts
  PROVE  LET case == T!ScenarioCase(o)
         IN  /\ o.result_accepted <=> case \in {"SUCCESS", "CASE3_ACCEPTED_ACK_LOST"}
             /\ o.result_rejected <=> case = "CASE2_RECV_REJECTED"
             /\ case = "CASE1_SEND_NO_RECV" =>
                  o.send_succeeded /\ ~o.raw_message_received
             /\ case = "SUCCESS" => o.result_ack_received
BY DEF T!PossibleFacts, T!Outcomes, T!ScenarioCase, T!Override, T!Classify

\* The case the harness writes down is what happened to the job at the broker.
THEOREM OutcomeIsTruthHolds ==
  SysSpec => []OutcomeIsTruth
<1>1. RunInv => OutcomeIsTruth
  <2> SUFFICES ASSUME RunInv, outcome # None
               PROVE  OutcomeIsTruth
    BY DEF OutcomeIsTruth
  <2>1. MainEnded /\ Told(outcome) /\ VInv /\ EndedInv
    BY DEF RunInv, OutcomeInv
  <2>2. PICK o \in T!PossibleFacts : o = outcome.facts
    BY <2>1 DEF Told
  <2>3. /\ o.result_accepted <=> outcome.transport_case \in
             {"SUCCESS", "CASE3_ACCEPTED_ACK_LOST"}
        /\ o.result_rejected <=> outcome.transport_case = "CASE2_RECV_REJECTED"
        /\ outcome.transport_case = "CASE1_SEND_NO_RECV" =>
             o.send_succeeded /\ ~o.raw_message_received
    BY <2>1, <2>2, ScenarioCases DEF Told
  <2>4. /\ o.result_accepted <=>
             \E j \in Jobs : jobs[j] # None /\ jobs[j].completed
        /\ o.result_rejected <=>
             \E j \in Jobs : jobs[j] # None /\ jobs[j].rejected
    BY <2>1, <2>2, EndedVerdict DEF Told
  <2>5. ~o.raw_message_received => \A m \in sent : m.type # "RESULT_ACK"
    BY <2>1, <2>2 DEF Told, VInv, Outcome, NoVerdict, AcksSent
  <2>6. QED
    BY <2>2, <2>3, <2>4, <2>5 DEF OutcomeIsTruth
<1>2. QED
  BY <1>1, RunInvHolds, PTL

-----------------------------------------------------------------------------
(* The way of the worker through its strategy.                             *)

FullReconnect == W!ReconnectFirst /\ W!ModeUsed = "full"

\* It comes to the heartbeat it waits for, or to a second READY, by its one
\* reconnect.
PathMove ==
  /\ config' = config
  /\ net' = "heartbeat" =>
       \/ net = "heartbeat" /\ socket_generation' = socket_generation
       \/ /\ config.strategy = "manual-reconnect-heartbeat"
          /\ W!ModeUsed = "full" => socket_generation' = 1
  /\ net' \in {"start", "send_ready"} =>
       \/ net \in {"start", "send_ready"} /\ socket_generation' = socket_generation
       \/ config.strategy = "manual-reconnect-ready-ack"
  /\ ~Early => socket_generation' = socket_generation
  /\ Early /\ ~Early' /\ FullReconnect => socket_generation' = 1
  /\ caller' # "waiting" /\ net' = "start" => caller # "waiting" /\ net = "start"

LEMMA PathTaken ==
  ASSUME PeerInv, W!Step
  PROVE  PathMove
<1>a. /\ SideType /\ ControlInv /\ config' = config
      /\ W!Separate' = W!Separate
  BY ConfigKept DEF PeerInv, W!Step
<1>b. /\ wstats'.job_id = wstats.job_id
           \/ (wstats.job_id = None /\ job_thread' = "running")
  BY StatsEffect DEF StatsMove
<1> USE <1>a, <1>b DEF PathMove, Early, ControlInv
<1>1. CASE W!Connect
  BY <1>1 DEF W!Connect
<1>2. CASE W!SendReady \/ W!ReadyAckTimeout
  BY <1>2 DEF W!SendReady, W!ReadyAckTimeout, W!HandshakeFails, W!AfterHandshake,
              W!Initial, W!Expires
<1>3. CASE \/ W!NoJob \/ W!HeartbeatWaitTimeout \/ W!ResultAckTimeout
           \/ W!PollTimeout
  BY <1>3 DEF W!NoJob, W!HeartbeatWaitTimeout, W!ResultAckTimeout, W!PollTimeout,
              W!Expires
<1>4. CASE W!Loop \/ W!FinishJob
  BY <1>4 DEF W!Loop, W!FinishJob
<1>5. CASE W!UsesClosedSocket
  BY <1>5 DEF W!UsesClosedSocket, FullReconnect
<1>6. CASE W!CallerStops \/ W!Return
  BY <1>6 DEF W!CallerStops, W!Return, W!NetEnded
<1>7. CASE W!SendResult \/ W!RecordSend
  BY <1>7 DEF W!SendResult, W!RecordSend
<1>8. CASE W!ApplyPostJobStrategy
  <2>1. CASE ~W!ReconnectFirst
    BY <1>8, <2>1 DEF W!ApplyPostJobStrategy, FullReconnect
  <2>2. CASE W!ReconnectFirst
    <3>1. /\ net = "strategy" /\ socket_generation = 0
          /\ socket_generation' = IF W!ModeUsed = "full" THEN 1 ELSE 0
      BY <1>8, <2>2 DEF W!ApplyPostJobStrategy, W!Reconnect
    <3>2. net' = W!AfterReconnect /\ caller' = caller
      BY <1>8, <2>2 DEF W!ApplyPostJobStrategy, W!Reconnect
    <3>3. /\ net' = "heartbeat" => config.strategy = "manual-reconnect-heartbeat"
          /\ net' = "send_ready" => config.strategy = "manual-reconnect-ready-ack"
          /\ net' # "start"
      BY <3>2 DEF W!AfterReconnect
    <3>4. QED
      BY <3>1, <3>2, <3>3 DEF FullReconnect
  <2>3. QED
    BY <2>1, <2>2
<1>9. ASSUME NEW m, W!Receives(m)
      PROVE  PathMove
  <2>1. /\ caller' = caller
        /\ socket_generation' = socket_generation
        /\ job_thread' \in {job_thread, "running"}
        /\ net' \in {net, "send_result", "end", "loop", "job", "working"}
        /\ net \in {"ready_ack", "job", "heartbeat", "result_ack", "poll"}
    BY <1>9 DEF W!Receives, W!WaitReadyAck, W!TakeJob, W!WaitForHeartbeat,
                W!WaitResultAck, W!PollReceives, W!RecvMessage, W!AfterHandshake
  <2>2. QED
    BY <2>1
<1>10. QED
  BY <1>1, <1>2, <1>3, <1>4, <1>5, <1>6, <1>7, <1>8, <1>9
     DEF W!Step, W!Network, W!Acts

-----------------------------------------------------------------------------
(* What the reconnects make of the run.                                    *)

\* Only a strategy that waits for READY_ACK lets a broker hear of the second
\* session.
HeardInv ==
  /\ config.strategy # "manual-reconnect-ready-ack" => Fresh(Second)
  /\ net = "heartbeat" /\ W!ModeUsed = "full" => socket_generation = 1
  /\ net = "heartbeat" => config.strategy = "manual-reconnect-heartbeat"
  /\ net \in {"start", "send_ready"} /\ socket_generation = 1
       => config.strategy = "manual-reconnect-ready-ack"

\* A worker that reconnects fully leaves its first socket for good, which the
\* network thread of separate mode goes on polling.
FullInv ==
  FullReconnect =>
    /\ ~Early => socket_generation = 1
    /\ W!Separate => ~wstats.result_ack_received
    /\ W!Separate /\ outcome # None => ~outcome.facts.result_ack_received

ReturnedInv == caller # "waiting" => net # "start"

LEMMA FreshStays ==
  ASSUME RInv, [SysNext]_sysVars, NEW s \in Sessions, Fresh(s),
         ~(W!SendReady /\ W!session_id = s)
  PROVE  Fresh(s)'
<1> USE DEF RInv
<1>1. CASE OwnStep
  <2>1. up' = up /\ \A e \in Sessions : Known(e) <=> Known(e)'
    BY <1>1, OwnRecords DEF OwnStep
  <2>2. QED
    BY <2>1 DEF Fresh, InUp
<1>2. ASSUME NEW c \in W!Conns, ReadStep(c)
      PROVE  Fresh(s)'
  <2>1. PICK m \in Message : m = Head(up[c]) /\ InUp(m)
    BY <1>2, ReadsArrive DEF ReadStep
  <2>2. ~Known(s)'
    BY <1>2, <2>1, ReadRecords DEF ReadStep, Fresh
  <2>3. \A n \in Message : InUp(n)' => InUp(n)
    BY <1>2, ReadUp DEF ReadStep
  <2>4. QED
    BY <2>2, <2>3 DEF Fresh
<1>3. CASE W!Step /\ UNCHANGED <<vars, outcome>>
  <2>1. Known(s)' <=> Known(s)
    BY <1>3 DEF vars, registry, Known
  <2>2. \A n \in Message : InUp(n)' => InUp(n) \/ New(n)
    BY <1>3, UpNews
  <2>3. QED
    BY <2>1, <2>2 DEF Fresh, New
<1>4. CASE TransportStep
  <2>1. Known(s)' <=> Known(s)
    BY <1>4 DEF TransportStep, vars, registry, Known
  <2>2. QED
    BY <1>4, <2>1, TransportUp DEF Fresh
<1>5. CASE Collect \/ UNCHANGED sysVars
  <2>1. rec' = rec /\ up' = up
    BY <1>5 DEF Collect, sysVars, workerSide, sockets, vars, registry
  <2>2. QED
    BY <2>1 DEF Fresh, InUp, Known
<1>6. QED
  BY <1>1, <1>2, <1>3, <1>4, <1>5, RunSteps

\* What the other steps leave of the worker.
LEMMA WorkerRests ==
  ASSUME RInv, [SysNext]_sysVars, ~(W!Step /\ UNCHANGED <<vars, outcome>>)
  PROVE  UNCHANGED workerVars
BY RunSteps DEF OwnStep, ReadStep, TransportStep, Collect, sysVars, workerSide

LEMMA NextHeardInv ==
  ASSUME RInv, HeardInv, [SysNext]_sysVars
  PROVE  HeardInv'
<1>1. CASE W!Step /\ UNCHANGED <<vars, outcome>>
  <2>1. PathMove
    BY <1>1, PathTaken DEF RInv
  <2>2. config.strategy # "manual-reconnect-ready-ack" => Fresh(Second)'
    <3>1. SUFFICES ASSUME config.strategy # "manual-reconnect-ready-ack"
                   PROVE  Fresh(Second)'
      OBVIOUS
    <3>2. ~(W!SendReady /\ W!session_id = Second)
      BY <3>1, RunConstants
         DEF HeardInv, W!SendReady, W!session_id, RInv, PeerInv, SideType,
             W!WorkerTypeOK, First
    <3>3. QED
      BY <3>1, <3>2, FreshStays, RunConstants DEF HeardInv
  <2>3. W!ModeUsed' = W!ModeUsed
    BY <2>1, ConfigKept DEF PathMove
  <2>4. QED
    BY <2>1, <2>2, <2>3 DEF PathMove, HeardInv
<1>2. CASE ~(W!Step /\ UNCHANGED <<vars, outcome>>)
  <2>1. UNCHANGED workerVars
    BY <1>2, WorkerRests
  <2>2. Fresh(Second) => Fresh(Second)'
    <3>1. CASE W!SendReady
      BY <2>1, <3>1 DEF W!SendReady, W!HandshakeFails, W!AfterHandshake, workerVars
    <3>2. CASE ~W!SendReady
      BY <3>2, FreshStays, RunConstants
    <3>3. QED
      BY <3>1, <3>2
  <2>3. W!ModeUsed' = W!ModeUsed
    BY <2>1, ConfigKept DEF workerVars
  <2>4. QED
    BY <2>1, <2>2, <2>3 DEF workerVars, HeardInv
<1>3. QED
  BY <1>1, <1>2

LEMMA NextFullInv ==
  ASSUME RunInv, FullInv, [SysNext]_sysVars
  PROVE  FullInv'
<1>a. RInv /\ VInv
  BY DEF RunInv
<1>1. CASE W!Step /\ UNCHANGED <<vars, outcome>>
  <2>1. PathMove /\ StatsMove /\ ControlInv
    BY <1>a, <1>1, PathTaken, StatsEffect DEF RInv, PeerInv
  <2>2. /\ W!Separate' = W!Separate /\ FullReconnect' = FullReconnect
        /\ outcome' = outcome
    BY <1>1, <2>1, ConfigKept DEF PathMove, FullReconnect
  <2>3. FullReconnect /\ W!Separate => ~wstats'.result_ack_received
    <3>1. SUFFICES ASSUME FullReconnect, W!Separate, wstats'.result_ack_received
                   PROVE  FALSE
      OBVIOUS
    <3>2. AcksSent # {} /\ W!Polled
      BY <2>1, <3>1 DEF FullInv, StatsMove, ControlInv, AcksSent
    <3>3. Pending
      BY <3>1, <3>2 DEF FullInv, W!Polled, Pending
    <3>4. ~stats.raw_message_received
      BY <1>a, <3>3 DEF RInv, PeerInv, UpInv
    <3>5. QED
      BY <1>a, <3>2, <3>4, VerdictRead
  <2>4. FullReconnect => (~Early' => socket_generation' = 1)
    BY <2>1 DEF PathMove, FullInv
  <2>5. QED
    BY <2>2, <2>3, <2>4 DEF FullInv
<1>2. CASE ~(W!Step /\ UNCHANGED <<vars, outcome>>)
  <2>1. UNCHANGED workerVars
    BY <1>a, <1>2, WorkerRests
  <2>2. /\ W!Separate' = W!Separate /\ FullReconnect' = FullReconnect
        /\ wstats' = wstats /\ socket_generation' = socket_generation
        /\ Early' <=> Early
    BY <2>1, ConfigKept DEF workerVars, FullReconnect, Early
  <2>3. \/ outcome' = outcome
        \/ outcome'.facts.result_ack_received = wstats.result_ack_received
    <3>1. CASE Collect
      BY <3>1 DEF Collect, Facts
    <3>2. CASE ~Collect
      BY <1>a, <1>2, <3>2, RunSteps DEF OwnStep, ReadStep, TransportStep, sysVars
    <3>3. QED
      BY <3>1, <3>2
  <2>4. QED
    BY <2>2, <2>3 DEF FullInv
<1>3. QED
  BY <1>1, <1>2

LEMMA NextReturnedInv ==
  ASSUME RInv, ReturnedInv, [SysNext]_sysVars
  PROVE  ReturnedInv'
<1>1. CASE W!Step /\ UNCHANGED <<vars, outcome>>
  <2>1. PathMove
    BY <1>1, PathTaken DEF RInv
  <2>2. QED
    BY <2>1 DEF PathMove, ReturnedInv
<1>2. CASE ~(W!Step /\ UNCHANGED <<vars, outcome>>)
  <2>1. UNCHANGED workerVars
    BY <1>2, WorkerRests
  <2>2. QED
    BY <2>1 DEF workerVars, ReturnedInv
<1>3. QED
  BY <1>1, <1>2

\* The invariant of the strategies, on top of that of the run.
StrategyInv == RunInv /\ HeardInv /\ FullInv /\ ReturnedInv

LEMMA InitStrategyInv == SysInit => StrategyInv
<1> SUFFICES ASSUME SysInit PROVE StrategyInv
  OBVIOUS
<1>1. RunInv /\ PeerInv
  BY InitRunInv, InitPeer
<1>2. /\ net = "start" /\ socket_generation = 0 /\ socket = FALSE
      /\ caller = "waiting" /\ wstats.job_id = None /\ outcome = None
      /\ ~wstats.result_ack_received
  BY DEF SysInit, W!WorkerInit
<1>3. Fresh(Second)
  BY <1>1, <1>2 DEF PeerInv, UpInv
<1>4. QED
  BY <1>1, <1>2, <1>3 DEF StrategyInv, HeardInv, FullInv, ReturnedInv, Early

LEMMA NextStrategyInv == StrategyInv /\ [SysNext]_sysVars => StrategyInv'
BY NextRunInv, NextHeardInv, NextFullInv, NextReturnedInv DEF StrategyInv, RunInv

LEMMA StrategyInvHolds == SysSpec => []StrategyInv
BY InitStrategyInv, NextStrategyInv, PTL DEF SysSpec

\* After a full reconnect without READY no HEARTBEAT the worker could accept is
\* ever on its way.
THEOREM NewSessionUnheardHolds ==
  SysSpec => []NewSessionUnheard
<1>1. StrategyInv => NewSessionUnheard
  <2> SUFFICES ASSUME StrategyInv, net = "heartbeat", W!ModeUsed = "full",
                      NEW i \in 1..Len(down[conn]),
                      down[conn][i].type = "HEARTBEAT",
                      down[conn][i].session = W!session_id
               PROVE  FALSE
    BY DEF NewSessionUnheard
  <2>1. W!session_id = Second /\ ~Known(Second)
    BY DEF StrategyInv, HeardInv, W!session_id, Second, Fresh
  <2>2. PICK c \in W!Conns : c = conn
    BY DEF StrategyInv, RunInv, RInv, PeerInv, SideType, W!WorkerTypeOK
  <2>3. PICK m \in Message : m = down[c][i] /\ InQ(down[c], m)
    <3>1. down[c] \in Seq(Message) /\ i \in 1..Len(down[c])
      BY <2>2 DEF StrategyInv, RunInv, RInv, PeerInv, SideType
    <3>2. down[c][i] \in Message
      BY <3>1
    <3>3. QED
      BY <3>1, <3>2 DEF InQ
  <2>4. m \in sent
    BY <2>3 DEF StrategyInv, RunInv, RInv, PeerInv, DownInv
  <2>5. Known(m.session)
    BY <2>2, <2>3, <2>4 DEF StrategyInv, RunInv, RInv, PeerInv, KnownInv
  <2>6. QED
    BY <2>1, <2>2, <2>3, <2>5
<1>2. QED
  BY <1>1, StrategyInvHolds, PTL

\* No run in separate mode with a full reconnect ends in SUCCESS.
THEOREM SeparateFullNeverSucceedsHolds ==
  SysSpec => []SeparateFullNeverSucceeds
<1>1. StrategyInv => SeparateFullNeverSucceeds
  <2> SUFFICES ASSUME StrategyInv, outcome # None, W!Separate, FullReconnect
               PROVE  outcome.transport_case # "SUCCESS"
    BY DEF SeparateFullNeverSucceeds, FullReconnect
  <2>1. Told(outcome) /\ ~outcome.facts.result_ack_received
    BY DEF StrategyInv, RunInv, OutcomeInv, FullInv
  <2>2. QED
    BY <2>1, ScenarioCases DEF Told
<1>2. QED
  BY <1>1, StrategyInvHolds, PTL


-----------------------------------------------------------------------------
(* The first handshake leaves nothing behind.                              *)

AckIn(q) == InQueue(q, "READY_ACK")

OneAck(q) ==
  \A i, k \in 1..Len(q) :
    q[i].type = "READY_ACK" /\ q[k].type = "READY_ACK" => i = k

ReadyOnWay == \E m \in Message : InUp(m) /\ m.type = "READY"

\* The broker has read a READY and not yet acknowledged it.
Answering == pc["main"] \in {"register", "ack_ready"}

\* Until its first handshake is over the worker's READY is one token, which the
\* broker's READY_ACK takes over; the worker asks for its job once it has that.
HandshakeInv ==
  wstats.job_id = None =>
    /\ net \in {"start", "send_ready", "job"} => ~Answering /\ ~AckIn(down[1])
    /\ net = "job" => ~ReadyOnWay
    /\ net = "ready_ack" =>
         /\ OneAck(down[1])
         /\ Answering \/ AckIn(down[1]) => ~ReadyOnWay
         /\ ~(Answering /\ AckIn(down[1]))

AcksKept(p, q) == (AckIn(p) => AckIn(q)) /\ (OneAck(q) => OneAck(p))

LEMMA PartAcks ==
  ASSUME NEW q \in Seq(Message), NEW p \in Seq(Message), PartOf(p, q)
  PROVE  AcksKept(p, q)
<1>1. PICK k \in Nat : k + Len(p) <= Len(q) /\ \A i \in 1..Len(p) : p[i] = q[i + k]
  BY DEF PartOf
<1>2. \A i \in 1..Len(p) : i + k \in 1..Len(q) /\ p[i] = q[i + k]
  BY <1>1
<1>3. AckIn(p) => AckIn(q)
  <2> SUFFICES ASSUME NEW i \in 1..Len(p), p[i].type = "READY_ACK"
               PROVE  AckIn(q)
    BY DEF AckIn, InQueue
  <2>1. PICK x \in 1..Len(q) : p[i] = q[x]
    BY <1>2
  <2>2. QED
    BY <2>1 DEF AckIn, InQueue
<1>4. OneAck(q) => OneAck(p)
  <2> SUFFICES ASSUME OneAck(q), NEW i \in 1..Len(p), NEW j \in 1..Len(p),
                      p[i].type = "READY_ACK", p[j].type = "READY_ACK"
               PROVE  i = j
    BY DEF OneAck
  <2>1. PICK x \in 1..Len(q) : p[i] = q[x] /\ x = i + k
    BY <1>2
  <2>2. PICK y \in 1..Len(q) : p[j] = q[y] /\ y = j + k
    BY <1>2
  <2>3. x = y
    BY <2>1, <2>2 DEF OneAck
  <2>4. QED
    BY <2>1, <2>2, <2>3
<1>5. QED
  BY <1>3, <1>4 DEF AcksKept

\* A queue with one more message has one more READY_ACK if that is one.
LEMMA QueuedAcks ==
  ASSUME NEW q \in Seq(Message), NEW m \in Message
  PROVE  /\ m.type # "READY_ACK" => AcksKept(W!Queued(q, m), q)
         /\ ~AckIn(q) => OneAck(W!Queued(q, m))
<1>1. CASE W!Queued(q, m) = q
  BY <1>1 DEF AcksKept, AckIn, InQueue, OneAck
<1>2. CASE W!Queued(q, m) = Append(q, m)
  <2>1. /\ Len(Append(q, m)) = Len(q) + 1 /\ Len(q) \in Nat
        /\ \A i \in 1..Len(q) : Append(q, m)[i] = q[i]
        /\ Append(q, m)[Len(q) + 1] = m
    BY AppendItems
  <2>2. \A i \in 1..Len(Append(q, m)) :
          \/ i \in 1..Len(q) /\ Append(q, m)[i] = q[i]
          \/ i = Len(q) + 1 /\ Append(q, m)[i] = m
    BY <2>1
  <2>3. QED
    BY <1>2, <2>2 DEF AcksKept, AckIn, InQueue, OneAck
<1>3. QED
  BY <1>1, <1>2, QueuedItems

\* The only one is gone once it has been read.
LEMMA TakenAck ==
  ASSUME NEW q \in Seq(Message), q # <<>>, OneAck(q), Head(q).type = "READY_ACK"
  PROVE  AckIn(q) /\ ~AckIn(Tail(q))
<1>1. /\ Len(q) \in Nat /\ Len(q) >= 1 /\ Len(Tail(q)) = Len(q) - 1
      /\ \A i \in 1..Len(Tail(q)) : Tail(q)[i] = q[i + 1]
      /\ q[1] = Head(q)
  BY TailPart
<1>2. 1 \in 1..Len(q)
  BY <1>1
<1>3. ASSUME NEW i \in 1..Len(Tail(q)), Tail(q)[i].type = "READY_ACK"
      PROVE  FALSE
  <2>1. PICK k \in 1..Len(q) : k # 1 /\ Tail(q)[i] = q[k]
    <3>1. i + 1 \in 1..Len(q) /\ i + 1 # 1 /\ Tail(q)[i] = q[i + 1]
      BY <1>1
    <3>2. QED
      BY <3>1
  <2>2. QED
    BY <1>1, <1>2, <1>3, <2>1 DEF OneAck
<1>4. QED
  BY <1>1, <1>2, <1>3 DEF AckIn, InQueue

-----------------------------------------------------------------------------
(* The steps of the handshake.                                             *)

\* Before its READY nothing of the worker is on the way.
LEMMA NoReadyYet ==
  ASSUME PeerInv, wstats.job_id = None
  PROVE  /\ conn = 1 /\ socket_generation = 0
         /\ net \in {"start", "send_ready"} => ~ReadyOnWay
<1>1. conn = 1 /\ socket_generation = 0
  BY DEF PeerInv, ControlInv, Early
<1>2. \A m \in Message : InUp(m) /\ m.type = "READY" => m.session = W!session_id
  BY <1>1, FirstOnly
<1>3. net \in {"start", "send_ready"} => Fresh(W!session_id)
  BY DEF PeerInv, UpInv
<1>4. QED
  BY <1>1, <1>2, <1>3 DEF Fresh, ReadyOnWay

\* What a step of the broker's own does to it.
OwnHandshake ==
  \/ /\ Answering /\ ~Answering'
     /\ ~AckIn(down[1]) => OneAck(down'[1])
  \/ (Answering' => Answering) /\ AcksKept(down'[1], down[1])

LEMMA OwnAnswers ==
  ASSUME TInv, PeerInv,
         \/ BrokerSends /\ UNCHANGED <<workerVars, outcome>>
         \/ BrokerKeepsToItself /\ UNCHANGED <<workerSide, outcome>>
  PROVE  OwnHandshake
<1> USE DEF OwnHandshake, Answering, At, Goto, MainGoto
<1>a. TypeOK /\ down \in [W!Conns -> Seq(Message)] /\ 1 \in W!Conns
  BY DEF TInv, PeerInv, SideType, W!Conns
<1>b. AcksKept(down[1], down[1])
  BY DEF AcksKept
<1>1. CASE BrokerKeepsToItself /\ UNCHANGED <<workerSide, outcome>>
  <2>1. down' = down
    BY <1>1 DEF workerSide, sockets
  <2>2. ASSUME NEW t \in Threads, Expire(t)
        PROVE  Answering' => Answering
    BY <1>a, <2>2 DEF Expire, Scan, Mark, Remove, DeleteRoute, CheckId, DeleteId,
                      EndExpiry, TypeOK, Threads
  <2>3. Answering' => Answering
    BY <1>a, <1>1, <2>2
       DEF BrokerKeepsToItself, StartExpiry, PollTimeout, EnterGrace, Finalize,
           Shutdown, RegisterId, Refresh, DecideResult, Accept, Reject,
           SettleWorker, PickWorker, Lapse, NothingToDispatch, Assign,
           DeadlinePasses, Wake, Rest, AfterMessage, control, TypeOK, Threads
  <2>4. QED
    BY <1>b, <2>1, <2>3
<1>2. ASSUME NEW m \in Message, down' = W!Routed(m)
      PROVE  /\ m.type # "READY_ACK" => AcksKept(down'[1], down[1])
             /\ ~AckIn(down[1]) => OneAck(down'[1])
  <2>1. down'[1] = down[1] \/ down'[1] = W!Queued(down[1], m)
    BY <1>a, <1>2, RoutedItems
  <2>2. ~AckIn(down[1]) => OneAck(down[1])
    BY DEF AckIn, InQueue, OneAck
  <2>3. down[1] \in Seq(Message)
    BY <1>a
  <2>4. QED
    BY <1>b, <2>1, <2>2, <2>3, QueuedAcks
<1>3. CASE BrokerSends
  <2>1. PICK m \in Message : Puts(m)
    BY <1>3, OwnMessages
  <2>2. /\ m.type # "READY_ACK" => AcksKept(down'[1], down[1])
        /\ ~AckIn(down[1]) => OneAck(down'[1])
    BY <1>2, <2>1 DEF Puts
  <2>3. CASE AckReady
    <3>1. Answering /\ ~Answering'
      BY <1>a, <2>3 DEF AckReady, AfterMessage, TypeOK, Threads
    <3>2. QED
      BY <2>2, <3>1
  <2>4. CASE ~AckReady
    <3>1. m.type # "READY_ACK"
      BY <2>1, <2>4 DEF Puts
    <3>2. Answering' => Answering
      BY <1>a, <1>3, <2>4
         DEF BrokerSends, AckResult, SendJob, SendBeat, AfterMessage, TypeOK,
             Threads
    <3>3. QED
      BY <2>2, <3>1, <3>2
  <2>5. QED
    BY <2>3, <2>4
<1>4. QED
  BY <1>1, <1>3

\* What reading a message does to it.
LEMMA ReadAnswers ==
  ASSUME TInv, PeerInv, NEW c \in W!Conns, BrokerReads(c),
         socket_generation = 0
  PROVE  /\ ~Answering /\ (ReadyOnWay' => ReadyOnWay)
         /\ Answering' => ReadyOnWay /\ ~ReadyOnWay'
<1> USE DEF Answering, At, Goto, MainGoto, ReadyOnWay
<1>a. TypeOK
  BY DEF TInv
<1>1. PICK m \in Message : m = Head(up[c])
  BY ReadsArrive
<1>2. /\ InUp(m)
      /\ \/ m.type = "READY" /\ HandleReady(m)
         \/ m.type = "HEARTBEAT" /\ HandleHeartbeat(m.route)
         \/ m.type = "RESULT" /\ HandleResult(m)
  BY <1>1, ReadsArrive
<1>3. \A n \in Message : InUp(n)' => InUp(n)
  BY ReadUp
<1>4. ~Answering
  BY <1>2 DEF HandleReady, HandleHeartbeat, HandleResult, Receiving
<1>5. CASE m.type = "READY" /\ HandleReady(m)
  <2>1. /\ up[c] # <<>> /\ up' = [up EXCEPT ![c] = Tail(up[c])]
        /\ up \in [W!Conns -> Seq(Message)] /\ Unrepeated(up)
    BY DEF BrokerReads, PeerInv, SideType, UpInv
  <2>2. up' \in [W!Conns -> Seq(Message)]
    BY <2>1, TailPart
  <2>3. \A d \in W!Conns : \A n \in Message :
          InQ(up'[d], n) => n.type # m.type \/ n.session # m.session
    <3>1. PICK u \in [W!Conns -> Seq(Message)] : u = up
      BY <2>1
    <3>2. PICK v \in [W!Conns -> Seq(Message)] : v = up'
      BY <2>2
    <3>3. /\ Unrepeated(u) /\ u[c] # <<>> /\ v = [u EXCEPT ![c] = Tail(u[c])]
          /\ m = Head(u[c]) /\ m.type # "HEARTBEAT"
      BY <1>1, <1>5, <2>1, <3>1, <3>2
    <3>4. Unrepeated(u) /\ u[c] # <<>> /\ v = [u EXCEPT ![c] = Tail(u[c])]
      BY <3>3
    <3>5. Head(u[c]).type # "HEARTBEAT" =>
            \A d \in W!Conns : \A n \in Message :
              InQ(v[d], n) =>
                n.type # Head(u[c]).type \/ n.session # Head(u[c]).session
      BY ONLY <3>4, TailUnrepeated, c \in W!Conns,
         u \in [W!Conns -> Seq(Message)], v \in [W!Conns -> Seq(Message)]
    <3>6. QED
      BY <3>2, <3>3, <3>5
  <2>4. \A n \in Message : InUp(n) /\ n.type = "READY" => n.session = First
    BY FirstOnly
  <2>5. \A n \in Message : InUp(n)' => n.type # "READY" \/ n.session # First
    BY <1>2, <1>5, <2>3, <2>4 DEF InUp, InQ
  <2>6. ~ReadyOnWay'
    BY <1>3, <2>4, <2>5
  <2>7. QED
    BY <1>2, <1>4, <1>5, <2>6
<1>6. CASE HandleHeartbeat(m.route) \/ HandleResult(m)
  <2>1. ~Answering'
    BY <1>a, <1>6 DEF HandleHeartbeat, HandleResult, AfterMessage, TypeOK, Threads
  <2>2. QED
    BY <1>3, <1>4, <2>1
<1>7. QED
  BY <1>2, <1>5, <1>6

\* A step that leaves no more READYs and READY_ACKs on their way.
LEMMA CalmHandshake ==
  ASSUME HandshakeInv, ReadyOnWay' => ReadyOnWay, Answering' => Answering,
         AcksKept(down'[1], down[1]), net' = net, wstats'.job_id = wstats.job_id
  PROVE  HandshakeInv'
BY DEF HandshakeInv, AcksKept

LEMMA ShrunkHandshake ==
  ASSUME PeerInv, HandshakeInv, Answering' => Answering,
         up' \in [W!Conns -> Seq(Message)], Shrinks(up', up),
         down' \in [W!Conns -> Seq(Message)], Shrinks(down', down),
         net' = net, wstats'.job_id = wstats.job_id
  PROVE  HandshakeInv'
<1>1. up \in [W!Conns -> Seq(Message)] /\ down \in [W!Conns -> Seq(Message)]
  BY DEF PeerInv, SideType
<1>2. ReadyOnWay' => ReadyOnWay
  BY <1>1, ShrinksUp DEF ReadyOnWay
<1>3. AcksKept(down'[1], down[1])
  <2>1. PICK c \in W!Conns : c = 1
    BY DEF W!Conns
  <2>2. down'[c] \in Seq(Message) /\ down[c] \in Seq(Message) /\ PartOf(down'[c], down[c])
    BY <1>1 DEF Shrinks
  <2>3. QED
    BY <2>1, <2>2, PartAcks
<1>4. QED
  BY <1>2, <1>3, CalmHandshake

\* A READY_ACK ends the first handshake, anything else prolongs it.
LEMMA WaitHandshake ==
  ASSUME PeerInv, HandshakeInv, UNCHANGED vars, NEW m, W!WaitReadyAck(m)
  PROVE  HandshakeInv'
<1>1. /\ W!RecvMessage(m) /\ m \in Message /\ net = "ready_ack"
      /\ down \in [W!Conns -> Seq(Message)] /\ up \in [W!Conns -> Seq(Message)]
      /\ wstats \in W!WorkerStats /\ conn \in W!Conns
  BY Received DEF W!WaitReadyAck, PeerInv, SideType, W!WorkerTypeOK
<1>2. wstats'.job_id = wstats.job_id
  <2>1. CASE m.type = "HEARTBEAT" /\ W!HandleHeartbeat(m)
    BY <1>1, <2>1, Echoed DEF PeerInv
  <2>2. CASE ~(m.type = "HEARTBEAT" /\ W!HandleHeartbeat(m))
    BY <1>1, <2>2 DEF W!WaitReadyAck, W!WorkerStats
  <2>3. QED
    BY <2>1, <2>2
<1>3. ReadyOnWay' => ReadyOnWay
  <2>1. CASE up' = up
    BY <2>1 DEF ReadyOnWay, InUp
  <2>2. CASE m.type = "HEARTBEAT" /\ W!HandleHeartbeat(m)
    <3>1. PICK e \in Message :
            /\ e.type = "HEARTBEAT"
            /\ up' = up \/ up' = [up EXCEPT ![conn] = Append(up[conn], e)]
      BY <1>1, <2>2, Echoed DEF PeerInv
    <3>2. \A n \in Message : InUp(n)' => InUp(n) \/ n = e
      BY <1>1, <3>1, AppendsUp
    <3>3. QED
      BY <3>1, <3>2 DEF ReadyOnWay
  <2>3. QED
    BY <2>1, <2>2 DEF W!WaitReadyAck
<1>4. Answering' <=> Answering
  BY DEF vars, control, Answering
<1> SUFFICES ASSUME wstats.job_id = None PROVE HandshakeInv'
  BY <1>2 DEF HandshakeInv
<1>5. conn = 1
  BY NoReadyYet
<1>6. PICK q \in Seq(Message) : q = down[1]
  BY <1>1, <1>5
<1>7. q # <<>> /\ m = Head(q) /\ down'[1] = Tail(q)
  BY <1>1, <1>5, <1>6 DEF W!RecvMessage
<1>8. AcksKept(down'[1], down[1])
  BY <1>6, <1>7, TailPart, PartAcks
<1>9. CASE net' = net
  BY <1>2, <1>3, <1>4, <1>8, <1>9, CalmHandshake
<1>10. CASE W!Acknowledges(m) /\ net' = W!AfterHandshake(TRUE)
  <2>1. AckIn(q) /\ ~AckIn(Tail(q))
    BY <1>1, <1>6, <1>7, <1>10, TakenAck DEF W!Acknowledges, HandshakeInv
  <2>2. ~Answering' /\ ~ReadyOnWay' /\ ~AckIn(down'[1])
    BY <1>1, <1>3, <1>4, <1>6, <1>7, <2>1 DEF HandshakeInv
  <2>3. net' \in {"loop", "job"}
    BY <1>10 DEF W!AfterHandshake, W!Initial
  <2>4. QED
    BY <2>2, <2>3 DEF HandshakeInv
<1>11. QED
  BY <1>9, <1>10 DEF W!WaitReadyAck

LEMMA WorkerHandshake ==
  ASSUME PeerInv, HandshakeInv, UNCHANGED vars, W!Step
  PROVE  HandshakeInv'
<1>a. StatsMove /\ ControlInv /\ SideType
  BY StatsEffect DEF PeerInv
<1>b. Answering' <=> Answering
  BY DEF vars, control, Answering
<1>1. CASE W!Connect
  BY <1>b, <1>1 DEF W!Connect, HandshakeInv
<1>2. CASE W!SendReady
  <2>1. /\ net = "send_ready" /\ down' = down /\ wstats' = wstats
        /\ net' = "ready_ack" \/ net' = W!AfterHandshake(FALSE)
    BY <1>2 DEF W!SendReady, W!HandshakeFails
  <2>2. CASE wstats.job_id = None
    <3>1. net' \in {"ready_ack", "end"}
      BY <2>1, <2>2 DEF W!AfterHandshake, W!Initial
    <3>2. ~Answering' /\ ~AckIn(down'[1])
      BY <1>b, <2>1, <2>2 DEF HandshakeInv
    <3>3. OneAck(down'[1])
      BY <3>2 DEF AckIn, InQueue, OneAck
    <3>4. QED
      BY <3>1, <3>2, <3>3 DEF HandshakeInv
  <2>3. CASE wstats.job_id # None
    BY <2>1, <2>3 DEF HandshakeInv
  <2>4. QED
    BY <2>2, <2>3
<1>3. CASE \/ W!ReadyAckTimeout \/ W!NoJob \/ W!HeartbeatWaitTimeout
           \/ W!ResultAckTimeout \/ W!Loop \/ W!PollTimeout
           \/ W!UsesClosedSocket \/ W!SendResult \/ W!RecordSend
  <2>1. /\ wstats'.job_id = None => wstats.job_id = None
        /\ net' \in {"start", "send_ready", "ready_ack", "job"} =>
             wstats'.job_id # None
    BY <1>a, <1>3
       DEF StatsMove, W!ReadyAckTimeout, W!HandshakeFails, W!AfterHandshake,
           W!Initial, W!NoJob, W!HeartbeatWaitTimeout, W!ResultAckTimeout,
           W!Loop, W!PollTimeout, W!UsesClosedSocket, W!SendResult, W!RecordSend
  <2>2. QED
    BY <2>1 DEF HandshakeInv
<1>4. CASE W!ApplyPostJobStrategy
  <2>1. net = "strategy"
    BY <1>4 DEF W!ApplyPostJobStrategy
  <2>2. wstats'.job_id # None
    BY <1>a, <2>1 DEF StatsMove, ControlInv
  <2>3. QED
    BY <2>2 DEF HandshakeInv
<1>5. CASE W!FinishJob
  <2>1. wstats'.job_id # None
    BY <1>a, <1>5 DEF W!FinishJob, ControlInv
  <2>2. QED
    BY <2>1 DEF HandshakeInv
<1>6. CASE W!CallerStops
  <2>1. UNCHANGED <<up, down, net, wstats>>
    BY <1>6 DEF W!CallerStops, W!transport
  <2>2. QED
    BY <1>b, <2>1, CalmHandshake DEF AcksKept, ReadyOnWay, InUp
<1>7. CASE W!Return
  <2>1. net' = net /\ wstats' = wstats
    BY <1>7 DEF W!Return
  <2>2. /\ up' \in [W!Conns -> Seq(Message)] /\ Shrinks(up', up)
        /\ down' \in [W!Conns -> Seq(Message)] /\ Shrinks(down', down)
    BY <1>a, <1>7, ClosedConnection, SameWire DEF W!Return, W!transport, SideType
  <2>3. QED
    BY <1>b, <2>1, <2>2, ShrunkHandshake
<1>8. ASSUME NEW m, W!Receives(m)
      PROVE  HandshakeInv'
  <2>1. CASE W!WaitReadyAck(m)
    BY <2>1, WaitHandshake
  <2>2. CASE W!TakeJob(m) \/ W!WaitForHeartbeat(m) \/ W!WaitResultAck(m)
             \/ W!PollReceives(m)
    <3>1. net' \in {"working", "end", "send_result", "heartbeat", "result_ack",
                    "loop"}
      BY <2>2 DEF W!TakeJob, W!WaitForHeartbeat, W!WaitResultAck, W!PollReceives
    <3>2. QED
      BY <3>1 DEF HandshakeInv
  <2>3. QED
    BY <1>8, <2>1, <2>2 DEF W!Receives
<1>9. QED
  BY <1>1, <1>2, <1>3, <1>4, <1>5, <1>6, <1>7, <1>8 DEF W!Step, W!Network, W!Acts

LEMMA NextHandshakeInv ==
  ASSUME RInv, HandshakeInv, [SysNext]_sysVars
  PROVE  HandshakeInv'
<1> USE DEF RInv
<1>1. CASE \/ BrokerSends /\ UNCHANGED <<workerVars, outcome>>
           \/ BrokerKeepsToItself /\ UNCHANGED <<workerSide, outcome>>
  <2>1. OwnHandshake
    BY <1>1, OwnAnswers
  <2>2. up' = up /\ UNCHANGED <<net, wstats>>
    BY <1>1, OwnMessages DEF workerSide, sockets, workerVars
  <2>3. ReadyOnWay' <=> ReadyOnWay
    BY <2>2 DEF ReadyOnWay, InUp
  <2>4. CASE (Answering' => Answering) /\ AcksKept(down'[1], down[1])
    BY <2>2, <2>3, <2>4, CalmHandshake
  <2>5. CASE /\ Answering /\ ~Answering'
             /\ ~AckIn(down[1]) => OneAck(down'[1])
    BY <2>2, <2>3, <2>5 DEF HandshakeInv
  <2>6. QED
    BY <2>1, <2>4, <2>5 DEF OwnHandshake
<1>2. ASSUME NEW c \in W!Conns, BrokerReads(c), UNCHANGED <<workerVars, outcome>>
      PROVE  HandshakeInv'
  <2>1. down' = down /\ UNCHANGED <<net, wstats>>
    BY <1>2 DEF BrokerReads, workerVars
  <2>2. CASE wstats.job_id = None
    <3>1. net \in {"start", "send_ready"} => ~ReadyOnWay
      BY <2>2, NoReadyYet
    <3>2. /\ ~Answering /\ (ReadyOnWay' => ReadyOnWay)
          /\ Answering' => ReadyOnWay /\ ~ReadyOnWay'
      BY <1>2, <2>2, NoReadyYet, ReadAnswers
    <3>3. QED
      BY <2>1, <2>2, <3>1, <3>2 DEF HandshakeInv
  <2>3. CASE wstats.job_id # None
    BY <2>1, <2>3 DEF HandshakeInv
  <2>4. QED
    BY <2>2, <2>3
<1>3. CASE WorkerStep
  BY <1>3, WorkerHandshake DEF WorkerStep
<1>4. CASE TransportStep
  <2>1. UNCHANGED <<net, wstats, pc>>
    BY <1>4 DEF TransportStep, workerVars, vars, control
  <2>2. QED
    BY <1>4, <2>1, TransportQueues, ShrunkHandshake DEF QueuesShrink, Answering
<1>5. CASE Collect \/ UNCHANGED sysVars
  <2>1. UNCHANGED <<up, down, net, wstats, pc>>
    BY <1>5 DEF Collect, sysVars, workerSide, sockets, workerVars, vars, control
  <2>2. QED
    BY <2>1, CalmHandshake DEF AcksKept, ReadyOnWay, InUp, Answering
<1>6. QED
  BY <1>1, <1>2, <1>3, <1>4, <1>5 DEF SysNext, BrokerStep

\* The broker sends nothing but its four kinds of messages.
SentKinds ==
  \A m \in sent : m.type \in {"READY_ACK", "HEARTBEAT", "JOB", "RESULT_ACK"}

LEMMA NextSentKinds ==
  ASSUME RInv, SentKinds, [SysNext]_sysVars
  PROVE  SentKinds'
<1> USE DEF RInv, SentKinds
<1>1. CASE BrokerSends
  BY <1>1, OwnMessages DEF Puts
<1>2. CASE BrokerKeepsToItself
  BY <1>2, OwnSilence
<1>3. ASSUME NEW c \in W!Conns, BrokerReads(c)
      PROVE  SentKinds'
  BY <1>3, ReadVerdict DEF Heard
<1>4. CASE WorkerStep \/ TransportStep \/ Collect \/ UNCHANGED sysVars
  BY <1>4 DEF WorkerStep, TransportStep, Collect, sysVars, vars
<1>5. QED
  BY <1>1, <1>2, <1>3, <1>4 DEF SysNext, BrokerStep

\* Nothing but a HEARTBEAT can come before the JOB the blocking worker waits for:
\* the READY_ACK is gone, and a RESULT_ACK takes a job.
THEOREM OnlyHeartbeatOvertakesJobHolds ==
  SysSpec => []OnlyHeartbeatOvertakesJob
<1> DEFINE Inv == RunInv /\ HandshakeInv /\ SentKinds
<1>1. SysInit => Inv
  <2> SUFFICES ASSUME SysInit PROVE Inv
    OBVIOUS
  <2>1. RunInv /\ Init
    BY InitRunInv, InitPeer
  <2>2. sent = {} /\ pc["main"] = "loop" /\ down[1] = <<>> /\ net = "start"
    BY <2>1 DEF Init, Threads, SysInit, W!TransportInit, W!WorkerInit, W!Conns
  <2>3. QED
    BY <2>1, <2>2 DEF HandshakeInv, SentKinds, Answering, AckIn, InQueue
<1>2. Inv /\ [SysNext]_sysVars => Inv'
  BY NextRunInv, NextHandshakeInv, NextSentKinds DEF RunInv
<1>3. Inv => OnlyHeartbeatOvertakesJob
  <2> SUFFICES ASSUME Inv, net = "job", NEW i \in 1..Len(down[conn]),
                      down[conn][i].type \notin {"JOB", "HEARTBEAT"}
               PROVE  FALSE
    BY DEF OnlyHeartbeatOvertakesJob
  <2>1. wstats.job_id = None /\ PeerInv
    BY DEF RunInv, RInv, PeerInv, ControlInv
  <2>2. conn = 1 /\ ~AckIn(down[1])
    BY <2>1, NoReadyYet DEF HandshakeInv
  <2>3. PICK c \in W!Conns : c = conn
    BY <2>1 DEF PeerInv, SideType, W!WorkerTypeOK
  <2>4. PICK m \in Message : m = down[c][i] /\ InQ(down[c], m)
    <3>1. down[c] \in Seq(Message) /\ i \in 1..Len(down[c])
      BY <2>1, <2>3 DEF PeerInv, SideType
    <3>2. down[c][i] \in Message
      BY <3>1
    <3>3. QED
      BY <3>1, <3>2 DEF InQ
  <2>5. m \in sent
    BY <2>1, <2>4 DEF PeerInv, DownInv
  <2>6. m.type \in {"READY_ACK", "RESULT_ACK"}
    BY <2>3, <2>4, <2>5 DEF SentKinds
  <2>7. m.type # "READY_ACK"
    BY <2>2, <2>3, <2>4 DEF AckIn, InQueue
  <2>8. m \in AcksSent
    BY <2>5, <2>6, <2>7 DEF AcksSent
  <2>9. stats.raw_message_received
    BY <2>8, VerdictRead DEF RunInv
  <2>10. QED
    BY <2>1, <2>9 DEF RunInv, AckInv
<1>4. QED
  BY <1>1, <1>2, <1>3, PTL DEF SysSpec

-----------------------------------------------------------------------------
(* The connection a session is acknowledged on.                            *)

Broken == ~bound \/ caller = "returned"

\* Only a connection the ROUTER took has messages for the worker, and the
\* second one is left alone until the worker reconnects.
LinkInv ==
  /\ \A c \in W!Conns : down[c] # <<>> => link[c] = "attached" \/ ~bound
  /\ conn = 1 => link[2] = "unused"
  /\ net = "start" => link[1] = "unused"

\* The worker's RESULT has left it, whether or not that is in its statistics yet.
HasSent == wstats.send_succeeded \/ net = "sent"

\* No session is acknowledged ahead of time, no RESULT sent before its turn.
TurnInv ==
  /\ net = "start" => current_session_id = None
  /\ socket_generation = 0 => current_session_id # Second
  /\ Pending => ~HasSent

\* A connection with an acknowledged session stays, and has the RESULT the worker
\* sent on it until the broker reads it.
SecuredInv ==
  Secured /\ ~Broken =>
    /\ link[conn] = "attached"
    /\ HasSent =>
         stats.raw_message_received \/ InQueue(up[conn], "RESULT")

\* A step of the worker that neither opens nor closes a connection.
SessionAcked ==
  /\ net = "ready_ack" /\ down[conn] # <<>>
  /\ current_session_id' = W!session_id

LinkKept ==
  /\ UNCHANGED <<link, bound, conn, socket_generation>>
  /\ \/ up' = up
     \/ \E m \in Message : up' = [up EXCEPT ![conn] = Append(up[conn], m)]
  /\ \/ down' = down
     \/ down[conn] # <<>> /\ down' = [down EXCEPT ![conn] = Tail(down[conn])]
  /\ current_session_id' = current_session_id \/ SessionAcked
  /\ caller = "returned" => caller' = "returned"
  /\ net' = "start" => net = "start" /\ current_session_id' = current_session_id

LEMMA WorkerLinks ==
  ASSUME PeerInv, W!Step
  PROVE  \/ W!Connect
         \/ W!Return
         \/ W!ApplyPostJobStrategy /\ W!ReconnectFirst
         \/ LinkKept
<1> USE DEF LinkKept
<1>a. SideType /\ wstats \in W!WorkerStats /\ caller \in {"waiting", "joining", "returned"}
  BY DEF PeerInv, SideType, W!WorkerTypeOK
<1>1. CASE W!ApplyPostJobStrategy /\ ~W!ReconnectFirst
  BY <1>1 DEF W!ApplyPostJobStrategy, W!transport
<1>2. CASE \/ W!ReadyAckTimeout \/ W!NoJob \/ W!HeartbeatWaitTimeout
           \/ W!ResultAckTimeout \/ W!Loop \/ W!PollTimeout
           \/ W!UsesClosedSocket \/ W!FinishJob \/ W!RecordSend
  BY <1>2 DEF W!RecordSend, W!ReadyAckTimeout, W!HandshakeFails, W!AfterHandshake, W!NoJob,
              W!HeartbeatWaitTimeout, W!ResultAckTimeout, W!Loop, W!PollTimeout,
              W!UsesClosedSocket, W!FinishJob, W!Expires, W!transport
<1>3. CASE W!CallerStops
  BY <1>a, <1>3 DEF W!CallerStops, W!transport
<1>4. CASE W!SendReady
  <2>1. PICK m \in Message : m = Msg("READY", RouteOf[conn], W!session_id, None)
    <3> DEFINE r == Msg("READY", RouteOf[conn], W!session_id, None)
    <3>1. r \in Message
      BY <1>a, SessionUsed DEF Msg, Message
    <3> HIDE DEF r
    <3>2. QED
      BY <3>1 DEF r
  <2>2. up' = up \/ up' = [up EXCEPT ![conn] = Append(up[conn], m)]
    BY <1>a, <1>4, <2>1, Handed DEF W!SendReady, W!Msg, Msg
  <2>3. /\ UNCHANGED <<link, bound, down, conn, socket_generation, caller,
                       current_session_id>>
        /\ net' # "start"
    BY <1>4 DEF W!SendReady, W!HandshakeFails, W!AfterHandshake
  <2>4. QED
    BY <2>2, <2>3
<1>5. CASE W!SendResult
  <2>1. PICK m \in Message :
          m = Msg("RESULT", RouteOf[conn], W!session_id, wstats.job_id)
    <3> DEFINE r == Msg("RESULT", RouteOf[conn], W!session_id, wstats.job_id)
    <3>1. r \in Message
      BY <1>a, SessionUsed DEF Msg, Message, W!WorkerStats
    <3> HIDE DEF r
    <3>2. QED
      BY <3>1 DEF r
  <2>2. up' = up \/ up' = [up EXCEPT ![conn] = Append(up[conn], m)]
    BY <1>a, <1>5, <2>1, Handed DEF W!SendResult, W!Msg, Msg
  <2>3. /\ UNCHANGED <<link, bound, down, conn, socket_generation, caller,
                       current_session_id>>
        /\ net' # "start"
    BY <1>5 DEF W!SendResult
  <2>4. QED
    BY <2>2, <2>3
<1>6. ASSUME NEW m, W!Receives(m)
      PROVE  LinkKept
  <2>1. W!RecvMessage(m) /\ Takes(m) /\ m \in Message
    BY <1>6, ReceivingSteps, Received
  <2>2. /\ UNCHANGED <<link, bound, conn, socket_generation, caller>>
        /\ down[conn] # <<>> /\ down' = [down EXCEPT ![conn] = Tail(down[conn])]
        /\ net' # "start"
    BY <1>6, <2>1
       DEF W!Receives, W!WaitReadyAck, W!TakeJob, W!WaitForHeartbeat,
           W!WaitResultAck, W!PollReceives, W!RecvMessage, W!AfterHandshake
  <2>3. \/ up' = up
        \/ \E e \in Message : up' = [up EXCEPT ![conn] = Append(up[conn], e)]
    <3>1. CASE up' = up
      BY <3>1
    <3>2. CASE m.type = "HEARTBEAT" /\ W!HandleHeartbeat(m)
      BY <1>a, <2>1, <3>2, Echoed
    <3>3. QED
      BY <2>1, <3>1, <3>2 DEF Takes
  <2>4. current_session_id' = current_session_id \/ SessionAcked
    <3>1. CASE current_session_id' = current_session_id
      BY <3>1
    <3>2. CASE /\ net = "ready_ack" /\ W!Acknowledges(m)
               /\ current_session_id' = m.session
      BY <2>2, <3>2 DEF SessionAcked, W!Acknowledges
    <3>3. QED
      BY <1>6, <3>1, <3>2
         DEF W!Receives, W!WaitReadyAck, W!TakeJob, W!WaitForHeartbeat,
             W!WaitResultAck, W!PollReceives
  <2>5. QED
    BY <2>2, <2>3, <2>4
<1>7. QED
  BY <1>1, <1>2, <1>3, <1>4, <1>5, <1>6 DEF W!Step, W!Network, W!Acts

LEMMA WorkerLinkInv ==
  ASSUME PeerInv, ReturnedInv, LinkInv, W!Step
  PROVE  LinkInv'
<1> USE DEF LinkInv
<1>a. /\ link \in [W!Conns -> W!LinkStates] /\ conn \in W!Conns
      /\ down \in [W!Conns -> Seq(Message)] /\ ControlInv
  BY DEF PeerInv, SideType, W!WorkerTypeOK
<1>b. W!Conns = {1, 2}
  BY DEF W!Conns
<1>1. CASE W!Connect
  <2>1. conn = 1
    BY <1>1 DEF W!Connect, PeerInv, ControlInv, Early
  <2>2. /\ link' = [link EXCEPT ![1] = "connecting"] /\ net' # "start"
        /\ UNCHANGED <<down, bound, conn>> /\ link[1] = "unused"
    BY <1>1, <2>1 DEF W!Connect
  <2>3. QED
    BY <1>a, <1>b, <2>1, <2>2
<1>2. CASE W!Return
  <2>1. net' = net /\ conn' = conn /\ net # "start"
    BY <1>2 DEF W!Return, W!NetEnded, ReturnedInv
  <2>2. CASE socket
    <3>1. W!CloseConnection(FALSE)
      BY <1>2, <2>2 DEF W!Return
    <3>2. /\ bound' = bound /\ down' = [down EXCEPT ![conn] = <<>>]
          /\ \A c \in W!Conns \ {conn} : link'[c] = link[c]
      BY <3>1 DEF W!CloseConnection
    <3>3. QED
      BY <1>a, <1>b, <2>1, <3>2
  <2>3. CASE ~socket
    BY <1>2, <2>1, <2>3 DEF W!Return, W!transport
  <2>4. QED
    BY <2>2, <2>3
<1>3. CASE W!ApplyPostJobStrategy /\ W!ReconnectFirst
  <2>1. conn = 1
    BY <1>3 DEF W!ApplyPostJobStrategy, PeerInv, ControlInv, Early
  <2>2. W!CloseConnection(TRUE) /\ conn' = 2 /\ net' # "start"
    <3>1. W!CloseConnection(TRUE) /\ conn' = conn + 1 /\ net' = W!AfterReconnect
      BY <1>3 DEF W!ApplyPostJobStrategy, W!Reconnect
    <3>2. W!AfterReconnect # "start"
      BY DEF W!AfterReconnect
    <3>3. conn' = 2
      BY <2>1, <3>1
    <3>4. QED
      BY <3>1, <3>2, <3>3
  <2>3. bound' = bound /\ down' = [down EXCEPT ![1] = <<>>]
    BY <2>1, <2>2 DEF W!CloseConnection
  <2>4. QED
    BY <1>a, <1>b, <2>1, <2>2, <2>3
<1>4. CASE LinkKept
  <2>1. \A c \in W!Conns : down'[c] # <<>> => down[c] # <<>>
    BY <1>a, <1>4 DEF LinkKept
  <2>2. QED
    BY <1>4, <2>1 DEF LinkKept
<1>5. QED
  BY <1>1, <1>2, <1>3, <1>4, WorkerLinks

LEMMA NextLinkInv ==
  ASSUME RInv, ReturnedInv, LinkInv, [SysNext]_sysVars
  PROVE  LinkInv'
<1> USE DEF LinkInv, RInv
<1>a. /\ link \in [W!Conns -> W!LinkStates]
      /\ down \in [W!Conns -> Seq(Message)]
  BY DEF PeerInv, SideType, W!WorkerTypeOK
<1>1. CASE BrokerSends /\ UNCHANGED <<workerVars, outcome>>
  <2>1. PICK m \in Message : down' = W!Routed(m)
    BY <1>1, OwnMessages DEF Puts
  <2>2. UNCHANGED <<link, bound, conn, net>>
    BY <1>1, OwnMessages DEF workerVars
  <2>3. QED
    BY <1>a, <2>1, <2>2, RoutedItems
<1>2. CASE BrokerKeepsToItself /\ UNCHANGED <<workerSide, outcome>>
  BY <1>2 DEF workerSide, sockets, workerVars
<1>3. ASSUME NEW c \in W!Conns, BrokerReads(c), UNCHANGED <<workerVars, outcome>>
      PROVE  LinkInv'
  BY <1>3 DEF BrokerReads, workerVars
<1>4. CASE WorkerStep
  BY <1>4, WorkerLinkInv DEF WorkerStep
<1>5. CASE TransportStep
  <2>a. UNCHANGED <<conn, net>>
    BY <1>5 DEF TransportStep, workerVars
  <2>1. ASSUME NEW c \in W!Conns, W!Attach(c)
        PROVE  LinkInv'
    <3>1. /\ bound' = bound /\ down' = down /\ bound /\ link[c] = "connecting"
          /\ \/ link' = [link EXCEPT ![c] = "refused"]
             \/ link' = [link EXCEPT ![c] = "attached"]
      BY <2>1 DEF W!Attach
    <3>2. \A d \in W!Conns : link'[d] = link[d] \/ d = c
      BY <1>a, <3>1
    <3>3. down[c] = <<>>
      BY <3>1
    <3>4. QED
      BY <2>a, <3>1, <3>2, <3>3 DEF W!Conns
  <2>2. ASSUME NEW c \in W!Conns, W!Forget(c)
        PROVE  LinkInv'
    <3>1. /\ bound' = bound /\ down' = down /\ link[c] = "closing"
          /\ link' = [link EXCEPT ![c] = "gone"]
      BY <2>2 DEF W!Forget
    <3>2. \A d \in W!Conns : link'[d] = link[d] \/ d = c
      BY <1>a, <3>1
    <3>3. QED
      BY <2>a, <3>1, <3>2 DEF W!Conns
  <2>3. CASE W!Unbind
    <3>1. ~bound' /\ \A c \in W!Conns : link[c] = "unused" => link'[c] = "unused"
      BY <2>3 DEF W!Unbind
    <3>2. QED
      BY <2>a, <3>1 DEF W!Conns
  <2>4. QED
    BY <1>5, <2>1, <2>2, <2>3 DEF TransportStep
<1>6. CASE Collect \/ UNCHANGED sysVars
  BY <1>6 DEF Collect, sysVars, workerSide, sockets, workerVars
<1>7. QED
  BY <1>1, <1>2, <1>3, <1>4, <1>5, <1>6 DEF SysNext, BrokerStep

\* The worker goes through its sessions and sends its RESULT once.
LEMMA WorkerTurns ==
  ASSUME PeerInv, W!Step
  PROVE  /\ Pending' => Pending
         /\ W!SendResult => Pending /\ ~Pending'
<1>a. ControlInv /\ StatsMove /\ config' = config /\ W!Separate' = W!Separate
  BY StatsEffect, ConfigKept DEF PeerInv, W!Step
<1> USE <1>a DEF ControlInv, StatsMove, Early, Pending, Resting
<1>1. ASSUME W!Connect \/ W!CallerStops \/ W!Return
      PROVE  Pending' => Pending
  BY <1>1 DEF W!Connect, W!CallerStops, W!Return
<1>2. ASSUME W!SendReady \/ W!ReadyAckTimeout
      PROVE  Pending' => Pending
  BY <1>2 DEF W!SendReady, W!ReadyAckTimeout
<1>3. ASSUME \/ W!NoJob \/ W!HeartbeatWaitTimeout \/ W!ResultAckTimeout
             \/ W!PollTimeout \/ W!UsesClosedSocket \/ W!RecordSend
      PROVE  Pending' => Pending
  BY <1>3 DEF W!RecordSend, W!NoJob, W!HeartbeatWaitTimeout, W!ResultAckTimeout, W!PollTimeout,
              W!UsesClosedSocket
<1>4. ASSUME W!Loop \/ W!FinishJob
      PROVE  Pending' => Pending
  BY <1>4 DEF W!Loop, W!FinishJob
<1>5. ASSUME W!SendResult
      PROVE  Pending /\ ~Pending'
  BY <1>5 DEF W!SendResult
<1>6. ASSUME W!ApplyPostJobStrategy
      PROVE  Pending' => Pending
  BY <1>6 DEF W!ApplyPostJobStrategy
<1>7. ASSUME NEW m, W!Receives(m)
      PROVE  Pending' => Pending
  <2>1. CASE W!WaitReadyAck(m) \/ W!WaitForHeartbeat(m)
    BY <2>1 DEF W!WaitReadyAck, W!WaitForHeartbeat
  <2>2. CASE W!TakeJob(m)
    BY <2>2 DEF W!TakeJob
  <2>3. CASE W!WaitResultAck(m)
    BY <2>3 DEF W!WaitResultAck
  <2>4. CASE W!PollReceives(m)
    BY <2>4 DEF W!PollReceives, W!Initial
  <2>5. QED
    BY <1>7, <2>1, <2>2, <2>3, <2>4 DEF W!Receives
<1>8. QED
  BY <1>1, <1>2, <1>3, <1>4, <1>5, <1>6, <1>7
     DEF W!Step, W!Network, W!Acts

LEMMA SentOnce ==
  ASSUME PeerInv, W!Step, HasSent', ~W!SendResult
  PROVE  HasSent
BY StatsEffect, SentPlaces DEF StatsMove, HasSent

LEMMA NextTurnInv ==
  ASSUME RInv, TurnInv, [SysNext]_sysVars
  PROVE  TurnInv'
<1> USE DEF TurnInv
<1>a. /\ socket_generation \in 0..1 /\ First # Second /\ None # Second
      /\ PeerInv
  BY RunConstants, NoneAssumption DEF RInv, PeerInv, SideType, W!WorkerTypeOK
<1>1. CASE W!Step /\ UNCHANGED <<vars, outcome>>
  <2>1. /\ Pending' => Pending
        /\ W!SendResult => ~Pending'
        /\ HasSent' /\ ~W!SendResult => HasSent
    BY <1>a, <1>1, WorkerTurns, SentOnce
  <2>2. Pending' => ~HasSent'
    BY <2>1
  <2>3. CASE W!Connect \/ W!Return \/ (W!ApplyPostJobStrategy /\ W!ReconnectFirst)
    <3>1. /\ current_session_id' = current_session_id
          /\ net' = "start" => net = "start"
      BY <2>3 DEF W!Connect, W!Return, W!ApplyPostJobStrategy, W!AfterReconnect
    <3>2. socket_generation' = 0 => socket_generation = 0
      <4>1. CASE W!Connect \/ W!Return
        BY <4>1 DEF W!Connect, W!Return
      <4>2. CASE W!ApplyPostJobStrategy
        BY <1>a, <4>2 DEF W!ApplyPostJobStrategy, PeerInv, ControlInv, Early
      <4>3. QED
        BY <2>3, <4>1, <4>2
    <3>3. QED
      BY <2>2, <3>1, <3>2
  <2>4. CASE LinkKept
    <3>1. SessionAcked /\ socket_generation = 0 => current_session_id' = First
      BY DEF SessionAcked, W!session_id, First
    <3>2. QED
      BY <1>a, <2>2, <2>4, <3>1 DEF LinkKept
  <2>5. QED
    BY <1>a, <1>1, <2>3, <2>4, WorkerLinks
<1>2. CASE ~(W!Step /\ UNCHANGED <<vars, outcome>>)
  <2>1. UNCHANGED workerVars
    BY <1>2, WorkerRests
  <2>2. Pending' <=> Pending
    BY <2>1, ConfigKept DEF workerVars, Pending, Early
  <2>3. QED
    BY <2>1, <2>2 DEF workerVars, HasSent
<1>3. QED
  BY <1>1, <1>2

\* A RESULT in a queue stays there while others are appended.
LEMMA AppendKeeps ==
  ASSUME NEW q \in Seq(Message), NEW m \in Message
  PROVE  /\ InQueue(q, "RESULT") => InQueue(Append(q, m), "RESULT")
         /\ m.type = "RESULT" => InQueue(Append(q, m), "RESULT")
<1>1. /\ Len(Append(q, m)) = Len(q) + 1 /\ Len(q) \in Nat
      /\ \A i \in 1..Len(q) : Append(q, m)[i] = q[i]
      /\ Append(q, m)[Len(q) + 1] = m
  BY AppendItems
<1>2. /\ Len(q) + 1 \in 1..Len(Append(q, m))
      /\ \A i \in 1..Len(q) : i \in 1..Len(Append(q, m))
  BY <1>1
<1>3. QED
  BY <1>1, <1>2 DEF InQueue

\* It is read, or stays behind the message that is.
LEMMA TailKeeps ==
  ASSUME NEW q \in Seq(Message), q # <<>>, InQueue(q, "RESULT")
  PROVE  Head(q).type = "RESULT" \/ InQueue(Tail(q), "RESULT")
<1>1. /\ Len(q) \in Nat /\ Len(q) >= 1 /\ Len(Tail(q)) = Len(q) - 1
      /\ \A i \in 1..Len(Tail(q)) : Tail(q)[i] = q[i + 1]
      /\ q[1] = Head(q)
  BY TailPart
<1>2. PICK i \in 1..Len(q) : q[i].type = "RESULT"
  BY DEF InQueue
<1>3. CASE i = 1
  BY <1>1, <1>2, <1>3
<1>4. CASE i # 1
  <2>1. PICK k \in 1..Len(Tail(q)) : k = i - 1
    BY <1>1, <1>4
  <2>2. Tail(q)[k] = q[i]
    <3>1. k + 1 = i
      BY <2>1
    <3>2. QED
      BY <1>1, <3>1
  <2>3. QED
    BY <1>2, <2>2 DEF InQueue
<1>5. QED
  BY <1>3, <1>4

\* The worker hands its RESULT to the connection it has secured.
LEMMA ResultHanded ==
  ASSUME PeerInv, W!SendResult, net' = "sent", bound,
         link[conn] = "attached"
  PROVE  InQueue(up'[conn], "RESULT")
<1>a. /\ SideType /\ wstats \in W!WorkerStats /\ conn \in W!Conns
      /\ up \in [W!Conns -> Seq(Message)] /\ up[conn] \in Seq(Message)
  BY DEF PeerInv, SideType, W!WorkerTypeOK
<1>1. PICK m \in Message :
        /\ m = Msg("RESULT", RouteOf[conn], W!session_id, wstats.job_id)
        /\ m.type = "RESULT"
  <2> DEFINE r == Msg("RESULT", RouteOf[conn], W!session_id, wstats.job_id)
  <2>1. r \in Message /\ r.type = "RESULT"
    BY <1>a, SessionUsed DEF Msg, Message, W!WorkerStats
  <2> HIDE DEF r
  <2>2. QED
    BY <2>1 DEF r
<1>2. PICK ok \in BOOLEAN : /\ W!SendMessage(m, ok)
                            /\ net' = IF ok THEN "sent" ELSE "not_sent"
  BY <1>1 DEF W!SendResult, W!Msg, Msg
<1>3. ok
  BY <1>2
<1>4. up' = [up EXCEPT ![conn] = W!Queued(up[conn], m)]
  BY <1>2, <1>3 DEF W!SendMessage, W!WithSent
<1>5. up'[conn] = Append(up[conn], m)
  <2>1. W!Queued(up[conn], m) = Append(up[conn], m)
    BY <1>1, <1>a, QueuedItems
  <2>2. QED
    BY <1>a, <1>4, <2>1
<1>6. QED
  BY <1>a, <1>1, <1>5, AppendKeeps

LEMMA WorkerSecuredInv ==
  ASSUME PeerInv, LinkInv, TurnInv, SecuredInv, W!Step, UNCHANGED vars
  PROVE  SecuredInv'
<1> SUFFICES ASSUME Secured', ~Broken'
             PROVE  /\ link'[conn'] = "attached"
                    /\ HasSent' =>
                         \/ stats.raw_message_received
                         \/ InQueue(up'[conn'], "RESULT")
  BY DEF SecuredInv, vars
<1>a. /\ conn \in W!Conns /\ up \in [W!Conns -> Seq(Message)]
      /\ up[conn] \in Seq(Message) /\ socket_generation \in 0..1 /\ SideType
      /\ First \in Sessions /\ Second \in Sessions /\ None \notin Sessions
  BY RunConstants, NoneAssumption DEF PeerInv, SideType, W!WorkerTypeOK
<1>b. bound' /\ caller' # "returned"
  BY DEF Broken
<1>1. CASE W!Connect
  <2>1. current_session_id' = None /\ socket_generation' = socket_generation
    BY <1>1 DEF W!Connect, TurnInv
  <2>2. W!session_id' \in Sessions
    BY <1>a, <2>1, SessionUsed DEF W!session_id
  <2>3. QED
    BY <1>a, <2>1, <2>2 DEF Secured
<1>2. CASE W!Return
  BY <1>b, <1>2 DEF W!Return
<1>3. CASE W!ApplyPostJobStrategy /\ W!ReconnectFirst
  <2>1. conn = 1 /\ socket_generation = 0
    BY <1>3 DEF W!ApplyPostJobStrategy, PeerInv, ControlInv, Early
  <2>2. /\ conn' = 2 /\ current_session_id' = current_session_id
        /\ socket_generation' \in {0, 1}
    BY <1>3, <2>1 DEF W!ApplyPostJobStrategy, W!Reconnect
  <2>3. socket_generation' = 1
    <3>1. conn' = socket_generation' + 1
      BY DEF Secured
    <3>2. conn' = 2 /\ (socket_generation' = 0 \/ socket_generation' = 1)
      BY <2>2
    <3>3. QED
      BY ONLY <3>1, <3>2
  <2>4. current_session_id' = Second
    BY <2>3 DEF Secured, W!session_id, Second
  <2>5. QED
    BY <2>1, <2>2, <2>4 DEF TurnInv
<1>4. CASE LinkKept
  <2>1. /\ conn' = conn /\ link' = link /\ bound /\ caller # "returned"
        /\ W!session_id' = W!session_id
    BY <1>b, <1>4 DEF LinkKept, W!session_id
  <2>2. CASE current_session_id' = current_session_id
    <3>1. Secured /\ ~Broken
      BY <1>4, <2>1, <2>2 DEF Secured, Broken, LinkKept
    <3>2. link[conn] = "attached"
      BY <3>1 DEF SecuredInv
    <3>3. CASE W!SendResult
      <4>1. ~HasSent /\ wstats' = wstats
        BY <3>3, WorkerTurns DEF TurnInv, W!SendResult
      <4>2. HasSent' => net' = "sent"
        BY <4>1 DEF HasSent
      <4>3. QED
        BY <2>1, <3>2, <3>3, <4>2, ResultHanded
    <3>4. CASE ~W!SendResult
      <4>1. HasSent' => HasSent
        BY <3>4, SentOnce
      <4>2. InQueue(up[conn], "RESULT") => InQueue(up'[conn], "RESULT")
        <5>1. CASE up' = up
          BY <5>1
        <5>2. ASSUME NEW m \in Message, up' = [up EXCEPT ![conn] = Append(up[conn], m)]
              PROVE  <4>2!:
          <6>1. up'[conn] = Append(up[conn], m)
            BY <1>a, <5>2
          <6>2. QED
            BY <1>a, <6>1, AppendKeeps
        <5>3. QED
          BY <1>4, <5>1, <5>2 DEF LinkKept
      <4>3. QED
        BY <2>1, <3>1, <3>2, <4>1, <4>2 DEF SecuredInv
    <3>5. QED
      BY <3>3, <3>4
  <2>3. CASE SessionAcked
    <3>1. link[conn] = "attached"
      BY <1>a, <2>1, <2>3 DEF SessionAcked, LinkInv
    <3>2. ~HasSent'
      BY <2>3, SentOnce DEF SessionAcked, TurnInv, Pending, W!SendResult
    <3>3. QED
      BY <2>1, <3>1, <3>2
  <2>4. QED
    BY <1>4, <2>2, <2>3 DEF LinkKept
<1>5. QED
  BY <1>1, <1>2, <1>3, <1>4, WorkerLinks

LEMMA NextSecuredInv ==
  ASSUME RInv, LinkInv, TurnInv, SecuredInv, [SysNext]_sysVars
  PROVE  SecuredInv'
<1> USE DEF RInv
<1>a. /\ conn \in W!Conns /\ up \in [W!Conns -> Seq(Message)]
      /\ link \in [W!Conns -> W!LinkStates]
  BY DEF PeerInv, SideType, W!WorkerTypeOK
<1>b. ASSUME UNCHANGED workerVars
      PROVE  /\ (Secured' <=> Secured) /\ conn' = conn /\ wstats' = wstats
             /\ caller' = caller /\ (HasSent' <=> HasSent)
  BY <1>b DEF workerVars, Secured, W!session_id, HasSent
<1>1. CASE OwnStep
  <2>1. /\ up' = up /\ UNCHANGED workerVars
        /\ stats'.raw_message_received = stats.raw_message_received
    BY <1>1, OwnRaw DEF OwnStep
  <2>2. link' = link /\ bound' = bound
    BY <1>1 DEF OwnStep
  <2>3. QED
    BY <1>b, <2>1, <2>2 DEF SecuredInv, Broken
<1>2. ASSUME NEW c \in W!Conns, ReadStep(c)
      PROVE  SecuredInv'
  <2>1. /\ UNCHANGED workerVars /\ link' = link /\ bound' = bound
        /\ up[c] # <<>> /\ up' = [up EXCEPT ![c] = Tail(up[c])]
    BY <1>2 DEF ReadStep, BrokerReads
  <2>2. PICK m \in Message : m = Head(up[c])
    BY <1>2, ReadsArrive DEF ReadStep
  <2>3. stats'.raw_message_received =
          (stats.raw_message_received \/ m.type = "RESULT")
    BY <1>2, <2>2, ReadRecords DEF ReadStep
  <2>4. InQueue(up[conn], "RESULT") =>
          m.type = "RESULT" \/ InQueue(up'[conn], "RESULT")
    <3>1. CASE conn = c
      <4>1. up[c] \in Seq(Message) /\ up'[c] = Tail(up[c])
        BY <1>a, <2>1
      <4>2. QED
        BY <2>1, <2>2, <3>1, <4>1, TailKeeps
    <3>2. CASE conn # c
      BY <1>a, <2>1, <3>2
    <3>3. QED
      BY <3>1, <3>2
  <2>5. QED
    BY <1>b, <2>1, <2>3, <2>4 DEF SecuredInv, Broken
<1>3. CASE W!Step /\ UNCHANGED <<vars, outcome>>
  BY <1>3, WorkerSecuredInv
<1>4. CASE TransportStep
  <2>1. UNCHANGED workerVars /\ stats' = stats
    BY <1>4 DEF TransportStep, vars
  <2>2. CASE W!Unbind
    BY <2>2 DEF W!Unbind, SecuredInv, Broken
  <2>3. ASSUME NEW c \in W!Conns, W!Attach(c) \/ W!Forget(c),
               link[conn] = "attached"
        PROVE  link'[conn] = link[conn] /\ up'[conn] = up[conn] /\ bound' = bound
    <3>1. c # conn
      BY <2>3 DEF W!Attach, W!Forget
    <3>2. CASE W!Attach(c)
      BY <1>a, <3>1, <3>2 DEF W!Attach
    <3>3. CASE W!Forget(c)
      BY <1>a, <3>1, <3>3 DEF W!Forget
    <3>4. QED
      BY <2>3, <3>2, <3>3
  <2>4. CASE \E c \in W!Conns : W!Attach(c) \/ W!Forget(c)
    <3>1. bound' = bound
      BY <2>4 DEF W!Attach, W!Forget
    <3>2. QED
      BY <1>b, <2>1, <2>3, <2>4, <3>1 DEF SecuredInv, Broken
  <2>5. QED
    BY <1>4, <2>2, <2>4 DEF TransportStep
<1>5. CASE Collect \/ UNCHANGED sysVars
  <2>1. UNCHANGED workerVars /\ stats' = stats /\ UNCHANGED sockets
    BY <1>5 DEF Collect, sysVars, workerSide, vars
  <2>2. QED
    BY <1>b, <2>1 DEF SecuredInv, Broken, sockets
<1>6. QED
  BY <1>1, <1>2, <1>3, <1>4, <1>5, RunSteps

\* A RESULT sent on a connection with an acknowledged session reaches the broker,
\* unless one of the two sockets is closed first.
THEOREM SecuredResultIsSafeHolds ==
  SysSpec => []SecuredResultIsSafe
<1> DEFINE Inv == StrategyInv /\ LinkInv /\ TurnInv /\ SecuredInv
<1>1. SysInit => Inv
  <2> SUFFICES ASSUME SysInit PROVE Inv
    OBVIOUS
  <2>1. StrategyInv
    BY InitStrategyInv
  <2>2. /\ \A c \in W!Conns : down[c] = <<>> /\ link[c] = "unused"
        /\ current_session_id = None /\ ~HasSent
    BY DEF SysInit, W!TransportInit, W!WorkerInit, HasSent
  <2>3. None # Second /\ W!session_id \in Sessions /\ None \notin Sessions
    BY <2>1, RunConstants, NoneAssumption, SessionUsed
       DEF StrategyInv, RunInv, RInv, PeerInv
  <2>4. QED
    BY <2>1, <2>2, <2>3 DEF LinkInv, TurnInv, SecuredInv, Secured, W!Conns
<1>2. Inv /\ [SysNext]_sysVars => Inv'
  BY NextStrategyInv, NextLinkInv, NextTurnInv, NextSecuredInv
     DEF StrategyInv, RunInv
<1>3. Inv => SecuredResultIsSafe
  BY DEF StrategyInv, RunInv, RInv, PeerInv, SideType, W!WorkerTypeOK, SecuredInv,
         SecuredResultIsSafe, Broken, HasSent
<1>4. QED
  BY <1>1, <1>2, <1>3, PTL DEF SysSpec
=============================================================================
