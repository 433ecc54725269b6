------------------------- MODULE SocketMonitorProofs ------------------------
(***************************************************************************)
(* Proofs about SocketMonitor.tla, for every set of events and any number  *)
(* of reconnects.                                                          *)
(*                                                                         *)
(* The thread asks its owner for the generation after it took the event,   *)
(* and the owner does not wait for it beyond join(2.0).  GenerationIsTrue  *)
(* holds because the PAIR is closed before the generation changes: a       *)
(* thread left behind still reports the event it holds, the join of its    *)
(* monitor has then expired, and there is no second event for it to take.  *)
(* NameIsTrue is arithmetic: the id is the whole first frame, and one that *)
(* has 16 bits has no value in it.                                         *)
(***************************************************************************)
EXTENDS SocketMonitor, TLAPS

\* An event in the queue: the frame libzmq sent, and what it is about.
QueuedEvent == [first : Nat, code : EventNames, of : Generations]

TimelineEvent == [code : EventNames, id : Nat, of : Generations,
                  generation : Generations]

\* The variables keep to the values the owner and the threads give them.
MonitorTypeOK ==
  /\ owner \in {"connect", "start", "use", "end", "join", "last_join", "close",
                "create", "closed"}
  /\ socket_generation \in Generations
  /\ owner \in {"join", "close"} => socket_generation < MaxReconnects
  /\ stop \in [Generations -> BOOLEAN]
  /\ thread \in [Generations -> {"off", "loop", "poll", "report", "ended"}]
  /\ held \in [Generations -> QueuedEvent \cup {None}]
  /\ \A g \in Generations : thread[g] = "report" => held[g] \in QueuedEvent
  /\ reconnect_event_count \in [Generations -> Nat]
  /\ pipe \in Seq(QueuedEvent)
  /\ timeline \in Seq(TimelineEvent)
  /\ reconnect_events \in Nat
  /\ outlived \subseteq Generations
  /\ emitted \in Nat

\* The frame holds the code below the value.
Packed(q) == \E v \in Nat : q.first = q.code + 2^16 * v

\* A monitor whose PAIR is closed has no thread, or its join has expired; one
\* that is still to start has no thread.
ThreadOut ==
  /\ \A g \in Generations :
       g < socket_generation \/ (g = socket_generation /\ owner = "close")
         => thread[g] \in {"off", "ended"} \/ g \in outlived
  /\ \A g \in Generations :
       (\/ g > socket_generation
        \/ g = socket_generation /\ owner \in {"connect", "create", "start"})
         => thread[g] = "off"

\* The events on their way are the current socket's, and there are none where
\* there is no PAIR; a thread holds an event of its own socket.
EventsAreOwn ==
  /\ owner \in {"connect", "close", "create", "closed"} => pipe = <<>>
  /\ \A i \in 1..Len(pipe) : pipe[i].of = socket_generation
  /\ \A g \in Generations : thread[g] = "report" => held[g].of = g

EventsArePacked ==
  /\ \A i \in 1..Len(pipe) : Packed(pipe[i])
  /\ \A g \in Generations : thread[g] = "report" => Packed(held[g])

\* What is reported.  A thread that has put its event under a later generation
\* holds none again.
TimelineIsTrue ==
  /\ \A i \in 1..Len(timeline) :
       /\ timeline[i].generation <= socket_generation
       /\ timeline[i].id \in EventNames => timeline[i].id = timeline[i].code
       /\ Mislabelled(timeline[i]) =>
            /\ timeline[i].of \in outlived
            /\ timeline[i].of < timeline[i].generation
            /\ thread[timeline[i].of] # "report"
  /\ \A i, j \in 1..Len(timeline) :
       Mislabelled(timeline[i]) /\ Mislabelled(timeline[j])
         /\ timeline[i].of = timeline[j].of => i = j

MInv == /\ MonitorTypeOK /\ ThreadOut /\ EventsAreOwn /\ EventsArePacked
        /\ TimelineIsTrue

-----------------------------------------------------------------------------
(* The two frames of an event.                                             *)

LEMMA Multiple ==
  ASSUME NEW v \in Nat, NEW K \in Nat
  PROVE  K * v \in Nat /\ (v = 0 => K * v = 0) /\ (v # 0 => K * v >= K)
<1>1. CASE v = 0
  BY <1>1
<1>2. CASE v >= 1
  BY <1>2
<1>3. QED
  BY <1>1, <1>2

\* A frame below K holds no value.
LEMMA LowBits ==
  ASSUME NEW K \in Nat, NEW c \in Nat, NEW d \in Nat, NEW v \in Nat,
         c < K, c = d + K * v
  PROVE  c = d
<1> DEFINE kv == K * v
<1>1. kv \in Nat /\ (v = 0 => kv = 0) /\ (v # 0 => kv >= K) /\ c = d + kv
  BY Multiple
<1> HIDE DEF kv
<1>2. QED
  BY <1>1

LEMMA SixteenBits ==
  /\ 2^16 \in Nat
  /\ \A c \in EventNames : c \in Nat /\ c < 2^16
<1>1. ASSUME NEW K \in Nat, K >= 1, EventNames \subseteq 0..(K - 1)
      PROVE  \A c \in EventNames : c \in Nat /\ c < K
  BY <1>1
<1>2. 2^16 \in Nat /\ 2^16 >= 1
  OBVIOUS
<1>3. QED
  BY <1>1, <1>2, MonitorAssumption

\* What EVENT_NAMES has a name for is a bare code.
LEMMA NamedIsCode ==
  ASSUME NEW q \in QueuedEvent, Packed(q), Decode(q.first) \in EventNames
  PROVE  Decode(q.first) = q.code
<1>1. PICK v \in Nat : q.first = q.code + 2^16 * v
  BY DEF Packed
<1>2. /\ q.first \in Nat /\ q.first < 2^16 /\ q.code \in Nat
  BY SixteenBits DEF QueuedEvent, Decode
<1>3. q.first = q.code
  BY <1>1, <1>2, LowBits, SixteenBits
<1>4. QED
  BY <1>3 DEF Decode

LEMMA Frame ==
  ASSUME NEW e \in Events
  PROVE  /\ e.code \in EventNames
         /\ FirstFrame(e) \in Nat
         /\ \E v \in Nat : FirstFrame(e) = e.code + 2^16 * v
<1>1. e.code \in EventNames /\ e.code \in Nat /\ e.value \in Nat
  BY MonitorAssumption, SixteenBits
<1>2. 2^16 * e.value \in Nat
  BY <1>1, Multiple, SixteenBits
<1>3. QED
  BY <1>1, <1>2 DEF FirstFrame

-----------------------------------------------------------------------------
(* The invariant.                                                          *)

LEMMA NothingQueued ==
  /\ \A S : <<>> \in Seq(S)
  /\ \A i : i \notin 1..Len(<<>>)
OBVIOUS

LEMMA GenerationsAreNat == 0 \in Generations /\ \A g \in Generations : g \in Nat
BY MonitorAssumption DEF Generations

LEMMA Kinds ==
  ASSUME MInv
  PROVE  /\ socket_generation \in Nat
         /\ \A g \in Generations : g \in Nat
         /\ \A i \in 1..Len(timeline) :
              timeline[i].of \in Generations /\ timeline[i].generation \in Generations
<1>1. socket_generation \in Generations /\ timeline \in Seq(TimelineEvent)
  BY DEF MInv, MonitorTypeOK
<1>2. \A i \in 1..Len(timeline) : timeline[i] \in TimelineEvent
  BY <1>1
<1>3. QED
  BY <1>1, <1>2, GenerationsAreNat DEF TimelineEvent

\* What was reported stays true while nobody takes an event.
LEMMA TimelineKept ==
  ASSUME MInv, UNCHANGED timeline,
         socket_generation' \in Nat, socket_generation' >= socket_generation,
         outlived \subseteq outlived',
         \A g \in Generations : thread'[g] = "report" => thread[g] = "report"
  PROVE  TimelineIsTrue'
<1>1. \A i \in 1..Len(timeline) :
        /\ timeline[i].of \in Generations
        /\ timeline[i].generation \in Nat /\ socket_generation \in Nat
  BY Kinds
<1>2. QED
  BY <1>1 DEF MInv, TimelineIsTrue, Mislabelled

LEMMA InitMInv == Init => MInv
<1> SUFFICES ASSUME Init PROVE MInv
  OBVIOUS
<1>1. MonitorTypeOK
  BY NothingQueued, GenerationsAreNat DEF Init, MonitorTypeOK
<1>2. ThreadOut /\ EventsAreOwn /\ EventsArePacked /\ TimelineIsTrue
  BY NothingQueued, GenerationsAreNat
     DEF Init, ThreadOut, EventsAreOwn, EventsArePacked, TimelineIsTrue
<1>3. QED
  BY <1>1, <1>2 DEF MInv

LEMMA EmitMInv ==
  ASSUME MInv, NEW e \in Events, Emit(e)
  PROVE  MInv'
<1> USE DEF MInv, MonitorTypeOK, monitors, reports
<1>1. CASE UNCHANGED pipe
  <2>1. TimelineIsTrue'
    BY TimelineKept, Kinds DEF Emit
  <2>2. QED
    BY <1>1, <2>1 DEF Emit, ThreadOut, EventsAreOwn, EventsArePacked, Packed
<1>2. CASE ~UNCHANGED pipe
  <2> DEFINE q == [first |-> FirstFrame(e), code |-> e.code,
                   of |-> socket_generation]
  <2>1. q \in QueuedEvent /\ q.of = socket_generation /\ Packed(q)
    BY Frame DEF QueuedEvent, Packed
  <2>2. pipe' = Append(pipe, q) /\ owner \notin {"connect", "close", "create", "closed"}
    BY <1>2 DEF Emit
  <2> HIDE DEF q
  <2>3. /\ pipe' \in Seq(QueuedEvent)
        /\ \A i \in 1..Len(pipe') :
             \/ pipe'[i] = q
             \/ i \in 1..Len(pipe) /\ pipe'[i] = pipe[i]
    BY <2>1, <2>2
  <2>4. EventsAreOwn' /\ EventsArePacked'
    <3>1. UNCHANGED <<owner, socket_generation, thread, held>>
      BY DEF Emit
    <3>2. EventsAreOwn'
      BY <2>1, <2>2, <2>3, <3>1 DEF EventsAreOwn
    <3>3. \A i \in 1..Len(pipe) : Packed(pipe[i])
      BY DEF EventsArePacked
    <3>4. \A i \in 1..Len(pipe') : Packed(pipe'[i])
      BY <2>1, <2>3, <3>3
    <3>5. EventsArePacked'
      BY <3>1, <3>4 DEF EventsArePacked, Packed
    <3>6. QED
      BY <3>2, <3>5
  <2>5. TimelineIsTrue'
    <3>1. UNCHANGED <<socket_generation, thread, timeline, outlived>>
      BY DEF Emit
    <3>2. QED
      BY <3>1, TimelineKept, Kinds
  <2>6. QED
    BY <2>3, <2>4, <2>5 DEF Emit, ThreadOut
<1>3. QED
  BY <1>1, <1>2

LEMMA OwnerMInv ==
  ASSUME MInv,
         \/ CreateSocket \/ StartMonitor \/ TakeCount \/ StopMonitor \/ CloseMonitor
         \/ CloseSocket
  PROVE  MInv'
<1> USE DEF monitors, reports
<1>1. CASE CloseSocket
  <2>1. socket_generation' \in Generations /\ socket_generation' = socket_generation + 1
    <3>1. /\ socket_generation' = socket_generation + 1
          /\ socket_generation < MaxReconnects /\ socket_generation \in 0..MaxReconnects
      BY <1>1 DEF CloseSocket, MInv, MonitorTypeOK, Generations
    <3>2. MaxReconnects \in Nat
      BY MonitorAssumption
    <3>3. QED
      BY <3>1, <3>2 DEF Generations
  <2>2. ThreadOut'
    <3>1. /\ owner = "close" /\ owner' = "create" /\ UNCHANGED <<thread, outlived>>
          /\ socket_generation \in Nat /\ \A g \in Generations : g \in Nat
      BY <1>1, Kinds DEF CloseSocket
    <3>2. QED
      BY <2>1, <3>1 DEF MInv, ThreadOut
  <2>3. TimelineIsTrue'
    BY <1>1, <2>1, Kinds, TimelineKept DEF CloseSocket
  <2>4. EventsAreOwn' /\ EventsArePacked'
    BY <1>1, <2>1, NothingQueued
       DEF CloseSocket, MInv, EventsAreOwn, EventsArePacked, Packed
  <2>5. MonitorTypeOK'
    BY <1>1, <2>1 DEF CloseSocket, MInv, MonitorTypeOK
  <2>6. QED
    BY <2>2, <2>3, <2>4, <2>5 DEF MInv
<1>2. CASE ~CloseSocket
  <2> USE DEF MInv, MonitorTypeOK, ThreadOut, EventsAreOwn, EventsArePacked
  <2>1. TimelineIsTrue'
    BY <1>2, Kinds, TimelineKept
       DEF CreateSocket, StartMonitor, TakeCount, StopMonitor, CloseMonitor
  <2>2. CASE CreateSocket
    BY <2>1, <2>2, NothingQueued DEF CreateSocket
  <2>3. CASE StartMonitor
    BY <2>1, <2>3, Kinds DEF StartMonitor
  <2>4. CASE TakeCount
    BY <2>1, <2>4 DEF TakeCount
  <2>5. CASE StopMonitor
    BY <2>1, <2>5, MonitorAssumption, Kinds DEF StopMonitor, Generations
  <2>6. CASE CloseMonitor
    BY <2>1, <2>6, NothingQueued DEF CloseMonitor, Joined, JoinExpires
  <2>7. QED
    BY <1>2, <2>2, <2>3, <2>4, <2>5, <2>6
<1>3. QED
  BY <1>1, <1>2

LEMMA TakeEventMInv ==
  ASSUME MInv, NEW g \in Generations, TakeEvent(g)
  PROVE  MInv'
<1> USE DEF MInv, MonitorTypeOK, TakeEvent, monitors, reports
<1>1. /\ pipe[1] \in QueuedEvent /\ 1 \in 1..Len(pipe) /\ Head(pipe) = pipe[1]
      /\ pipe' \in Seq(QueuedEvent)
      /\ \A i \in 1..Len(pipe') :
           i + 1 \in 1..Len(pipe) /\ pipe'[i] = pipe[i + 1]
  OBVIOUS
<1>2. /\ g = socket_generation /\ owner \in {"use", "end", "join", "last_join"}
      /\ \A h \in Generations :
           /\ thread'[h] = IF h = g THEN "report" ELSE thread[h]
           /\ held'[h] = IF h = g THEN pipe[1] ELSE held[h]
  BY <1>1 DEF Open
<1>3. EventsAreOwn' /\ EventsArePacked'
  BY <1>1, <1>2 DEF EventsAreOwn, EventsArePacked, Packed
<1>4. ThreadOut'
  BY <1>2, GenerationsAreNat DEF ThreadOut
<1>5. TimelineIsTrue'
  <2>1. ASSUME NEW i \in 1..Len(timeline), Mislabelled(timeline[i])
        PROVE  timeline[i].of \in Generations /\ timeline[i].of # g
    <3>1. /\ timeline[i].of \in Generations /\ timeline[i].of \in Nat
          /\ timeline[i].generation \in Nat
      BY Kinds, GenerationsAreNat
    <3>2. /\ timeline[i].of < timeline[i].generation
          /\ timeline[i].generation <= socket_generation /\ socket_generation \in Nat
      BY <2>1, Kinds DEF TimelineIsTrue
    <3>3. QED
      BY <1>2, <3>1, <3>2
  <2>2. QED
    BY <1>2, <2>1 DEF TimelineIsTrue, Mislabelled
<1>6. MonitorTypeOK'
  BY <1>1, <1>2
<1>7. QED
  BY <1>3, <1>4, <1>5, <1>6

LEMMA ReportMInv ==
  ASSUME MInv, NEW g \in Generations, Report(g)
  PROVE  MInv'
<1> USE DEF MInv, MonitorTypeOK, Report, monitors, reports
<1> DEFINE id == Decode(held[g].first)
           r == [code |-> held[g].code, id |-> id, of |-> held[g].of,
                 generation |-> socket_generation]
<1>1. held[g] \in QueuedEvent /\ Packed(held[g]) /\ held[g].of = g
  BY DEF EventsArePacked, EventsAreOwn
<1>2. /\ r \in TimelineEvent /\ r.of = g /\ r.generation = socket_generation
      /\ r.id \in EventNames => r.id = r.code
  BY <1>1, NamedIsCode DEF QueuedEvent, TimelineEvent, Decode
<1>3. Mislabelled(r) => g \in outlived /\ g < socket_generation
  <2>1. /\ g \in Nat /\ socket_generation \in Nat
        /\ ~(g > socket_generation)
    <3>1. g > socket_generation => thread[g] = "off"
      BY DEF ThreadOut
    <3>2. QED
      BY <3>1, Kinds
  <2>2. Mislabelled(r) => g # socket_generation
    BY <1>2 DEF Mislabelled
  <2>3. g < socket_generation => g \in outlived
    BY DEF ThreadOut
  <2>4. QED
    BY <2>1, <2>2, <2>3
<1>4. timeline' = Append(timeline, r)
  OBVIOUS
<1>5. reconnect_event_count' \in [Generations -> Nat]
  OBVIOUS
<1>6. \A h \in Generations :
        /\ thread'[h] = IF h = g THEN "loop" ELSE thread[h]
        /\ held'[h] = IF h = g THEN None ELSE held[h]
  OBVIOUS
<1> HIDE DEF r
<1>7. /\ timeline' \in Seq(TimelineEvent) /\ Len(timeline') = Len(timeline) + 1
      /\ timeline'[Len(timeline')] = r
      /\ \A i \in 1..Len(timeline') :
           i = Len(timeline') \/ (i \in 1..Len(timeline) /\ timeline'[i] = timeline[i])
  BY <1>2, <1>4
<1>8. \A i \in 1..Len(timeline) :
        /\ timeline[i].of \in Generations
        /\ Mislabelled(timeline[i]) => timeline[i].of # g
  BY Kinds DEF TimelineIsTrue
<1>9. TimelineIsTrue'
  <2> SUFFICES
        /\ \A i \in 1..Len(timeline') :
             /\ timeline'[i].generation <= socket_generation
             /\ timeline'[i].id \in EventNames => timeline'[i].id = timeline'[i].code
             /\ Mislabelled(timeline'[i]) =>
                  /\ timeline'[i].of \in outlived
                  /\ timeline'[i].of < timeline'[i].generation
                  /\ thread'[timeline'[i].of] # "report"
        /\ \A i, j \in 1..Len(timeline') :
             Mislabelled(timeline'[i]) /\ Mislabelled(timeline'[j])
               /\ timeline'[i].of = timeline'[j].of => i = j
    BY DEF TimelineIsTrue, Mislabelled
  <2>1. ASSUME NEW i \in 1..Len(timeline')
        PROVE  /\ timeline'[i].generation <= socket_generation
               /\ timeline'[i].id \in EventNames => timeline'[i].id = timeline'[i].code
               /\ Mislabelled(timeline'[i]) =>
                    /\ timeline'[i].of \in outlived
                    /\ timeline'[i].of < timeline'[i].generation
                    /\ thread'[timeline'[i].of] # "report"
    <3>1. CASE i = Len(timeline')
      BY <3>1, <1>2, <1>3, <1>6, <1>7, GenerationsAreNat
    <3>2. CASE i \in 1..Len(timeline) /\ timeline'[i] = timeline[i]
      BY <3>2, <1>6, <1>8 DEF TimelineIsTrue
    <3>3. QED
      BY <3>1, <3>2, <1>7
  <2>2. ASSUME NEW i \in 1..Len(timeline'), NEW j \in 1..Len(timeline'),
               Mislabelled(timeline'[i]), Mislabelled(timeline'[j]),
               timeline'[i].of = timeline'[j].of
        PROVE  i = j
    BY <2>2, <1>2, <1>7, <1>8 DEF TimelineIsTrue
  <2>3. QED
    BY <2>1, <2>2
<1>10. EventsAreOwn' /\ EventsArePacked'
  BY <1>6 DEF EventsAreOwn, EventsArePacked, Packed
<1>11. ThreadOut'
  BY <1>6, GenerationsAreNat DEF ThreadOut
<1>12. QED
  BY <1>5, <1>6, <1>7, <1>9, <1>10, <1>11

\* What the thread does without an event.
LEMMA RoundMInv ==
  ASSUME MInv, NEW g \in Generations,
         StartRound(g) \/ NothingCame(g) \/ PairGone(g) \/ ThreadEnds(g)
  PROVE  MInv'
<1> USE DEF MInv, MonitorTypeOK, monitors, reports, StartRound, NothingCame, PairGone,
            ThreadEnds
<1>1. /\ UNCHANGED <<owner, socket_generation, stop, held, reconnect_event_count, pipe,
                     reports, outlived, emitted>>
      /\ \E t \in {"loop", "poll", "ended"} :
           /\ thread' = [thread EXCEPT ![g] = t]
           /\ thread[g] \in {"loop", "poll"}
           /\ thread[g] = "ended" => t = "ended"
  OBVIOUS
<1>2. /\ thread' \in [Generations -> {"off", "loop", "poll", "report", "ended"}]
      /\ \A h \in Generations :
           /\ thread'[h] = "report" => thread[h] = "report"
           /\ thread[h] \in {"off", "ended", "report"} => thread'[h] = thread[h]
  BY <1>1
<1>3. EventsAreOwn' /\ EventsArePacked' /\ MonitorTypeOK'
  BY <1>1, <1>2 DEF EventsAreOwn, EventsArePacked, Packed
<1>4. ThreadOut'
  BY <1>1, <1>2 DEF ThreadOut
<1>5. TimelineIsTrue'
  BY <1>1, <1>2, Kinds, TimelineKept
<1>6. QED
  BY <1>3, <1>4, <1>5

LEMMA NextMInv == MInv /\ [Next]_vars => MInv'
<1> SUFFICES ASSUME MInv, [Next]_vars PROVE MInv'
  OBVIOUS
<1>1. CASE UNCHANGED vars
  BY <1>1
     DEF vars, monitors, reports, MInv, MonitorTypeOK, ThreadOut, EventsAreOwn,
         EventsArePacked, TimelineIsTrue
<1>2. QED
  BY <1>1, EmitMInv, OwnerMInv, TakeEventMInv, ReportMInv, RoundMInv DEF Next

LEMMA MonitorInvariance == Spec => []MInv
  BY InitMInv, NextMInv, PTL DEF Spec

-----------------------------------------------------------------------------
(* The theorems.                                                           *)

\* Whatever the owner does while threads hold events, and however many joins
\* expire: an event under a later generation is the one event its thread still
\* held when the owner stopped waiting for it.
THEOREM GenerationIsTrueHolds == Spec => []GenerationIsTrue
<1>1. ASSUME MInv PROVE GenerationIsTrue
  <2>1. DOMAIN timeline = 1..Len(timeline)
    BY <1>1 DEF MInv, MonitorTypeOK
  <2>2. QED
    BY <1>1, <2>1, GenerationsAreNat
       DEF MInv, MonitorTypeOK, TimelineEvent, TimelineIsTrue, GenerationIsTrue,
           Reported, Range
<1>2. QED
  BY <1>1, MonitorInvariance, PTL

\* Whatever its value, an event reported by a name is the event of that name.
THEOREM NameIsTrueHolds == Spec => []NameIsTrue
<1>1. MInv => NameIsTrue
  BY DEF MInv, MonitorTypeOK, TimelineIsTrue, NameIsTrue, Reported, Range
<1>2. QED
  BY <1>1, MonitorInvariance, PTL

=============================================================================
