------------------------- MODULE RouterFramesProofs -------------------------
(***************************************************************************)
(* Proofs about RouterFrames.tla, for any number of threads that share the *)
(* ROUTER and any number of sends.                                         *)
(*                                                                         *)
(* As long as nothing garbled is on its way, the threads inside a send are *)
(* those whose frames are in the message the ROUTER is inside of (Phases): *)
(* what is then read as a type and a body is of one send.  When a frame    *)
(* has gone where it should not, the message it went into cannot be read,  *)
(* and the worker fails on it before it reads any later one.               *)
(***************************************************************************)
EXTENDS RouterFrames, TLAPS

Messages == [from : Threads, number : Nat, worker : Workers]

Frames == [kind : {"route", "type", "body"}, of : Messages]

\* A send that has given its routing id, and its type.
AfterRoute(m) == <<Frame("type", m), Frame("body", m)>>
AfterType(m) == <<Frame("body", m)>>

FrameTypeOK ==
  /\ sending \in [Threads -> Seq(Frames)]
  /\ \A t \in Threads : sending[t] # <<>> =>
       \E m \in Messages :
         sending[t] \in {FramesOf(m), AfterRoute(m), AfterType(m)}
  /\ sends \in [Threads -> Nat]
  /\ more \in BOOLEAN
  /\ current \in Workers \union {None}
  /\ partial \in Seq(Frames)
  /\ pipe \in [Workers -> Seq(Seq(Frames))]
  /\ got \in [Workers -> SUBSET [type : Messages, fields : Messages]]
  /\ failed \in [Workers -> BOOLEAN]
  /\ alone \in [Threads -> BOOLEAN]

\* One worker, as in every harness of the repository.
OneWorker == \A v, w \in Workers : v = w

\* A thread that is not inside a send.
Outside(t) == sending[t] = <<>> \/ Len(sending[t]) = 3

\* Something w cannot read has been sent to it.
Garbled(w) ==
  failed[w] \/ \E i \in 1..Len(pipe[w]) : ~Readable(pipe[w][i])

Phases(w) ==
  /\ ~more => \A t \in Threads : Outside(t)
  /\ more => current = w
  /\ more /\ partial = <<>> =>
       \E t \in Threads : /\ Len(sending[t]) = 2
                          /\ \A u \in Threads \ {t} : Outside(u)
  /\ more /\ Len(partial) = 1 /\ partial[1].kind = "type" =>
       \E t \in Threads : /\ sending[t] = AfterType(partial[1].of)
                          /\ \A u \in Threads \ {t} : Outside(u)

NoBody == \A i \in 1..Len(partial) : partial[i].kind # "body"

\* What w will read before it fails is of one send each.
ReadIntact(w) ==
  failed[w] \/ \A i \in 1..Len(pipe[w]) :
                 (\A j \in 1..i : Readable(pipe[w][j])) =>
                   pipe[w][i][1].of = pipe[w][i][2].of

FramesInv ==
  /\ NoBody
  /\ \A w \in Workers : (Garbled(w) \/ Phases(w)) /\ ReadIntact(w)
  /\ DecodedIsIntact

\* The ROUTER is inside a message only while a thread is inside a send.
MoreMeansSending ==
  more => \E t \in Threads : sending[t] # <<>>

\* A send no other one overlaps has the ROUTER to itself.
AlonePhases ==
  \A t \in Threads : alone[t] =>
    \A m \in Messages :
      /\ sending[t] = FramesOf(m) => ~more
      /\ sending[t] = AfterRoute(m) =>
           more /\ current = m.worker /\ partial = <<>>
      /\ sending[t] = AfterType(m) =>
           more /\ current = m.worker /\ partial = <<Frame("type", m)>>

-----------------------------------------------------------------------------
(* The frames of a send.                                                   *)

LEMMA FrameType ==
  ASSUME NEW m \in Messages, NEW k \in {"route", "type", "body"}
  PROVE  Frame(k, m) \in Frames /\ Frame(k, m).kind = k /\ Frame(k, m).of = m
BY DEF Frame, Frames

LEMMA SendFrames ==
  ASSUME NEW m \in Messages
  PROVE  /\ FramesOf(m) \in Seq(Frames) /\ Len(FramesOf(m)) = 3
         /\ Head(FramesOf(m)) = Frame("route", m)
         /\ Tail(FramesOf(m)) = AfterRoute(m)
         /\ AfterRoute(m) \in Seq(Frames) /\ Len(AfterRoute(m)) = 2
         /\ Head(AfterRoute(m)) = Frame("type", m)
         /\ Tail(AfterRoute(m)) = AfterType(m)
         /\ AfterType(m) \in Seq(Frames) /\ Len(AfterType(m)) = 1
         /\ Head(AfterType(m)) = Frame("body", m)
         /\ Tail(AfterType(m)) = <<>>
         /\ FramesOf(m) # <<>> /\ AfterRoute(m) # <<>> /\ AfterType(m) # <<>>
<1>1. /\ Frame("route", m) \in Frames /\ Frame("type", m) \in Frames
      /\ Frame("body", m) \in Frames
  BY FrameType
<1>2. QED
  BY <1>1 DEF FramesOf, AfterRoute, AfterType

\* A frame is the last of no other send.
LEMMA SameSend ==
  ASSUME NEW m \in Messages, NEW n \in Messages
  PROVE  /\ FramesOf(m) = FramesOf(n) => m = n
         /\ AfterRoute(m) = AfterRoute(n) => m = n
         /\ AfterType(m) = AfterType(n) => m = n
<1>1. \A k \in {"route", "type", "body"} : Frame(k, m) = Frame(k, n) => m = n
  BY FrameType
<1>2. /\ Head(FramesOf(m)) = Frame("route", m) /\ Head(FramesOf(n)) = Frame("route", n)
      /\ Head(AfterRoute(m)) = Frame("type", m) /\ Head(AfterRoute(n)) = Frame("type", n)
      /\ Head(AfterType(m)) = Frame("body", m) /\ Head(AfterType(n)) = Frame("body", n)
  BY SendFrames
<1>3. QED
  BY <1>1, <1>2

\* What the ROUTER makes of a frame.
Taken(frame, last) ==
  /\ more' = ~last
  /\ ~more => /\ current' = IF last THEN None ELSE Peer(frame)
              /\ partial' = <<>>
              /\ pipe' = pipe
  /\ more /\ last =>
       /\ pipe' = IF current = None THEN pipe
                  ELSE [pipe EXCEPT ![current] =
                          Append(@, Append(partial, frame))]
       /\ current' = None
       /\ partial' = <<>>
  /\ more /\ ~last =>
       /\ partial' = IF current = None THEN <<>> ELSE Append(partial, frame)
       /\ UNCHANGED <<current, pipe>>

LEMMA GiveFrameCases ==
  ASSUME FrameTypeOK, NEW t \in Threads, GiveFrame(t)
  PROVE  \E m \in Messages :
           \/ /\ sending[t] = FramesOf(m)
              /\ sending' = [sending EXCEPT ![t] = AfterRoute(m)]
              /\ Taken(Frame("route", m), FALSE)
           \/ /\ sending[t] = AfterRoute(m)
              /\ sending' = [sending EXCEPT ![t] = AfterType(m)]
              /\ Taken(Frame("type", m), FALSE)
           \/ /\ sending[t] = AfterType(m)
              /\ sending' = [sending EXCEPT ![t] = <<>>]
              /\ Taken(Frame("body", m), TRUE)
<1>1. Taken(Head(sending[t]), LastFrame(t))
  BY DEF GiveFrame, Taken, FrameTypeOK
<1>2. sending' = [sending EXCEPT ![t] = Tail(sending[t])]
  BY DEF GiveFrame
<1>3. PICK m \in Messages :
        sending[t] \in {FramesOf(m), AfterRoute(m), AfterType(m)}
  BY DEF GiveFrame, FrameTypeOK
<1>4. CASE sending[t] = FramesOf(m)
  <2>1. Head(sending[t]) = Frame("route", m) /\ LastFrame(t) = FALSE
    BY <1>4, SendFrames DEF LastFrame
  <2>2. QED
    BY <1>1, <1>2, <1>4, <2>1, SendFrames
<1>5. CASE sending[t] = AfterRoute(m)
  <2>1. Head(sending[t]) = Frame("type", m) /\ LastFrame(t) = FALSE
    BY <1>5, SendFrames DEF LastFrame
  <2>2. QED
    BY <1>1, <1>2, <1>5, <2>1, SendFrames
<1>6. CASE sending[t] = AfterType(m)
  <2>1. Head(sending[t]) = Frame("body", m) /\ LastFrame(t) = TRUE
    BY <1>6, SendFrames DEF LastFrame
  <2>2. QED
    BY <1>1, <1>2, <1>6, <2>1, SendFrames
<1>7. QED
  BY <1>3, <1>4, <1>5, <1>6

\* The send a thread begins.
LEMMA BeginSendEffect ==
  ASSUME FrameTypeOK, NEW t \in Threads, NEW w \in Workers, BeginSend(t, w)
  PROVE  /\ sends' \in [Threads -> Nat]
         /\ \E m \in Messages : sending' = [sending EXCEPT ![t] = FramesOf(m)]
<1>1. sends' \in [Threads -> Nat]
  BY DEF BeginSend, FrameTypeOK
<1>2. Message(t, sends'[t], w) \in Messages
  BY <1>1 DEF Message, Messages
<1>3. QED
  BY <1>1, <1>2 DEF BeginSend

\* Where a frame goes.
LEMMA TakenType ==
  ASSUME FrameTypeOK, NEW frame \in Frames, NEW last \in BOOLEAN,
         Taken(frame, last)
  PROVE  /\ more' \in BOOLEAN /\ current' \in Workers \union {None}
         /\ partial' \in Seq(Frames) /\ pipe' \in [Workers -> Seq(Seq(Frames))]
<1>1. Append(partial, frame) \in Seq(Frames)
  BY DEF FrameTypeOK
<1>2. frame.of.worker \in Workers
  BY DEF Frames, Messages
<1>3. CASE ~more
  BY <1>2, <1>3 DEF Taken, FrameTypeOK, Peer
<1>4. CASE more /\ last
  <2>1. more' \in BOOLEAN /\ current' = None /\ partial' = <<>>
    BY <1>4 DEF Taken
  <2>2. CASE current = None
    BY <1>4, <2>1, <2>2 DEF Taken, FrameTypeOK
  <2>3. CASE current # None
    <3>1. current \in Workers /\ pipe[current] \in Seq(Seq(Frames))
      BY <2>3 DEF FrameTypeOK
    <3>2. Append(pipe[current], Append(partial, frame)) \in Seq(Seq(Frames))
      BY <1>1, <3>1
    <3>3. pipe' = [pipe EXCEPT ![current] =
                     Append(pipe[current], Append(partial, frame))]
      BY <1>4, <2>3 DEF Taken
    <3>4. QED
      BY <2>1, <3>1, <3>2, <3>3 DEF FrameTypeOK
  <2>4. QED
    BY <2>2, <2>3
<1>5. CASE more /\ ~last
  <2>1. more' \in BOOLEAN /\ UNCHANGED <<current, pipe>>
        /\ partial' \in {<<>>, Append(partial, frame)}
    BY <1>5 DEF Taken
  <2>2. <<>> \in Seq(Frames)
    OBVIOUS
  <2>3. QED
    BY <1>1, <2>1, <2>2 DEF FrameTypeOK
<1>6. QED
  BY <1>3, <1>4, <1>5 DEF FrameTypeOK

LEMMA RecvEffect ==
  ASSUME FrameTypeOK, NEW w \in Workers, RecvMessage(w)
  PROVE  /\ pipe' \in [Workers -> Seq(Seq(Frames))]
         /\ got' \in [Workers -> SUBSET [type : Messages, fields : Messages]]
         /\ failed' \in [Workers -> BOOLEAN]
         /\ Readable(Head(pipe[w])) =>
              /\ Decoded(Head(pipe[w])) =
                   [type |-> pipe[w][1][1].of, fields |-> pipe[w][1][2].of]
              /\ Decoded(Head(pipe[w])) \in [type : Messages, fields : Messages]
<1>1. pipe[w] \in Seq(Seq(Frames)) /\ pipe[w] # <<>>
  BY DEF RecvMessage, FrameTypeOK
<1>2. PICK h \in Seq(Frames) : h = Head(pipe[w]) /\ h = pipe[w][1]
  BY <1>1
<1>3. Tail(pipe[w]) \in Seq(Seq(Frames))
  BY <1>1
<1>4. ASSUME Readable(h)
      PROVE  /\ Decoded(h) = [type |-> h[1].of, fields |-> h[2].of]
             /\ Decoded(h) \in [type : Messages, fields : Messages]
  <2>1. h[1].kind = "type" /\ Len(h) \in Nat /\ Len(h) >= 2
    BY <1>2, <1>4 DEF Readable
  <2>2. h[1].of \in Messages /\ h[2].of \in Messages
    <3>1. 1 \in 1..Len(h) /\ 2 \in 1..Len(h)
      BY <2>1
    <3>2. h[1] \in Frames /\ h[2] \in Frames
      BY <1>2, <3>1
    <3>3. QED
      BY <3>2 DEF Frames
  <2>3. Decoded(h) = [type |-> h[1].of, fields |-> h[2].of]
    BY <2>1 DEF Decoded
  <2>4. QED
    BY <2>2, <2>3
<1>5. pipe' = [pipe EXCEPT ![w] = Tail(pipe[w])]
  BY DEF RecvMessage
<1>6. CASE Readable(h)
  <2>1. got' = [got EXCEPT ![w] = got[w] \union {Decoded(h)}] /\ failed' = failed
    BY <1>2, <1>6 DEF RecvMessage
  <2>2. Decoded(h) \in [type : Messages, fields : Messages]
    BY <1>4, <1>6
  <2>3. got' \in [Workers -> SUBSET [type : Messages, fields : Messages]]
    BY <2>1, <2>2 DEF FrameTypeOK
  <2>4. QED
    BY <1>2, <1>3, <1>4, <1>5, <1>6, <2>1, <2>3 DEF FrameTypeOK
<1>7. CASE ~Readable(h)
  <2>1. failed' = [failed EXCEPT ![w] = TRUE] /\ got' = got
    BY <1>2, <1>7 DEF RecvMessage
  <2>2. QED
    BY <1>2, <1>3, <1>5, <1>7, <2>1 DEF FrameTypeOK
<1>8. QED
  BY <1>6, <1>7

LEMMA InitFrames == Init => FrameTypeOK
<1> SUFFICES ASSUME Init PROVE FrameTypeOK
  OBVIOUS
<1>1. <<>> \in Seq(Frames) /\ <<>> \in Seq(Seq(Frames))
  OBVIOUS
<1>2. sending \in [Threads -> Seq(Frames)] /\ \A t \in Threads : sending[t] = <<>>
  BY <1>1 DEF Init
<1>3. partial \in Seq(Frames) /\ pipe \in [Workers -> Seq(Seq(Frames))]
  BY <1>1 DEF Init
<1>4. /\ sends \in [Threads -> Nat] /\ more \in BOOLEAN
      /\ current \in Workers \union {None} /\ failed \in [Workers -> BOOLEAN]
      /\ got \in [Workers -> SUBSET [type : Messages, fields : Messages]]
      /\ alone \in [Threads -> BOOLEAN]
  BY DEF Init
<1>5. QED
  BY <1>2, <1>3, <1>4 DEF FrameTypeOK

\* A thread's send goes on, and no other's.
LEMMA SendingPut ==
  ASSUME FrameTypeOK, NEW t \in Threads, NEW s, NEW m \in Messages,
         s \in {FramesOf(m), AfterRoute(m), AfterType(m), <<>>},
         sending' = [sending EXCEPT ![t] = s]
  PROVE  /\ sending' \in [Threads -> Seq(Frames)]
         /\ \A u \in Threads : sending'[u] # <<>> =>
              \E n \in Messages :
                sending'[u] \in {FramesOf(n), AfterRoute(n), AfterType(n)}
         /\ sending'[t] = s
         /\ \A u \in Threads : u # t => sending'[u] = sending[u]
<1>1. s \in Seq(Frames)
  <2>1. CASE s = <<>>
    BY <2>1
  <2>2. CASE s # <<>>
    BY <2>2, SendFrames
  <2>3. QED
    BY <2>1, <2>2
<1>2. sending \in [Threads -> Seq(Frames)]
  BY DEF FrameTypeOK
<1>3. /\ sending' \in [Threads -> Seq(Frames)] /\ sending'[t] = s
      /\ \A u \in Threads : u # t => sending'[u] = sending[u]
  BY <1>1, <1>2
<1>4. ASSUME NEW u \in Threads, sending'[u] # <<>>
      PROVE  \E n \in Messages :
               sending'[u] \in {FramesOf(n), AfterRoute(n), AfterType(n)}
  <2>1. CASE u = t
    BY <1>3, <1>4, <2>1
  <2>2. CASE u # t
    BY <1>3, <1>4, <2>2 DEF FrameTypeOK
  <2>3. QED
    BY <2>1, <2>2
<1>5. QED
  BY <1>3, <1>4

LEMMA FrameTypeStep ==
  ASSUME FrameTypeOK, [Next]_vars
  PROVE  FrameTypeOK'
<1>1. ASSUME NEW t \in Threads, NEW w \in Workers, BeginSend(t, w)
      PROVE  FrameTypeOK'
  <2>1. PICK m \in Messages : sending' = [sending EXCEPT ![t] = FramesOf(m)]
    BY <1>1, BeginSendEffect
  <2>2. alone' \in [Threads -> BOOLEAN]
    BY <1>1 DEF BeginSend, FrameTypeOK
  <2>3. UNCHANGED <<more, current, partial, pipe, got, failed>>
    BY <1>1 DEF BeginSend
  <2>4. /\ sending' \in [Threads -> Seq(Frames)]
        /\ \A u \in Threads : sending'[u] # <<>> =>
             \E n \in Messages :
               sending'[u] \in {FramesOf(n), AfterRoute(n), AfterType(n)}
    BY <2>1, SendingPut
  <2>5. sends' \in [Threads -> Nat]
    BY <1>1, BeginSendEffect
  <2>6. QED
    BY <2>2, <2>3, <2>4, <2>5 DEF FrameTypeOK
<1>2. ASSUME NEW t \in Threads, GiveFrame(t) PROVE FrameTypeOK'
  <2>1. /\ alone' \in [Threads -> BOOLEAN] /\ UNCHANGED <<sends, got, failed>>
    BY <1>2 DEF GiveFrame, FrameTypeOK
  <2>2. PICK m \in Messages :
          \E s \in {AfterRoute(m), AfterType(m), <<>>} :
            sending' = [sending EXCEPT ![t] = s]
    BY <1>2, GiveFrameCases
  <2>3. PICK frame \in Frames, last \in BOOLEAN : Taken(frame, last)
    BY <1>2, GiveFrameCases, FrameType
  <2>4. /\ more' \in BOOLEAN /\ current' \in Workers \union {None}
        /\ partial' \in Seq(Frames) /\ pipe' \in [Workers -> Seq(Seq(Frames))]
    BY <2>3, TakenType
  <2>5. PICK s \in {AfterRoute(m), AfterType(m), <<>>} :
          sending' = [sending EXCEPT ![t] = s]
    BY <2>2
  <2>6. /\ sending' \in [Threads -> Seq(Frames)]
        /\ \A u \in Threads : sending'[u] # <<>> =>
             \E n \in Messages :
               sending'[u] \in {FramesOf(n), AfterRoute(n), AfterType(n)}
    BY <2>5, SendingPut
  <2>7. QED
    BY <2>1, <2>4, <2>6 DEF FrameTypeOK
<1>3. ASSUME NEW w \in Workers, RecvMessage(w) PROVE FrameTypeOK'
  BY <1>3, RecvEffect DEF RecvMessage, FrameTypeOK
<1>4. CASE UNCHANGED vars
  BY <1>4 DEF vars, FrameTypeOK
<1>5. QED
  BY <1>1, <1>2, <1>3, <1>4 DEF Next

-----------------------------------------------------------------------------
(* What is on its way to a worker.                                         *)

LEMMA Appended ==
  ASSUME NEW S, NEW s \in Seq(S), NEW e \in S
  PROVE  /\ Append(s, e) \in Seq(S)
         /\ Len(s) \in Nat /\ Len(Append(s, e)) = Len(s) + 1
         /\ \A i \in 1..Len(s) : Append(s, e)[i] = s[i]
         /\ Append(s, e)[Len(s) + 1] = e
OBVIOUS

LEMMA Tailed ==
  ASSUME NEW S, NEW s \in Seq(S), s # <<>>
  PROVE  /\ Tail(s) \in Seq(S)
         /\ Len(s) \in Nat /\ Len(s) >= 1 /\ Len(Tail(s)) = Len(s) - 1
         /\ Head(s) = s[1]
         /\ \A i \in 1..Len(Tail(s)) : Tail(s)[i] = s[i + 1]
OBVIOUS

\* A message is put behind those on their way: what was garbled stays so, and
\* the new one is read only after them.
LEMMA PipeGrows ==
  ASSUME FrameTypeOK, NEW w \in Workers, NEW frames \in Seq(Frames),
         pipe'[w] = Append(pipe[w], frames), failed' = failed
  PROVE  /\ Garbled(w) => Garbled(w)'
         /\ ~Readable(frames) => Garbled(w)'
         /\ ReadIntact(w) /\ Garbled(w) => ReadIntact(w)'
         /\ ReadIntact(w) /\ frames[1].of = frames[2].of => ReadIntact(w)'
         /\ ReadIntact(w) /\ ~Readable(frames) => ReadIntact(w)'
<1>1. PICK old \in Seq(Seq(Frames)) : old = pipe[w]
  BY DEF FrameTypeOK
<1>2. PICK new \in Seq(Seq(Frames)) : new = pipe'[w] /\ new = Append(old, frames)
  BY <1>1, Appended
<1>3. /\ Len(old) \in Nat /\ Len(new) = Len(old) + 1
      /\ \A i \in 1..Len(old) : new[i] = old[i]
      /\ new[Len(old) + 1] = frames
  BY <1>2, Appended
<1>4. ASSUME Garbled(w) PROVE Garbled(w)'
  <2>1. CASE failed[w]
    BY <2>1 DEF Garbled
  <2>2. CASE ~failed[w]
    <3>1. PICK i \in 1..Len(old) : ~Readable(old[i])
      BY <1>1, <1>4, <2>2 DEF Garbled
    <3>2. i \in 1..Len(new) /\ new[i] = old[i]
      BY <1>3
    <3>3. ~Readable(new[i])
      BY <3>1, <3>2
    <3>4. QED
      BY <1>2, <3>2, <3>3 DEF Garbled
  <2>3. QED
    BY <2>1, <2>2
<1>5. ~Readable(frames) => Garbled(w)'
  BY <1>2, <1>3 DEF Garbled
<1>6. ASSUME ReadIntact(w), ~failed[w],
             \/ Garbled(w)
             \/ ~Readable(frames)
             \/ frames[1].of = frames[2].of,
             NEW i \in 1..Len(new), \A j \in 1..i : Readable(new[j])
      PROVE  new[i][1].of = new[i][2].of
  <2>1. CASE i = Len(old) + 1
    <3>1. \A j \in 1..Len(old) : Readable(old[j])
      BY <1>3, <1>6, <2>1
    <3>2. ~Garbled(w)
      BY <1>1, <1>6, <3>1 DEF Garbled
    <3>3. Readable(frames)
      BY <1>3, <1>6, <2>1
    <3>4. frames[1].of = frames[2].of
      BY <1>6, <3>2, <3>3
    <3>5. QED
      BY <1>3, <2>1, <3>4
  <2>2. CASE i # Len(old) + 1
    <3>1. i \in 1..Len(old)
      BY <1>3, <2>2
    <3>2. ASSUME NEW j \in 1..i PROVE Readable(old[j])
      <4>1. j \in 1..Len(old)
        BY <1>3, <3>1
      <4>2. new[j] = old[j] /\ Readable(new[j])
        BY <1>3, <1>6, <4>1
      <4>3. QED
        BY <4>2
    <3>3. old[i][1].of = old[i][2].of
      BY <1>1, <1>6, <3>1, <3>2 DEF ReadIntact
    <3>4. QED
      BY <1>3, <3>1, <3>3
  <2>3. QED
    BY <2>1, <2>2
<1>7. QED
  BY <1>2, <1>4, <1>5, <1>6 DEF ReadIntact

\* The body of a send closes a message that can be read only behind its type.
LEMMA ReadableBehindType ==
  ASSUME partial \in Seq(Frames), NoBody, NEW m \in Messages,
         Readable(Append(partial, Frame("body", m)))
  PROVE  /\ Len(partial) = 1 /\ partial[1].kind = "type"
         /\ Append(partial, Frame("body", m))[1] = partial[1]
         /\ Append(partial, Frame("body", m))[2] = Frame("body", m)
<1>1. PICK b \in Frames : b = Frame("body", m)
  BY FrameType
<1>2. PICK frames \in Seq(Frames) : frames = Append(partial, b)
  BY Appended
<1>3. /\ Len(partial) \in Nat /\ Len(frames) = Len(partial) + 1
      /\ \A i \in 1..Len(partial) : frames[i] = partial[i]
      /\ frames[Len(partial) + 1] = b
  BY <1>2, Appended
<1>4. Len(frames) >= 2 /\ frames[1].kind = "type" /\ frames[2].kind = "body"
  BY <1>1, <1>2 DEF Readable
<1>5. Len(partial) = 1
  <2>1. PICK n \in Nat : n = Len(partial) /\ n >= 1
    BY <1>3, <1>4
  <2>2. ASSUME n # 1 PROVE FALSE
    <3>1. 2 \in 1..Len(partial)
      <4>1. 2 \in 1..n
        BY <2>1, <2>2
      <4>2. QED
        BY <2>1, <4>1
    <3>2. partial[2].kind = "body"
      BY <1>3, <1>4, <3>1
    <3>3. QED
      BY <3>1, <3>2 DEF NoBody
  <2>3. QED
    BY <2>1, <2>2
<1>6. frames[1] = partial[1] /\ frames[2] = b
  <2>1. 1 \in 1..Len(partial) /\ Len(partial) + 1 = 2
    BY <1>5
  <2>2. QED
    BY <1>3, <2>1
<1>7. QED
  BY <1>1, <1>2, <1>4, <1>5, <1>6

\* A frame that is not a body is added to the message.
LEMMA PartialGrows ==
  ASSUME partial \in Seq(Frames), NoBody, NEW frame \in Frames,
         frame.kind # "body", partial' \in {<<>>, Append(partial, frame)}
  PROVE  NoBody'
<1>1. CASE partial' = <<>>
  BY <1>1 DEF NoBody
<1>2. CASE partial' = Append(partial, frame)
  <2>1. PICK grown \in Seq(Frames) : grown = partial' /\ grown = Append(partial, frame)
    BY <1>2
  <2>2. /\ Len(partial) \in Nat /\ Len(grown) = Len(partial) + 1
        /\ \A i \in 1..Len(partial) : grown[i] = partial[i]
        /\ grown[Len(partial) + 1] = frame
    BY <2>1
  <2>3. \A i \in 1..Len(grown) : grown[i].kind # "body"
    BY <2>2 DEF NoBody
  <2>4. QED
    BY <2>1, <2>3 DEF NoBody
<1>3. QED
  BY <1>1, <1>2

\* Where a thread is in its send.
LEMMA Positions ==
  ASSUME NEW s, NEW m \in Messages
  PROVE  /\ s = FramesOf(m) => s # <<>> /\ Len(s) = 3
         /\ s = AfterRoute(m) => s # <<>> /\ Len(s) = 2
         /\ s = AfterType(m) => s # <<>> /\ Len(s) = 1
BY SendFrames

-----------------------------------------------------------------------------
(* A frame is given.                                                       *)

\* The routing id of a send.
LEMMA GiveRoute ==
  ASSUME FrameTypeOK, OneWorker, NEW w \in Workers, NoBody, Phases(w),
         NEW t \in Threads, NEW m \in Messages, sending[t] = FramesOf(m),
         sending' = [sending EXCEPT ![t] = AfterRoute(m)],
         Taken(Frame("route", m), FALSE)
  PROVE  Phases(w)' /\ pipe' = pipe
<1>1. /\ sending'[t] = AfterRoute(m) /\ Len(sending'[t]) = 2
      /\ \A u \in Threads : u # t => sending'[u] = sending[u]
  BY SendingPut, Positions
<1>2. PICK frame \in Frames : frame = Frame("route", m) /\ frame.kind = "route"
                              /\ frame.of = m
  BY FrameType
<1>3. m.worker = w
  BY DEF OneWorker, Messages
<1>4. partial \in Seq(Frames)
  BY DEF FrameTypeOK
<1>5. more' = TRUE
  BY DEF Taken
<1>6. CASE ~more
  <2>1. current' = w /\ partial' = <<>> /\ pipe' = pipe
    BY <1>2, <1>3, <1>6 DEF Taken, Peer
  <2>2. \A u \in Threads \ {t} : Outside(u)'
    BY <1>1, <1>6 DEF Phases, Outside
  <2>3. QED
    BY <1>1, <1>5, <2>1, <2>2 DEF Phases
<1>7. CASE more
  <2>1. current = w /\ w # None
    BY <1>7, FramesAssumption DEF Phases
  <2>2. partial' = Append(partial, frame) /\ current' = w /\ pipe' = pipe
    BY <1>2, <1>7, <2>1 DEF Taken
  <2>3. PICK grown \in Seq(Frames) : grown = partial' /\ grown = Append(partial, frame)
    BY <1>4, <2>2, Appended
  <2>4. /\ Len(grown) # 0
        /\ Len(grown) = 1 => grown[1] = frame
    BY <1>4, <2>3, Appended
  <2>5. partial' # <<>> /\ ~(Len(partial') = 1 /\ partial'[1].kind = "type")
    BY <1>2, <2>3, <2>4
  <2>6. QED
    BY <1>5, <2>2, <2>5 DEF Phases
<1>8. QED
  BY <1>6, <1>7

\* The type of a send.
LEMMA GiveType ==
  ASSUME FrameTypeOK, OneWorker, NEW w \in Workers, NoBody, Phases(w),
         NEW t \in Threads, NEW m \in Messages, sending[t] = AfterRoute(m),
         sending' = [sending EXCEPT ![t] = AfterType(m)],
         Taken(Frame("type", m), FALSE)
  PROVE  Phases(w)' /\ pipe' = pipe
<1>1. /\ sending'[t] = AfterType(m) /\ Len(sending[t]) = 2 /\ sending[t] # <<>>
      /\ \A u \in Threads : u # t => sending'[u] = sending[u]
  BY SendingPut, Positions
<1>2. PICK frame \in Frames : frame = Frame("type", m) /\ frame.kind = "type"
                              /\ frame.of = m
  BY FrameType
<1>3. ~Outside(t)
  BY <1>1 DEF Outside
<1>4. more /\ more' = TRUE
  BY <1>3 DEF Taken, Phases
<1>5. partial \in Seq(Frames)
  BY DEF FrameTypeOK
<1>6. current = w /\ w # None
  BY <1>4, FramesAssumption DEF Phases
<1>7. partial' = Append(partial, frame) /\ current' = w /\ pipe' = pipe
  BY <1>2, <1>4, <1>6 DEF Taken
<1>8. PICK grown \in Seq(Frames) : grown = partial' /\ grown = Append(partial, frame)
  BY <1>7, <1>5, Appended
<1>9. /\ Len(grown) # 0
      /\ Len(grown) = 1 => grown[1] = frame /\ partial = <<>>
  <2>1. Len(grown) = Len(partial) + 1 /\ grown[Len(partial) + 1] = frame
    BY <1>8, <1>5, Appended
  <2>2. QED
    BY <1>5, <2>1
<1>10. ASSUME Len(grown) = 1
      PROVE  \A u \in Threads \ {t} : Outside(u)'
  <2>1. PICK v \in Threads : \A u \in Threads \ {v} : Outside(u)
    BY <1>4, <1>9, <1>10 DEF Phases
  <2>2. v = t
    BY <1>3, <2>1
  <2>3. QED
    BY <1>1, <2>1, <2>2 DEF Outside
<1>11. Len(grown) = 1 => sending'[t] = AfterType(grown[1].of)
  BY <1>1, <1>2, <1>9
<1>12. QED
  BY <1>4, <1>7, <1>8, <1>9, <1>10, <1>11 DEF Phases

\* The body of a send, which closes a message.
LEMMA GiveBody ==
  ASSUME FrameTypeOK, OneWorker, NEW w \in Workers, NoBody, Phases(w),
         ReadIntact(w), failed' = failed,
         NEW t \in Threads, NEW m \in Messages, sending[t] = AfterType(m),
         sending' = [sending EXCEPT ![t] = <<>>],
         Taken(Frame("body", m), TRUE)
  PROVE  (Garbled(w)' \/ Phases(w)') /\ ReadIntact(w)'
<1>1. /\ sending'[t] = <<>> /\ Len(sending[t]) = 1 /\ sending[t] # <<>>
      /\ \A u \in Threads : u # t => sending'[u] = sending[u]
  BY SendingPut, Positions
<1>2. PICK body \in Frames : body = Frame("body", m) /\ body.of = m
  BY FrameType
<1>3. ~Outside(t)
  BY <1>1 DEF Outside
<1>4. more /\ more' = FALSE
  BY <1>3 DEF Taken, Phases
<1>5. partial \in Seq(Frames)
  BY DEF FrameTypeOK
<1>6. current = w /\ w # None
  BY <1>4, FramesAssumption DEF Phases
<1>7. PICK frames \in Seq(Frames) : frames = Append(partial, body)
  BY <1>5, Appended
<1>8. pipe' = [pipe EXCEPT ![w] = Append(@, frames)] /\ partial' = <<>>
  BY <1>2, <1>4, <1>6, <1>7 DEF Taken
<1>9. pipe'[w] = Append(pipe[w], frames)
  BY <1>8 DEF FrameTypeOK
<1>10. CASE ~Readable(frames)
  BY <1>9, <1>10, PipeGrows
<1>11. CASE Readable(frames)
  <2>1. /\ Len(partial) = 1 /\ partial[1].kind = "type"
        /\ frames[1] = partial[1] /\ frames[2] = body
    BY <1>2, <1>7, <1>11, <1>5, ReadableBehindType
  <2>2. PICK v \in Threads : /\ sending[v] = AfterType(partial[1].of)
                             /\ \A u \in Threads \ {v} : Outside(u)
    BY <1>4, <2>1 DEF Phases
  <2>3. v = t
    BY <1>3, <2>2
  <2>4. partial[1].of \in Messages
    <3>1. PICK given \in Seq(Frames) : given = partial
      BY <1>5
    <3>2. Len(given) = 1
      BY <2>1, <3>1, Zenon
    <3>3. 1 \in 1..Len(given)
      BY <3>2
    <3>4. given[1] \in Frames
      BY <3>3
    <3>5. QED
      BY <3>1, <3>4 DEF Frames
  <2>5. partial[1].of = m
    BY <2>2, <2>3, <2>4, SameSend
  <2>6. ReadIntact(w)'
    BY <1>2, <1>9, <2>1, <2>5, PipeGrows
  <2>7. \A u \in Threads : Outside(u)'
    BY <1>1, <2>2, <2>3 DEF Outside
  <2>8. QED
    BY <1>4, <2>6, <2>7 DEF Phases
<1>12. QED
  BY <1>10, <1>11

\* A frame given while something garbled is on its way leaves it garbled.
LEMMA GiveGarbled ==
  ASSUME FrameTypeOK, OneWorker, NEW w \in Workers, Garbled(w), ReadIntact(w),
         NEW frame \in Frames, NEW last \in BOOLEAN, Taken(frame, last),
         failed' = failed
  PROVE  Garbled(w)' /\ ReadIntact(w)'
<1>1. CASE pipe' = pipe
  BY <1>1 DEF Garbled, ReadIntact
<1>2. CASE pipe' # pipe
  <2>1. more /\ last /\ current # None
    BY <1>2 DEF Taken
  <2>2. current = w
    BY <2>1 DEF FrameTypeOK, OneWorker
  <2>3. PICK frames \in Seq(Frames) : frames = Append(partial, frame)
    BY Appended DEF FrameTypeOK
  <2>4. pipe'[w] = Append(pipe[w], frames)
    BY <2>1, <2>2, <2>3 DEF Taken, FrameTypeOK
  <2>5. QED
    BY <2>4, PipeGrows
<1>3. QED
  BY <1>1, <1>2

\* A frame is given: the message it goes into is of one send, or garbled.
LEMMA GiveFrameInv ==
  ASSUME FrameTypeOK, FramesInv, OneWorker, NEW t \in Threads, GiveFrame(t)
  PROVE  FramesInv'
<1>1. failed' = failed /\ got' = got
  BY DEF GiveFrame
<1>2. partial \in Seq(Frames) /\ NoBody
  BY DEF FrameTypeOK, FramesInv
<1>3. PICK m \in Messages :
        \/ /\ sending[t] = FramesOf(m)
           /\ sending' = [sending EXCEPT ![t] = AfterRoute(m)]
           /\ Taken(Frame("route", m), FALSE)
        \/ /\ sending[t] = AfterRoute(m)
           /\ sending' = [sending EXCEPT ![t] = AfterType(m)]
           /\ Taken(Frame("type", m), FALSE)
        \/ /\ sending[t] = AfterType(m)
           /\ sending' = [sending EXCEPT ![t] = <<>>]
           /\ Taken(Frame("body", m), TRUE)
  BY GiveFrameCases
<1>4. NoBody'
  <2>1. ASSUME NEW frame \in Frames, frame.kind # "body", Taken(frame, FALSE)
        PROVE  NoBody'
    <3>1. partial' \in {<<>>, Append(partial, frame)}
      BY <2>1 DEF Taken
    <3>2. QED
      BY <1>2, <2>1, <3>1, PartialGrows
  <2>2. ASSUME Taken(Frame("body", m), TRUE) PROVE NoBody'
    <3>1. partial' = <<>>
      BY <2>2 DEF Taken
    <3>2. QED
      BY <3>1 DEF NoBody
  <2>3. QED
    BY <1>3, <2>1, <2>2, FrameType
<1>5. ASSUME NEW w \in Workers
      PROVE  (Garbled(w)' \/ Phases(w)') /\ ReadIntact(w)'
  <2>1. (Garbled(w) \/ Phases(w)) /\ ReadIntact(w)
    BY DEF FramesInv
  <2>2. CASE Garbled(w)
    <3>1. PICK frame \in Frames, last \in BOOLEAN : Taken(frame, last)
      BY <1>3, FrameType
    <3>2. QED
      BY <1>1, <2>1, <2>2, <3>1, GiveGarbled
  <2>3. CASE ~Garbled(w) /\ Phases(w)
    <3>1. CASE pipe' = pipe /\ Phases(w)'
      BY <1>1, <2>1, <3>1 DEF ReadIntact
    <3>2. CASE sending[t] = FramesOf(m) /\ Taken(Frame("route", m), FALSE)
               /\ sending' = [sending EXCEPT ![t] = AfterRoute(m)]
      BY <1>2, <2>3, <3>1, <3>2, GiveRoute
    <3>3. CASE sending[t] = AfterRoute(m) /\ Taken(Frame("type", m), FALSE)
               /\ sending' = [sending EXCEPT ![t] = AfterType(m)]
      BY <1>2, <2>3, <3>1, <3>3, GiveType
    <3>4. CASE sending[t] = AfterType(m) /\ Taken(Frame("body", m), TRUE)
               /\ sending' = [sending EXCEPT ![t] = <<>>]
      BY <1>1, <1>2, <2>1, <2>3, <3>4, GiveBody
    <3>5. QED
      BY <1>3, <3>2, <3>3, <3>4
  <2>4. QED
    BY <2>1, <2>2, <2>3
<1>6. DecodedIsIntact'
  BY <1>1 DEF FramesInv, DecodedIsIntact
<1>7. QED
  BY <1>4, <1>5, <1>6 DEF FramesInv

\* A worker reads the first message on its way.
LEMMA RecvInv ==
  ASSUME FrameTypeOK, FramesInv, NEW w \in Workers, RecvMessage(w)
  PROVE  FramesInv'
<1>1. /\ ~failed[w] /\ pipe[w] # <<>> /\ pipe[w] \in Seq(Seq(Frames))
      /\ pipe' = [pipe EXCEPT ![w] = Tail(pipe[w])]
      /\ UNCHANGED <<sending, more, current, partial>>
  BY DEF RecvMessage, FrameTypeOK
<1>2. PICK old \in Seq(Seq(Frames)) : old = pipe[w] /\ old # <<>>
  BY <1>1
<1>3. PICK new \in Seq(Seq(Frames)) : new = Tail(old)
  BY <1>2, Tailed
<1>4. /\ Len(old) \in Nat /\ Len(old) >= 1 /\ Len(new) = Len(old) - 1
      /\ Head(old) = old[1]
      /\ \A i \in 1..Len(new) : new[i] = old[i + 1]
  BY <1>2, <1>3, Tailed
<1>5. pipe'[w] = new /\ \A v \in Workers \ {w} : pipe'[v] = pipe[v]
  BY <1>1, <1>2, <1>3 DEF FrameTypeOK
<1>6. ReadIntact(w) /\ (Garbled(w) \/ Phases(w)) /\ DecodedIsIntact /\ NoBody
  BY DEF FramesInv
<1>7. NoBody' /\ \A v \in Workers : Phases(v) => Phases(v)'
  BY <1>1, <1>6 DEF NoBody, Phases, Outside
<1>8. CASE Readable(old[1])
  <2>1. /\ failed' = failed
        /\ got' = [got EXCEPT ![w] = got[w] \union {Decoded(old[1])}]
    BY <1>2, <1>4, <1>8 DEF RecvMessage
  <2>2. Decoded(old[1]) = [type |-> old[1][1].of, fields |-> old[1][2].of]
    BY <1>2, <1>4, <1>8, RecvEffect
  <2>3. old[1][1].of = old[1][2].of
    <3>1. 1 \in 1..Len(old) /\ \A j \in 1..1 : Readable(old[j])
      BY <1>4, <1>8
    <3>2. QED
      BY <1>1, <1>2, <1>6, <3>1 DEF ReadIntact
  <2>4. Decoded(old[1]).type = Decoded(old[1]).fields
    BY <2>2, <2>3
  <2>5. DecodedIsIntact'
    BY <1>6, <2>1, <2>4 DEF DecodedIsIntact, FrameTypeOK
  <2>6. ASSUME Garbled(w) PROVE Garbled(w)'
    <3>1. PICK i \in 1..Len(old) : ~Readable(old[i])
      BY <1>1, <1>2, <2>6 DEF Garbled
    <3>2. i # 1
      BY <1>8, <3>1
    <3>3. i - 1 \in 1..Len(new) /\ new[i - 1] = old[i]
      BY <1>4, <3>1, <3>2
    <3>4. ~Readable(new[i - 1])
      BY <3>1, <3>3
    <3>5. QED
      BY <1>5, <3>3, <3>4 DEF Garbled
  <2>7. ASSUME NEW i \in 1..Len(new), \A j \in 1..i : Readable(new[j])
        PROVE  new[i][1].of = new[i][2].of
    <3>1. i + 1 \in 1..Len(old) /\ new[i] = old[i + 1]
      BY <1>4
    <3>2. ASSUME NEW j \in 1..(i + 1) PROVE Readable(old[j])
      <4>1. CASE j = 1
        BY <1>8, <4>1
      <4>2. CASE j # 1
        <5>1. j - 1 \in 1..i /\ j - 1 \in 1..Len(new) /\ (j - 1) + 1 = j
          BY <1>4, <4>2
        <5>2. new[j - 1] = old[j] /\ Readable(new[j - 1])
          BY <1>4, <2>7, <5>1
        <5>3. QED
          BY <5>2
      <4>3. QED
        BY <4>1, <4>2
    <3>3. old[i + 1][1].of = old[i + 1][2].of
      BY <1>1, <1>2, <1>6, <3>1, <3>2 DEF ReadIntact
    <3>4. QED
      BY <3>1, <3>3
  <2>8. ReadIntact(w)'
    BY <1>5, <2>7 DEF ReadIntact
  <2>9. \A v \in Workers \ {w} :
          (Garbled(v) => Garbled(v)') /\ (ReadIntact(v) => ReadIntact(v)')
    BY <1>5, <2>1 DEF Garbled, ReadIntact
  <2>10. QED
    BY <1>7, <2>5, <2>6, <2>8, <2>9 DEF FramesInv
<1>9. CASE ~Readable(old[1])
  <2>1. failed' = [failed EXCEPT ![w] = TRUE] /\ got' = got
    BY <1>2, <1>4, <1>9 DEF RecvMessage
  <2>2. failed'[w] /\ \A v \in Workers \ {w} : failed'[v] = failed[v]
    BY <2>1 DEF FrameTypeOK
  <2>3. Garbled(w)' /\ ReadIntact(w)'
    BY <2>2 DEF Garbled, ReadIntact
  <2>4. \A v \in Workers \ {w} :
          (Garbled(v) => Garbled(v)') /\ (ReadIntact(v) => ReadIntact(v)')
    BY <1>5, <2>2 DEF Garbled, ReadIntact
  <2>5. DecodedIsIntact'
    BY <1>6, <2>1 DEF DecodedIsIntact
  <2>6. QED
    BY <1>7, <2>3, <2>4, <2>5 DEF FramesInv
<1>10. QED
  BY <1>8, <1>9

\* A send is begun only by a thread that is not inside one.
LEMMA BeginInv ==
  ASSUME FrameTypeOK, FramesInv, NEW t \in Threads, NEW v \in Workers,
         BeginSend(t, v)
  PROVE  FramesInv'
<1>1. PICK m \in Messages : sending' = [sending EXCEPT ![t] = FramesOf(m)]
  BY BeginSendEffect
<1>2. /\ sending[t] = <<>> /\ sending'[t] = FramesOf(m) /\ Len(sending'[t]) = 3
      /\ \A u \in Threads : u # t => sending'[u] = sending[u]
  BY <1>1, SendingPut, Positions DEF BeginSend
<1>3. UNCHANGED <<more, current, partial, pipe, got, failed>>
  BY DEF BeginSend
<1>4. \A u \in Threads : Outside(u) => Outside(u)'
  BY <1>2 DEF Outside
<1>5. ASSUME NEW w \in Workers, Phases(w) PROVE Phases(w)'
  <2>1. more' /\ partial' = <<>> =>
          \E u \in Threads : /\ Len(sending'[u]) = 2
                             /\ \A x \in Threads \ {u} : Outside(x)'
    <3>1. SUFFICES ASSUME more, partial = <<>>
                   PROVE  \E u \in Threads : /\ Len(sending'[u]) = 2
                                             /\ \A x \in Threads \ {u} : Outside(x)'
      BY <1>3
    <3>2. PICK u \in Threads : /\ Len(sending[u]) = 2
                               /\ \A x \in Threads \ {u} : Outside(x)
      BY <1>5, <3>1 DEF Phases
    <3>3. u # t
      BY <1>2, <3>2
    <3>4. QED
      BY <1>2, <1>4, <3>2, <3>3
  <2>2. more' /\ Len(partial') = 1 /\ partial'[1].kind = "type" =>
          \E u \in Threads : /\ sending'[u] = AfterType(partial'[1].of)
                             /\ \A x \in Threads \ {u} : Outside(x)'
    <3>1. SUFFICES ASSUME more, Len(partial) = 1, partial[1].kind = "type"
                   PROVE  \E u \in Threads :
                            /\ sending'[u] = AfterType(partial[1].of)
                            /\ \A x \in Threads \ {u} : Outside(x)'
      BY <1>3
    <3>2. PICK u \in Threads : /\ sending[u] = AfterType(partial[1].of)
                               /\ \A x \in Threads \ {u} : Outside(x)
      BY <1>5, <3>1 DEF Phases
    <3>3. u # t
      <4>1. \A x : AfterType(x) # <<>>
        BY DEF AfterType
      <4>2. QED
        BY <1>2, <3>2, <4>1
    <3>4. QED
      BY <1>2, <1>4, <3>2, <3>3
  <2>3. QED
    BY <1>3, <1>4, <1>5, <2>1, <2>2 DEF Phases
<1>6. /\ NoBody' /\ DecodedIsIntact'
      /\ \A w \in Workers : /\ Garbled(w) => Garbled(w)'
                            /\ ReadIntact(w)'
  BY <1>3 DEF FramesInv, NoBody, DecodedIsIntact, Garbled, ReadIntact
<1>7. QED
  BY <1>5, <1>6 DEF FramesInv

LEMMA FramesInvInit == Init => FramesInv
<1> SUFFICES ASSUME Init PROVE FramesInv
  OBVIOUS
<1>1. /\ more = FALSE /\ partial = <<>>
      /\ \A t \in Threads : sending[t] = <<>>
      /\ \A w \in Workers : pipe[w] = <<>> /\ got[w] = {} /\ failed[w] = FALSE
  BY DEF Init
<1>2. NoBody
  BY <1>1 DEF NoBody
<1>3. ASSUME NEW w \in Workers PROVE Phases(w) /\ ReadIntact(w)
  <2>1. Phases(w)
    BY <1>1 DEF Phases, Outside
  <2>2. ReadIntact(w)
    BY <1>1 DEF ReadIntact
  <2>3. QED
    BY <2>1, <2>2
<1>4. DecodedIsIntact
  BY <1>1 DEF DecodedIsIntact
<1>5. QED
  BY <1>2, <1>3, <1>4 DEF FramesInv

LEMMA FramesInvStep ==
  ASSUME FrameTypeOK, FramesInv, OneWorker, [Next]_vars
  PROVE  FramesInv'
<1>1. CASE UNCHANGED vars
  BY <1>1 DEF vars, FramesInv, NoBody, Garbled, Phases, Outside, ReadIntact,
              DecodedIsIntact
<1>2. QED
  BY <1>1, BeginInv, GiveFrameInv, RecvInv DEF Next

\* However the frames of two threads, or of more, alternate, the worker of a run
\* never takes the fields of one message for those of another: from_frames raises
\* on what is garbled before recv_message returns what is mixed.
THEOREM DecodedIsIntactHolds ==
  ASSUME OneWorker
  PROVE  Spec => []DecodedIsIntact
<1>1. Init => FrameTypeOK /\ FramesInv
  BY InitFrames, FramesInvInit
<1>2. FrameTypeOK /\ FramesInv /\ [Next]_vars => (FrameTypeOK /\ FramesInv)'
  BY FrameTypeStep, FramesInvStep
<1>3. FrameTypeOK /\ FramesInv => DecodedIsIntact
  BY DEF FramesInv
<1>4. QED
  BY <1>1, <1>2, <1>3, PTL DEF Spec

-----------------------------------------------------------------------------
(* A send no other one overlaps.                                           *)

AloneInv == MoreMeansSending /\ AlonePhases

\* The frames of one send, put together again.
LEMMA FramesAgain ==
  ASSUME NEW m \in Messages
  PROVE  /\ Append(<<>>, Frame("type", m)) = <<Frame("type", m)>>
         /\ Append(<<Frame("type", m)>>, Frame("body", m)) = Tail(FramesOf(m))
<1>1. PICK a \in Frames, b \in Frames : a = Frame("type", m) /\ b = Frame("body", m)
  BY FrameType
<1>2. Append(<<>>, a) = <<a>> /\ Append(<<a>>, b) = <<a, b>>
  <2>1. Append(<<>>, a) = <<a>>
    <3>1. <<>> \in Seq(Frames) /\ Len(<<>>) = 0
      OBVIOUS
    <3>2. QED
      BY <3>1
  <2>2. Append(<<a>>, b) = <<a, b>>
    <3>1. PICK one \in Seq(Frames) : one = <<a>> /\ Len(one) = 1 /\ one[1] = a
      <4>1. <<a>> \in Seq(Frames) /\ Len(<<a>>) = 1 /\ <<a>>[1] = a
        OBVIOUS
      <4>2. QED
        BY <4>1
    <3>2. PICK two \in Seq(Frames) : two = Append(one, b)
      BY Appended
    <3>3. Len(two) = 2 /\ two[1] = a /\ two[2] = b
      <4>1. 1 \in 1..Len(one)
        BY <3>1
      <4>2. QED
        BY <3>1, <3>2, <4>1, Appended
    <3>4. two = <<a, b>>
      BY <3>3
    <3>5. QED
      BY <3>1, <3>2, <3>4
  <2>3. QED
    BY <2>1, <2>2
<1>3. QED
  BY <1>1, <1>2, SendFrames DEF AfterRoute

\* What is left of a send tells which send it is, and where its thread is.
LEMMA WhereInSend ==
  ASSUME NEW m \in Messages, NEW n \in Messages
  PROVE  /\ FramesOf(m) # AfterRoute(n) /\ FramesOf(m) # AfterType(n)
         /\ AfterRoute(m) # AfterType(n) /\ AfterRoute(m) # FramesOf(n)
         /\ AfterType(m) # FramesOf(n) /\ AfterType(m) # AfterRoute(n)
         /\ FramesOf(m) # <<>> /\ AfterRoute(m) # <<>> /\ AfterType(m) # <<>>
<1>1. /\ Len(FramesOf(m)) = 3 /\ Len(AfterRoute(m)) = 2 /\ Len(AfterType(m)) = 1
      /\ Len(FramesOf(n)) = 3 /\ Len(AfterRoute(n)) = 2 /\ Len(AfterType(n)) = 1
  BY SendFrames
<1>2. QED
  BY <1>1, SendFrames

LEMMA AloneGive ==
  ASSUME FrameTypeOK, AloneInv, NEW t \in Threads, GiveFrame(t)
  PROVE  AloneInv'
<1>1. alone' = [u \in Threads |-> alone[u] /\ u = t]
  BY DEF GiveFrame
<1>2. ASSUME NEW u \in Threads, alone'[u] PROVE u = t /\ alone[t]
  BY <1>1, <1>2
<1>3. PICK m \in Messages :
        \/ /\ sending[t] = FramesOf(m)
           /\ sending' = [sending EXCEPT ![t] = AfterRoute(m)]
           /\ Taken(Frame("route", m), FALSE)
        \/ /\ sending[t] = AfterRoute(m)
           /\ sending' = [sending EXCEPT ![t] = AfterType(m)]
           /\ Taken(Frame("type", m), FALSE)
        \/ /\ sending[t] = AfterType(m)
           /\ sending' = [sending EXCEPT ![t] = <<>>]
           /\ Taken(Frame("body", m), TRUE)
  BY GiveFrameCases
<1>4. m.worker # None /\ Peer(Frame("route", m)) = m.worker
  <2>1. m.worker \in Workers
    BY DEF Messages
  <2>2. QED
    BY <2>1, FrameType, FramesAssumption DEF Peer
<1>5. SUFFICES
        /\ MoreMeansSending'
        /\ alone[t] => \A n \in Messages :
             /\ sending'[t] = FramesOf(n) => ~more'
             /\ sending'[t] = AfterRoute(n) =>
                  more' /\ current' = n.worker /\ partial' = <<>>
             /\ sending'[t] = AfterType(n) =>
                  more' /\ current' = n.worker /\ partial' = <<Frame("type", n)>>
  BY <1>2 DEF AloneInv, AlonePhases
<1>6. CASE /\ sending[t] = FramesOf(m)
           /\ sending' = [sending EXCEPT ![t] = AfterRoute(m)]
           /\ Taken(Frame("route", m), FALSE)
  <2>1. sending'[t] = AfterRoute(m)
    BY <1>6, SendingPut
  <2>2. MoreMeansSending'
    BY <2>1, SendFrames DEF MoreMeansSending
  <2>3. ASSUME alone[t]
        PROVE  more' /\ current' = m.worker /\ partial' = <<>>
    <3>1. ~more
      BY <1>6, <2>3 DEF AloneInv, AlonePhases
    <3>2. QED
      BY <1>4, <1>6, <3>1 DEF Taken
  <2>4. QED
    BY <2>1, <2>2, <2>3, WhereInSend, SameSend
<1>7. CASE /\ sending[t] = AfterRoute(m)
           /\ sending' = [sending EXCEPT ![t] = AfterType(m)]
           /\ Taken(Frame("type", m), FALSE)
  <2>1. sending'[t] = AfterType(m)
    BY <1>7, SendingPut
  <2>2. MoreMeansSending'
    BY <2>1, SendFrames DEF MoreMeansSending
  <2>3. ASSUME alone[t]
        PROVE  more' /\ current' = m.worker /\ partial' = <<Frame("type", m)>>
    <3>1. more /\ current = m.worker /\ partial = <<>>
      BY <1>7, <2>3 DEF AloneInv, AlonePhases
    <3>2. partial' = Append(<<>>, Frame("type", m)) /\ more' /\ current' = m.worker
      BY <1>4, <1>7, <3>1 DEF Taken
    <3>3. QED
      BY <3>2, FramesAgain
  <2>4. QED
    BY <2>1, <2>2, <2>3, WhereInSend, SameSend
<1>8. CASE /\ sending[t] = AfterType(m)
           /\ sending' = [sending EXCEPT ![t] = <<>>]
           /\ Taken(Frame("body", m), TRUE)
  <2>1. sending'[t] = <<>>
    BY <1>8, SendingPut
  <2>2. ~more'
    BY <1>8 DEF Taken
  <2>3. QED
    BY <2>1, <2>2, SendFrames DEF MoreMeansSending
<1>9. QED
  BY <1>3, <1>6, <1>7, <1>8

LEMMA AloneBegin ==
  ASSUME FrameTypeOK, AloneInv, NEW t \in Threads, NEW w \in Workers,
         BeginSend(t, w)
  PROVE  AloneInv'
<1>1. PICK m \in Messages : sending' = [sending EXCEPT ![t] = FramesOf(m)]
  BY BeginSendEffect
<1>2. /\ sending'[t] = FramesOf(m) /\ FramesOf(m) # <<>>
      /\ \A u \in Threads : u # t => sending'[u] = sending[u]
  BY <1>1, SendingPut, SendFrames
<1>3. UNCHANGED <<more, current, partial>>
  BY DEF BeginSend
<1>4. /\ alone'[t] = (\A u \in Threads : sending[u] = <<>>)
      /\ \A u \in Threads : u # t => alone'[u] = alone[u]
  BY DEF BeginSend, FrameTypeOK
<1>5. MoreMeansSending'
  BY <1>2 DEF MoreMeansSending
<1>6. alone'[t] => ~more'
  BY <1>3, <1>4 DEF AloneInv, MoreMeansSending
<1>7. \A n \in Messages : /\ sending'[t] # AfterRoute(n)
                          /\ sending'[t] # AfterType(n)
  BY <1>2, WhereInSend
<1>8. ASSUME NEW u \in Threads, u # t, alone'[u], NEW n \in Messages
      PROVE  /\ sending'[u] = FramesOf(n) => ~more'
             /\ sending'[u] = AfterRoute(n) =>
                  more' /\ current' = n.worker /\ partial' = <<>>
             /\ sending'[u] = AfterType(n) =>
                  more' /\ current' = n.worker /\ partial' = <<Frame("type", n)>>
  BY <1>2, <1>3, <1>4, <1>8 DEF AloneInv, AlonePhases
<1>9. QED
  BY <1>5, <1>6, <1>7, <1>8 DEF AloneInv, AlonePhases

LEMMA AloneStep ==
  ASSUME FrameTypeOK, AloneInv, [Next]_vars
  PROVE  AloneInv'
<1>1. ASSUME UNCHANGED <<sending, more, current, partial, alone>>
      PROVE  AloneInv'
  BY <1>1 DEF AloneInv, MoreMeansSending, AlonePhases
<1>2. ASSUME NEW w \in Workers, RecvMessage(w) PROVE AloneInv'
  BY <1>1, <1>2 DEF RecvMessage
<1>3. CASE UNCHANGED vars
  BY <1>1, <1>3 DEF vars
<1>4. QED
  BY <1>2, <1>3, AloneBegin, AloneGive DEF Next

\* The step that gives the last frame of a send.
LEMMA ArrivesStep ==
  ASSUME FrameTypeOK, AloneInv, [Next]_vars, NEW t \in Threads,
         alone[t], Len(sending[t]) = 1, sending'[t] = <<>>
  PROVE  LET m == Head(sending[t]).of
         IN  pipe'[m.worker] = Append(pipe[m.worker], Tail(FramesOf(m)))
<1>1. sending[t] # <<>> /\ sending'[t] # sending[t]
  OBVIOUS
<1>2. GiveFrame(t)
  <2>1. ASSUME NEW u \in Threads, NEW w \in Workers, BeginSend(u, w) PROVE FALSE
    <3>1. PICK m \in Messages : sending' = [sending EXCEPT ![u] = FramesOf(m)]
      BY <2>1, BeginSendEffect
    <3>2. sending'[u] # <<>> /\ \A v \in Threads : v # u => sending'[v] = sending[v]
      BY <3>1, SendingPut, SendFrames
    <3>3. QED
      BY <1>1, <3>2
  <2>2. ASSUME NEW u \in Threads, u # t, GiveFrame(u) PROVE FALSE
    <3>1. sending' = [sending EXCEPT ![u] = Tail(sending[u])]
      BY <2>2 DEF GiveFrame
    <3>2. QED
      BY <1>1, <2>2, <3>1 DEF FrameTypeOK
  <2>3. ~(\E w \in Workers : RecvMessage(w)) /\ ~UNCHANGED vars
    BY <1>1 DEF RecvMessage, vars
  <2>4. QED
    BY <2>1, <2>2, <2>3 DEF Next
<1>3. PICK m \in Messages : sending[t] = AfterType(m) /\ Taken(Frame("body", m), TRUE)
  <2>1. PICK m \in Messages :
          \/ /\ sending[t] = FramesOf(m)
             /\ sending' = [sending EXCEPT ![t] = AfterRoute(m)]
             /\ Taken(Frame("route", m), FALSE)
          \/ /\ sending[t] = AfterRoute(m)
             /\ sending' = [sending EXCEPT ![t] = AfterType(m)]
             /\ Taken(Frame("type", m), FALSE)
          \/ /\ sending[t] = AfterType(m)
             /\ sending' = [sending EXCEPT ![t] = <<>>]
             /\ Taken(Frame("body", m), TRUE)
    BY <1>2, GiveFrameCases
  <2>2. sending[t] # FramesOf(m) /\ sending[t] # AfterRoute(m)
    BY SendFrames
  <2>3. QED
    BY <2>1, <2>2
<1>4. more /\ current = m.worker /\ partial = <<Frame("type", m)>>
  BY <1>3 DEF AloneInv, AlonePhases
<1>5. m.worker \in Workers /\ m.worker # None
  BY FramesAssumption DEF Messages
<1>6. pipe' = [pipe EXCEPT ![m.worker] =
                 Append(@, Append(<<Frame("type", m)>>, Frame("body", m)))]
  BY <1>3, <1>4, <1>5 DEF Taken
<1>7. pipe'[m.worker] = Append(pipe[m.worker], Tail(FramesOf(m)))
  BY <1>5, <1>6, FramesAgain DEF FrameTypeOK
<1>8. Head(sending[t]).of = m
  BY <1>3, SendFrames, FrameType
<1>9. QED
  BY <1>7, <1>8

\* A send that no other thread's frames fall into arrives whole at the worker it
\* is for, whatever two threads did to the ROUTER of broker.py before it.
THEOREM AloneArrivesHolds == Spec => AloneArrives
<1>1. Init => FrameTypeOK /\ AloneInv
  BY InitFrames DEF Init, AloneInv, MoreMeansSending, AlonePhases
<1>2. FrameTypeOK /\ AloneInv /\ [Next]_vars => (FrameTypeOK /\ AloneInv)'
  BY FrameTypeStep, AloneStep
<1>3. FrameTypeOK /\ AloneInv /\ [Next]_vars =>
        [\A t \in Threads :
           alone[t] /\ Len(sending[t]) = 1 /\ sending'[t] = <<>> =>
             LET m == Head(sending[t]).of
             IN  pipe'[m.worker] = Append(pipe[m.worker], Tail(FramesOf(m)))]_vars
  BY ArrivesStep
<1>4. QED
  BY <1>1, <1>2, <1>3, PTL DEF Spec, AloneArrives
=============================================================================
