---------------------------- MODULE RouterFrames ----------------------------
(***************************************************************************)
(* One send of the broker is several frames: send_multipart gives libzmq   *)
(* the routing id, then the frames of Message.to_frames.  The main thread  *)
(* and the heartbeat thread of broker.py share the ROUTER without a lock,  *)
(* so their frames may alternate.  This module looks below Broker, where a *)
(* send is one step, at what can then arrive and what from_frames makes of *)
(* it.                                                                     *)
(*                                                                         *)
(* Two threads in one ZeroMQ socket are undefined behaviour.  The outcomes *)
(* allowed here are those of whole frames in any order; a corrupted socket *)
(* is not modelled.                                                        *)
(*                                                                         *)
(* Bound: MaxSends, the sends of each thread.                              *)
(***************************************************************************)
EXTENDS Naturals, Sequences, FiniteSets

CONSTANTS Threads, Workers, None, MaxSends

ASSUME FramesAssumption == MaxSends \in Nat /\ None \notin Workers

VARIABLES
  sending,   \* per thread: the frames it has still to give, in order
  sends,     \* per thread: how many sends it has begun
  more,      \* the ROUTER is inside a message
  current,   \* whose message it is, None if nobody's
  partial,   \* the frames of that message so far
  pipe,      \* per worker: the messages on their way, each a list of frames
  got,       \* per worker: the messages decoded
  failed,    \* per worker: from_frames raised, which ends the worker's run
  alone      \* history, per thread: no other frame since its send began

vars == <<sending, sends, more, current, partial, pipe, got, failed, alone>>

\* What a thread's n-th send to w is; two sends never carry the same fields.
Message(t, n, w) == [from |-> t, number |-> n, worker |-> w]

Frame(kind, m) == [kind |-> kind, of |-> m]

\* Mutant: the routing id is not put in front.
TypeFirst(m) == <<Frame("type", m), Frame("route", m), Frame("body", m)>>

\* _send_to_worker: the routing id, then to_frames.
FramesOf(m) == <<Frame("route", m), Frame("type", m), Frame("body", m)>>

Init ==
  /\ sending = [t \in Threads |-> <<>>]
  /\ sends = [t \in Threads |-> 0]
  /\ more = FALSE
  /\ current = None
  /\ partial = <<>>
  /\ pipe = [w \in Workers |-> <<>>]
  /\ got = [w \in Workers |-> {}]
  /\ failed = [w \in Workers |-> FALSE]
  /\ alone = [t \in Threads |-> FALSE]

-----------------------------------------------------------------------------
(* The broker.                                                             *)

BeginSend(t, w) ==
  /\ sending[t] = <<>>
  /\ sends[t] < MaxSends
  /\ sends' = [sends EXCEPT ![t] = @ + 1]
  /\ sending' = [sending EXCEPT ![t] = FramesOf(Message(t, sends'[t], w))]
  /\ alone' = [alone EXCEPT ![t] = \A u \in Threads : sending[u] = <<>>]
  /\ UNCHANGED <<more, current, partial, pipe, got, failed>>

\* The peer a first frame names; a frame that is no routing id names nobody.
Peer(frame) == IF frame.kind = "route" THEN frame.of.worker ELSE None

\* The frame send_multipart sends without SNDMORE.
LastFrame(t) == Len(sending[t]) = 1

\* Outside a message the ROUTER takes the frame for a routing id; inside, the
\* frame goes to the peer, if there is one.
GiveFrame(t) ==
  LET frame == Head(sending[t])
      last == LastFrame(t)
  IN  /\ sending[t] # <<>>
      /\ sending' = [sending EXCEPT ![t] = Tail(@)]
      /\ more' = ~last
      /\ IF ~more
           THEN /\ current' = IF last THEN None ELSE Peer(frame)
                /\ partial' = <<>>
                /\ UNCHANGED pipe
           ELSE IF last
             THEN /\ pipe' = IF current = None THEN pipe
                             ELSE [pipe EXCEPT ![current] =
                                     Append(@, Append(partial, frame))]
                  /\ current' = None
                  /\ partial' = <<>>
             ELSE /\ partial' = IF current = None THEN <<>>
                                ELSE Append(partial, frame)
                  /\ UNCHANGED <<current, pipe>>
      /\ alone' = [u \in Threads |-> alone[u] /\ u = t]
      /\ UNCHANGED <<sends, got, failed>>

-----------------------------------------------------------------------------
(* The worker.                                                             *)

\* Mutant: the frames are looked for wherever they are.
ReadableAnywhere(frames) ==
  /\ Len(frames) >= 2
  /\ frames[Len(frames) - 1].kind = "type"
  /\ frames[Len(frames)].kind = "body"

\* from_frames raises unless the first frame is a type and the second a body.
Readable(frames) ==
  /\ Len(frames) >= 2
  /\ frames[1].kind = "type"
  /\ frames[2].kind = "body"

\* The type is of the first frame, the fields of the last one read.
Decoded(frames) ==
  LET n == IF frames[1].kind = "type" THEN 1 ELSE Len(frames) - 1
  IN  [type |-> frames[n].of, fields |-> frames[n + 1].of]

\* recv_message: recv_multipart, then from_frames.
RecvMessage(w) ==
  /\ ~failed[w]
  /\ pipe[w] # <<>>
  /\ pipe' = [pipe EXCEPT ![w] = Tail(@)]
  /\ IF Readable(Head(pipe[w]))
       THEN /\ got' = [got EXCEPT ![w] = @ \union {Decoded(Head(pipe[w]))}]
            /\ UNCHANGED failed
       ELSE /\ failed' = [failed EXCEPT ![w] = TRUE]
            /\ UNCHANGED got
  /\ UNCHANGED <<sending, sends, more, current, partial, alone>>

Next ==
  \/ \E t \in Threads, w \in Workers : BeginSend(t, w)
  \/ \E t \in Threads : GiveFrame(t)
  \/ \E w \in Workers : RecvMessage(w)

Spec == Init /\ [][Next]_vars

-----------------------------------------------------------------------------
\* However the frames of two sends alternate, a worker never takes the fields of
\* one message for those of another: it fails on what is garbled before it could
\* read what is mixed.  (With one worker, as the harnesses run; the garbled
\* message and the mixed one after it may go to different workers.)
DecodedIsIntact == \A w \in Workers : \A d \in got[w] : d.type = d.fields

\* A send that no other one overlaps arrives, whatever went wrong before it.
AloneArrives ==
  [][\A t \in Threads :
       alone[t] /\ Len(sending[t]) = 1 /\ sending'[t] = <<>> =>
         LET m == Head(sending[t]).of
         IN  pipe'[m.worker] = Append(pipe[m.worker], Tail(FramesOf(m)))]_vars
=============================================================================
