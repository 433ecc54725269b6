------------------------------ MODULE MCBroker ------------------------------
(***************************************************************************)
(* Instances of Broker for TLC: who owns which session and which routing   *)
(* ids its messages may arrive on.                                         *)
(***************************************************************************)
EXTENDS BrokerContract, TLC

CONSTANTS s1, s2, r1, r2, w1, w2

\* One worker with a ZMQ identity: s2 is its session after a full reconnect or
\* a restart, and arrives on the same routing id.
SharedWorkerOf == s1 :> w1 @@ s2 :> w1
SharedRoutesOf == s1 :> {r1} @@ s2 :> {r1}
TwoGenerations == s1 :> 0 @@ s2 :> 1

\* Two workers, one session each.
TwoWorkerOf == s1 :> w1 @@ s2 :> w2
TwoRoutesOf == s1 :> {r1} @@ s2 :> {r2}
OneGeneration == s1 :> 0 @@ s2 :> 0
=============================================================================
