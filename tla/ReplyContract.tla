--------------------------- MODULE ReplyContract ---------------------------
(***************************************************************************)
(* What the broker promises of a job in a run: one job is opened at most,  *)
(* it gets one verdict, an acknowledgement follows an acceptance and       *)
(* nothing else, and the run is reported as what happened to the job, once *)
(* nothing more can happen to it.  Sessions, routes, heartbeats, expiry    *)
(* and the two threads are no part of the promise.                         *)
(***************************************************************************)
CONSTANTS Jobs, None

VARIABLES
  verdict,   \* per job: "none", "open", "accepted" or "refused"
  acked,     \* the jobs whose acceptance was acknowledged
  report     \* the transport case of the run, None until it ends

contractVars == <<verdict, acked, report>>

ContractInit ==
  /\ verdict = [j \in Jobs |-> "none"]
  /\ acked = {}
  /\ report = None

Settle(j, from, to) ==
  /\ report = None
  /\ verdict[j] = from
  /\ verdict' = [verdict EXCEPT ![j] = to]
  /\ UNCHANGED <<acked, report>>

Open(j) == (\A k \in Jobs : verdict[k] = "none") /\ Settle(j, "none", "open")

Decide(j) == Settle(j, "open", "accepted") \/ Settle(j, "open", "refused")

Acknowledge(j) ==
  /\ report = None
  /\ verdict[j] = "accepted"
  /\ acked' = acked \union {j}
  /\ UNCHANGED <<verdict, report>>

Has(v) == \E j \in Jobs : verdict[j] = v

\* An accepted job is acknowledged before the run is reported.
Report ==
  /\ report = None
  /\ \A j \in Jobs : verdict[j] = "accepted" => j \in acked
  /\ report' = IF Has("accepted") THEN "SUCCESS"
               ELSE IF Has("refused") THEN "CASE2_RECV_REJECTED"
               ELSE "INCONCLUSIVE"
  /\ UNCHANGED <<verdict, acked>>

ContractNext ==
  \/ \E j \in Jobs : Open(j) \/ Decide(j) \/ Acknowledge(j)
  \/ Report

ContractSpec == ContractInit /\ [][ContractNext]_contractVars
=============================================================================
