--------------------------- MODULE BrokerContract ---------------------------
(***************************************************************************)
(* The broker implements ReplyContract: the verdict on a job is read off   *)
(* its JobRecord, an acknowledgement is a RESULT_ACK on the socket, and    *)
(* the report is the transport case run_once returns.                      *)
(***************************************************************************)
EXTENDS Broker

Verdict(j) ==
  IF jobs[j] = None THEN "none"
  ELSE IF jobs[j].completed THEN "accepted"
  ELSE IF jobs[j].rejected THEN "refused"
  ELSE "open"

Acked == {m.job : m \in {n \in sent : n.type = "RESULT_ACK"}}

Reported == IF pc["main"] = "done" THEN stats.transport_case ELSE None

Contract == INSTANCE ReplyContract
              WITH verdict <- [j \in Jobs |-> Verdict(j)],
                   acked <- Acked,
                   report <- Reported

\* Every behaviour of the broker is one of the contract: whatever its threads
\* and its peers do, a job gets one verdict, an ack follows an acceptance, and
\* the run is reported as what happened to its job.
KeepsContract == Contract!ContractSpec
=============================================================================
