--------------------------- MODULE TransportCase ---------------------------
(***************************************************************************)
(* How a run of the reproducer is classified: the harnesses run_scenarios  *)
(* and run_campaign each compute a transport case from what both sides     *)
(* report, and the campaign report of timeline.py computes it once more.   *)
(***************************************************************************)

TransportCases == {"INCONCLUSIVE", "CASE1_SEND_NO_RECV",
                   "CASE2_RECV_REJECTED", "CASE3_ACCEPTED_ACK_LOST",
                   "SUCCESS"}

Outcomes ==
  [send_succeeded : BOOLEAN, raw_message_received : BOOLEAN,
   result_accepted : BOOLEAN, result_rejected : BOOLEAN,
   result_missing : BOOLEAN, result_ack_received : BOOLEAN]

\* What the two sides can report of a run together; Reproducer checks that they
\* report nothing else, Campaign takes it for granted.  A result may have been
\* received although the worker, read too early, does not say that it sent it.
PossibleFacts ==
  {o \in Outcomes :
     /\ o.result_missing <=> ~o.raw_message_received
     /\ o.result_accepted => ~o.result_rejected
     /\ o.raw_message_received <=> o.result_accepted \/ o.result_rejected
     /\ o.result_ack_received => o.result_accepted /\ o.send_succeeded}

\* Mutant: a refused result that was sent is looked at last.
ClassifyMissingFirst(o) ==
  CASE o.result_missing -> "INCONCLUSIVE"
    [] ~o.result_missing /\ o.result_accepted /\ o.result_ack_received
         -> "SUCCESS"
    [] ~o.result_missing /\ o.result_rejected -> "CASE2_RECV_REJECTED"
    [] OTHER -> "CASE3_ACCEPTED_ACK_LOST"

\* classify_transport_case: the first of its returns whose condition holds.
Classify(o) ==
  IF o.result_accepted /\ o.result_ack_received THEN "SUCCESS"
  ELSE IF o.send_succeeded /\ ~o.raw_message_received THEN "CASE1_SEND_NO_RECV"
  ELSE IF o.raw_message_received /\ o.result_rejected
         THEN "CASE2_RECV_REJECTED"
  ELSE IF o.result_accepted /\ ~o.result_ack_received
         THEN "CASE3_ACCEPTED_ACK_LOST"
  ELSE IF o.result_missing /\ ~o.send_succeeded THEN "INCONCLUSIVE"
  ELSE IF o.result_accepted THEN "SUCCESS"
  ELSE "INCONCLUSIVE"

\* Mutant: a result without an ack was never received.
OverrideUnlessAcked(o, case) ==
  IF o.send_succeeded /\ ~o.result_ack_received THEN "CASE1_SEND_NO_RECV"
  ELSE case

\* What both harnesses put over it.
Override(o, case) ==
  IF o.send_succeeded /\ ~o.raw_message_received THEN "CASE1_SEND_NO_RECV"
  ELSE IF o.result_accepted /\ ~o.result_ack_received
         THEN "CASE3_ACCEPTED_ACK_LOST"
  ELSE case

\* run_single_scenario.
ScenarioCase(o) == Override(o, Classify(o))

\* run_single_campaign_scenario first corrects the broker's statistics.
Corrected(o) ==
  [o EXCEPT !.result_missing =
     @ \/ (o.send_succeeded /\ ~o.raw_message_received)]

CampaignCase(o) == Override(o, Classify(Corrected(o)))
=============================================================================
