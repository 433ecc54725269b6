----------------------------- MODULE MCCampaign -----------------------------
(***************************************************************************)
(* Instances of Campaign for TLC: scenarios that reach each validation     *)
(* mode and both reconnect modes.                                          *)
(***************************************************************************)
EXTENDS Campaign

Scenario(name, strategy, mode) ==
  [name |-> name, strategy |-> strategy, reconnect_mode |-> mode]

ThreeStrategies ==
  {"no-reconnect", "manual-reconnect-heartbeat", "manual-reconnect-ready-ack"}

\* Every draw of the matrix.
DrawnScenarios ==
  {Scenario(s, s, m) : s \in ThreeStrategies, m \in {"light", "full"}}

\* Two of DEFAULT_SCENARIOS, and two combinations.
TwoScenarios ==
  {Scenario("job_gt_timeout_no_reconnect", "no-reconnect", "full"),
   Scenario("job_gt_timeout_reconnect_then_heartbeat",
            "manual-reconnect-heartbeat", "full")}

ThreeHarnesses == {"campaign", "scenarios", "combination"}
EachOnesScenarios ==
  [h \in ThreeHarnesses |-> IF h = "campaign" THEN DrawnScenarios ELSE TwoScenarios]
=============================================================================
