------------------------------ MODULE Campaign ------------------------------
(***************************************************************************)
(* One launch of a harness that runs the reproducer many times, with       *)
(* --save-traces: run_campaign.py and run_scenarios.py, whose outcomes     *)
(* timeline.py turns into a report, and run_combinations.py, which keeps a *)
(* tally of its own.  A run (Reproducer looks inside) ends with any facts  *)
(* of PossibleFacts, or raises; the launch may be killed at any moment.    *)
(* Each table is built from its own copy of the outcomes, and the trace    *)
(* session (TraceArchive) has one more; whether they agree is the question.*)
(*                                                                         *)
(* Bound: Runs, the runs of a campaign, of a scenario, of a combination.   *)
(***************************************************************************)
EXTENDS TransportCase, TraceArchive, FiniteSetsExt

CONSTANTS
  Harnesses,     \* of "campaign", "scenarios" and "combination"
  Runs,
  ScenariosOf,   \* per harness: the scenario definitions it may choose from
  Strategies     \* the strategies those name

ASSUME CampaignAssumption ==
  /\ Harnesses \subseteq {"campaign", "scenarios", "combination"}
  /\ Runs \in Nat \ {0}
  /\ IsFiniteSet(Strategies)
  /\ \A h \in Harnesses :
       /\ IsFiniteSet(ScenariosOf[h])
       /\ \A s \in ScenariosOf[h] : /\ s.strategy \in Strategies
                                   /\ s.reconnect_mode \in {"light", "full"}

VARIABLES
  harness,
  pc,
  scenarios,   \* the runs to make, in order
  outcomes,    \* the RunOutcomes so far
  results,     \* what the table of scenarios, or the tally, is counted from
  tally,       \* CombinationResult
  summaries,   \* aggregate_results: a ScenarioSummary per scenario
  report       \* CampaignReport

counted == <<outcomes, results, tally>>
chosen == <<harness, scenarios>>
vars == <<chosen, pc, counted, summaries, report, trace>>

-----------------------------------------------------------------------------
(* The runs.                                                               *)

\* Mutant: a run that does not reconnect validates nothing.
ValidationOfReconnect(strategy) ==
  CASE strategy = "manual-reconnect-heartbeat" -> "heartbeat"
    [] strategy = "manual-reconnect-ready-ack" -> "ready_ack"
    [] strategy = "no-reconnect" -> "none"
    [] OTHER -> "result_ack"

\* session_validation_mode of worker.py.
SessionValidation(strategy) ==
  CASE strategy = "manual-reconnect-heartbeat" -> "heartbeat"
    [] strategy = "manual-reconnect-ready-ack" -> "ready_ack"
    [] OTHER -> "result_ack"

SessionValidations == {"heartbeat", "ready_ack", "result_ack"}

\* generate_scenario_matrix draws every run; run_scenarios repeats each
\* scenario in turn; run_combination repeats one.
ScenarioMatrix(h) ==
  CASE h = "campaign" -> [1..Runs -> ScenariosOf[h]]
    [] h = "scenarios" ->
         {s \in [1..(Runs * Cardinality(ScenariosOf[h])) -> ScenariosOf[h]] :
            \A i, j \in DOMAIN s :
              (s[i] = s[j]) <=> (i - 1) \div Runs = (j - 1) \div Runs}
    [] OTHER -> {[i \in 1..Runs |-> s] : s \in ScenariosOf[h]}

NoTally == [runs |-> 0, accepted |-> 0, case1 |-> 0, case2 |-> 0, case3 |-> 0,
            ack_received |-> 0]

Init ==
  /\ harness \in Harnesses
  /\ pc = "run"
  /\ scenarios \in ScenarioMatrix(harness)
  /\ outcomes = <<>>
  /\ results = <<>>
  /\ tally = NoTally
  /\ summaries = None
  /\ report = None
  /\ TraceInit

One(b) == IF b THEN 1 ELSE 0

\* What run_combination adds for a run.
Tallied(r) ==
  [runs |-> tally.runs + 1,
   accepted |-> tally.accepted + One(r.facts.result_accepted),
   case1 |-> tally.case1 + One(r.case = "CASE1_SEND_NO_RECV"),
   case2 |-> tally.case2 + One(r.case = "CASE2_RECV_REJECTED"),
   case3 |-> tally.case3 + One(r.case = "CASE3_ACCEPTED_ACK_LOST"),
   ack_received |-> tally.ack_received + One(r.facts.result_ack_received)]

HarnessCase(facts) ==
  IF harness = "campaign" THEN CampaignCase(facts) ELSE ScenarioCase(facts)

\* run_single_scenario, or its campaign twin, begins.
StartRun ==
  /\ pc = "run"
  /\ Len(outcomes) < Len(scenarios)
  /\ pc' = "running"
  /\ BeginRun
  /\ UNCHANGED <<chosen, counted, summaries, report>>

\* It has classified the run and writes run.json; the loop around it counts the
\* run.  (Once capture.save is over, but a launch that dies before counts no more.)
EndRun(facts) ==
  LET s == scenarios[Len(outcomes) + 1]
      o == [scenario |-> s.name, strategy |-> s.strategy,
            reconnect_mode |-> s.reconnect_mode,
            session_validation |-> SessionValidation(s.strategy),
            facts |-> IF harness = "campaign" THEN Corrected(facts) ELSE facts,
            transport_case |-> HarnessCase(facts)]
      r == [scenario |-> s.name, facts |-> facts, case |-> o.transport_case]
  IN  /\ pc = "running"
      /\ pc' = "saving"
      /\ SaveOutcome(o.transport_case)
      /\ outcomes' = Append(outcomes, o)
      /\ results' = Append(results, r)
      /\ tally' = IF harness = "combination" THEN Tallied(r) ELSE tally
      /\ UNCHANGED <<chosen, summaries, report>>

\* capture.save goes on to the timeline.
RunSaved ==
  /\ pc = "saving"
  /\ pc' = "run"
  /\ SaveTimeline
  /\ UNCHANGED <<chosen, counted, summaries, report>>

\* Mutant: a run that raises is passed over, not the end of the launch.
RaisesQuietly ==
  /\ pc \in {"running", "saving"}
  /\ pc' = "run"
  /\ UNCHANGED <<chosen, counted, summaries, report, trace>>

\* The worker or a save raises: the exception ends the harness.
Raises ==
  /\ pc \in {"running", "saving"}
  /\ pc' = "dead"
  /\ UNCHANGED <<chosen, counted, summaries, report, trace>>

Killed ==
  /\ pc \notin {"done", "dead"}
  /\ pc' = "dead"
  /\ UNCHANGED <<chosen, counted, summaries, report, trace>>

RunsOver == pc = "run" /\ Len(outcomes) = Len(scenarios)

-----------------------------------------------------------------------------
(* The tables.                                                             *)

ResultsOf(name, P(_)) ==
  Quantify(DOMAIN results, LAMBDA i : results[i].scenario = name /\ P(results[i]))

\* aggregate_results
Summary(name) ==
  [runs |-> ResultsOf(name, LAMBDA r : TRUE),
   send_succeeded |-> ResultsOf(name, LAMBDA r : r.facts.send_succeeded),
   raw_message_received |->
     ResultsOf(name, LAMBDA r : r.facts.raw_message_received),
   result_accepted |-> ResultsOf(name, LAMBDA r : r.facts.result_accepted),
   result_rejected |-> ResultsOf(name, LAMBDA r : r.facts.result_rejected),
   result_missing |-> ResultsOf(name, LAMBDA r : r.facts.result_missing),
   case1 |-> ResultsOf(name, LAMBDA r : r.case = "CASE1_SEND_NO_RECV"),
   case2 |-> ResultsOf(name, LAMBDA r : r.case = "CASE2_RECV_REJECTED"),
   case3 |-> ResultsOf(name, LAMBDA r : r.case = "CASE3_ACCEPTED_ACK_LOST")]

\* Only run_scenarios prints the table by scenario.
AggregateResults ==
  /\ RunsOver
  /\ harness = "scenarios"
  /\ summaries' = [name \in {results[i].scenario : i \in DOMAIN results} |->
                     Summary(name)]
  /\ pc' = "report"
  /\ UNCHANGED <<chosen, counted, report, trace>>

\* The outcomes once the report has classified each again.
Reclassified ==
  [i \in DOMAIN outcomes |->
     [outcomes[i] EXCEPT !.transport_case = Classify(outcomes[i].facts)]]

CampaignReport(os) ==
  LET Count(P(_)) == Quantify(DOMAIN os, LAMBDA i : P(os[i]))
      Success(o) == o.transport_case = "SUCCESS"
      By(field, values) ==
        [v \in values |-> Count(LAMBDA o : o[field] = v)]
      SuccessBy(field, values) ==
        [v \in values |-> Count(LAMBDA o : Success(o) /\ o[field] = v)]
  IN  [total_runs |-> Len(os),
       losses |-> Count(LAMBDA o : ~Success(o)),
       replies_never_received |->
         Count(LAMBDA o : \/ o.facts.result_missing
                          \/ o.facts.send_succeeded
                             /\ ~o.facts.raw_message_received),
       replies_rejected |-> Count(LAMBDA o : o.facts.result_rejected),
       runs_by_transport_case |-> By("transport_case", TransportCases),
       runs_by_strategy |-> By("strategy", Strategies),
       success_by_strategy |-> SuccessBy("strategy", Strategies),
       success_by_reconnect_mode |->
         SuccessBy("reconnect_mode", {"light", "full"}),
       runs_by_session_validation |->
         By("session_validation", SessionValidations),
       success_by_session_validation |->
         SuccessBy("session_validation", SessionValidations)]

\* build_campaign_report, which classifies the outcomes in place.
BuildCampaignReport ==
  /\ IF harness = "campaign" THEN RunsOver ELSE pc = "report"
  /\ outcomes' = Reclassified
  /\ report' = CampaignReport(Reclassified)
  /\ pc' = "finalize"
  /\ UNCHANGED <<chosen, results, tally, summaries, trace>>

\* run_combination returns its tally; the trace session is never finalized.
ReturnTally ==
  /\ RunsOver
  /\ harness = "combination"
  /\ pc' = "done"
  /\ UNCHANGED <<chosen, counted, summaries, report, trace>>

\* finalize writes session.json, then outcomes.json.
Finalize ==
  /\ \/ pc = "finalize" /\ pc' = "index" /\ OpenIndex
     \/ pc = "index" /\ pc' = "outcomes" /\ WriteIndex
     \/ pc = "outcomes" /\ pc' = "rows" /\ OpenOutcomes
     \/ /\ pc = "rows" /\ pc' = "done"
        /\ WriteOutcomes([i \in DOMAIN outcomes |-> outcomes[i].transport_case])
  /\ UNCHANGED <<chosen, counted, summaries, report>>

Next ==
  \/ StartRun
  \/ \E facts \in PossibleFacts : EndRun(facts)
  \/ RunSaved
  \/ Raises
  \/ Killed
  \/ AggregateResults
  \/ BuildCampaignReport
  \/ ReturnTally
  \/ Finalize

Spec == Init /\ [][Next]_vars

-----------------------------------------------------------------------------
Total(f) == MapThenSumSet(LAMBDA v : f[v], DOMAIN f)

\* The report classifies every outcome again: what outcomes.json then says of a
\* run is what its run.json was given when it was made, run by run.
ReportKeepsCase ==
  outcomes_json \notin {None, Torn} =>
    outcomes_json = [n \in DOMAIN run_dirs |-> run_dirs[n].case]

\* A session that list_sessions shows has every run it counts, whole, wherever
\* the launch raised or was killed.
ListedIsWhole ==
  session_json \notin {None, Torn} =>
    /\ Len(run_dirs) = session_json
    /\ \A n \in 1..session_json : run_dirs[n].whole

\* Every run is counted once by each breakdown of the report, as a loss or as
\* one success of its strategy, of its mode and of its validation; and a loss is
\* a reply never received, a reply rejected, or one whose ack was lost.
ReportAddsUp ==
  report # None =>
    LET cases == report.runs_by_transport_case
        successes == report.total_runs - report.losses
    IN  /\ report.total_runs = Len(scenarios)
        /\ \A by \in {cases, report.runs_by_strategy,
                      report.runs_by_session_validation} :
             Total(by) = report.total_runs
        /\ \A by \in {report.success_by_strategy,
                      report.success_by_reconnect_mode,
                      report.success_by_session_validation} :
             Total(by) = successes
        /\ report.losses = report.replies_never_received
                           + report.replies_rejected
                           + cases["CASE3_ACCEPTED_ACK_LOST"]

\* The table by scenario and the report, one counted from the statistics of the
\* runs and one from their cases, tell the same story.
TablesAgree ==
  report # None /\ summaries # None =>
    LET cases == report.runs_by_transport_case
        Column(field) == Total([name \in DOMAIN summaries |->
                                  summaries[name][field]])
    IN  /\ Column("runs") = report.total_runs
        /\ Column("case1") = cases["CASE1_SEND_NO_RECV"]
        /\ Column("case2") = cases["CASE2_RECV_REJECTED"]
        /\ Column("case3") = cases["CASE3_ACCEPTED_ACK_LOST"]
        /\ Column("result_accepted") = cases["SUCCESS"] + Column("case3")
        /\ Column("result_rejected") = report.replies_rejected
        /\ Column("result_missing") = report.replies_never_received

\* The tally of a combination: an accepted result was acknowledged or is one of
\* case 3, and no run is counted in two of the columns it is ranked by.
TallyAgrees ==
  /\ tally.accepted = tally.ack_received + tally.case3
  /\ tally.accepted + tally.case1 + tally.case2 <= tally.runs
  /\ harness = "combination" =>
       tally.runs - tally.accepted - tally.case1 - tally.case2
         = Quantify(DOMAIN results, LAMBDA i : results[i].case = "INCONCLUSIVE")
=============================================================================
