--------------------------- MODULE CampaignProofs ---------------------------
(***************************************************************************)
(* Proofs about Campaign.tla, for every set of scenarios and any number of *)
(* runs, with every outcome a run can have (PossibleFacts).                *)
(*                                                                         *)
(* The tables are sums over fields of counts of runs: TotalIs and the      *)
(* lemmas after it are the arithmetic of such sums, of which none speaks   *)
(* of the code.                                                            *)
(***************************************************************************)
EXTENDS Campaign, FiniteSetTheorems, TLAPS

AllScenarios == UNION {ScenariosOf[h] : h \in Harnesses}

\* The outcome of a run, classified once.
OutcomeOf(s, f) ==
  [scenario |-> s.name, strategy |-> s.strategy,
   reconnect_mode |-> s.reconnect_mode,
   session_validation |-> SessionValidation(s.strategy),
   facts |-> f, transport_case |-> Classify(f)]

ResultOf(s, f) == [scenario |-> s.name, facts |-> f, case |-> Classify(f)]

RunOutcomes == {OutcomeOf(s, f) : s \in AllScenarios, f \in PossibleFacts}

RunResults == {ResultOf(s, f) : s \in AllScenarios, f \in PossibleFacts}

RunDirs == [case : TransportCases \union {None}, whole : BOOLEAN]

\* The copies of the outcomes a launch keeps in memory.
Recorded ==
  /\ harness \in Harnesses
  /\ scenarios \in Seq(AllScenarios)
  /\ outcomes \in Seq(RunOutcomes)
  /\ results \in Seq(RunResults)
  /\ Len(results) = Len(outcomes)
  /\ \A i \in 1..Len(outcomes) :
       /\ results[i].scenario = outcomes[i].scenario
       /\ results[i].facts = outcomes[i].facts
       /\ results[i].case = outcomes[i].transport_case
  /\ Len(outcomes) <= Len(scenarios)
  /\ pc = "running" => Len(outcomes) < Len(scenarios)
  /\ pc \in {"report", "finalize", "index", "outcomes", "rows"} =>
       Len(outcomes) = Len(scenarios)

\* The files of the trace session, of a launch that is alive.
Filed ==
  /\ run_dirs \in Seq(RunDirs)
  /\ pc \in {"run", "running", "saving", "report", "finalize"} =>
       session_json = None /\ outcomes_json = None
  /\ pc \in {"index", "outcomes"} => outcomes_json = None
  /\ pc = "saving" => Len(run_dirs) > 0
  /\ pc # "dead" =>
       /\ Len(run_dirs) = Len(outcomes) + One(pc = "running")
       /\ \A n \in 1..Len(outcomes) :
            run_dirs[n].case = outcomes[n].transport_case
       /\ \A n \in 1..Len(run_dirs) :
            run_dirs[n].whole
              \/ (pc \in {"running", "saving"} /\ n = Len(run_dirs))

FiledInv == Filed /\ ReportKeepsCase /\ ListedIsWhole

-----------------------------------------------------------------------------
(* Sums.                                                                   *)

\* A sum over a finite set is what satisfies its recursion.
LEMMA TotalIs ==
  ASSUME NEW V, IsFiniteSet(V), NEW f, DOMAIN f = V,
         NEW h, h \in [SUBSET V -> Nat], h[{}] = 0,
         \A s \in SUBSET V : \A x \in s : h[s] = f[x] + h[s \ {x}]
  PROVE  Total(f) = h[V]
<1> DEFINE Step(g) == [s \in SUBSET V |->
                         IF s = {} THEN 0
                         ELSE f[CHOOSE x \in s : TRUE]
                                + g[s \ {CHOOSE x \in s : TRUE}]]
           iter == CHOOSE g : g = Step(g)
<1>1. Total(f) = iter[V]
  BY DEF Total, MapThenSumSet, MapThenFoldSet
<1>2. h = Step(h)
  <2>1. ASSUME NEW s \in SUBSET V PROVE h[s] = Step(h)[s]
    <3>1. CASE s = {}
      BY <3>1
    <3>2. CASE s # {}
      <4>1. (CHOOSE x \in s : TRUE) \in s
        BY <3>2
      <4>2. h[s] = f[CHOOSE x \in s : TRUE] + h[s \ {CHOOSE x \in s : TRUE}]
        BY <4>1
      <4>3. QED
        BY <3>2, <4>2
    <3>3. QED
      BY <3>1, <3>2
  <2>2. h = [s \in SUBSET V |-> h[s]]
    OBVIOUS
  <2> DEFINE k == Step(h)
  <2>3. k = [s \in SUBSET V |-> k[s]]
    OBVIOUS
  <2>4. \A s \in SUBSET V : h[s] = k[s]
    BY <2>1
  <2> HIDE DEF k
  <2>5. h = k
    BY <2>2, <2>3, <2>4
  <2>6. QED
    BY <2>5 DEF k
<1>3. iter = Step(iter)
  <2> HIDE DEF Step
  <2>1. QED
    BY <1>2, Zenon
<1> HIDE DEF iter
<1> DEFINE Differ == {s \in SUBSET V : iter[s] # h[s]}
<1>4. SUFFICES ASSUME Differ # {} PROVE FALSE
  BY <1>1
<1>5. IsWellFoundedOn(StrictSubsetOrdering(V), SUBSET V)
  BY FS_StrictSubsetOrderingWellFounded, FS_FiniteSubsetsOfFinite
<1>6. PICK s \in Differ :
        \A r \in Differ : <<r, s>> \notin StrictSubsetOrdering(V)
  <2> DEFINE R == StrictSubsetOrdering(V)
  <2>1. Differ \subseteq SUBSET V
    OBVIOUS
  <2> HIDE DEF Differ, R
  <2>2. \E s \in Differ : \A r \in Differ : ~(<<r, s>> \in R)
    <3>1. IsWellFoundedOn(R, SUBSET V)
      BY <1>5 DEF R
    <3>2. QED
      BY ONLY <1>4, <3>1, <2>1, WFMin
  <2>3. QED
    BY <2>2 DEF R
<1>7. s # {}
  BY <1>3, <1>6
<1>8. PICK x \in s : x = CHOOSE y \in s : TRUE
  BY <1>7
<1>9. s \ {x} \in SUBSET V /\ s \ {x} \notin Differ
  BY <1>6, <1>8 DEF StrictSubsetOrdering
<1>10. iter[s] = f[x] + iter[s \ {x}]
  BY <1>3, <1>6, <1>7, <1>8
<1>11. QED
  BY <1>6, <1>8, <1>9, <1>10

\* Two parts of a set.
LEMMA Parts ==
  ASSUME NEW D, IsFiniteSet(D), NEW A, NEW B, D = A \union B, A \intersect B = {}
  PROVE  /\ IsFiniteSet(A) /\ IsFiniteSet(B)
         /\ Cardinality(A) \in Nat /\ Cardinality(B) \in Nat
         /\ Cardinality(D) = Cardinality(A) + Cardinality(B)
<1>1. IsFiniteSet(A) /\ IsFiniteSet(B)
  BY FS_Subset
<1>2. Cardinality(A) \in Nat /\ Cardinality(B) \in Nat
  BY <1>1, FS_CardinalityType
<1>3. Cardinality(A \intersect B) = 0
  BY FS_EmptySet
<1>4. Cardinality(A \union B) =
        Cardinality(A) + Cardinality(B) - Cardinality(A \intersect B)
  BY <1>1, FS_Union
<1>5. QED
  BY <1>1, <1>2, <1>3, <1>4

LEMMA FiniteFive ==
  ASSUME NEW a, NEW b, NEW c, NEW d, NEW e
  PROVE  /\ IsFiniteSet({a, b}) /\ IsFiniteSet({a, b, c})
         /\ IsFiniteSet({a, b, c, d, e})
<1>1. IsFiniteSet({a})
  BY FS_Singleton
<1>2. IsFiniteSet({a} \union {b})
  BY <1>1, FS_AddElement
<1>3. IsFiniteSet(({a} \union {b}) \union {c})
  BY <1>2, FS_AddElement
<1>4. IsFiniteSet((({a} \union {b}) \union {c}) \union {d})
  BY <1>3, FS_AddElement
<1>5. IsFiniteSet(((({a} \union {b}) \union {c}) \union {d}) \union {e})
  BY <1>4, FS_AddElement
<1>6. /\ {a} \union {b} = {a, b}
      /\ ({a} \union {b}) \union {c} = {a, b, c}
      /\ ((({a} \union {b}) \union {c}) \union {d}) \union {e} = {a, b, c, d, e}
  OBVIOUS
<1>7. QED
  BY <1>2, <1>3, <1>5, <1>6

\* Elements counted by a field of theirs are each counted once.
LEMMA TotalOfCounts ==
  ASSUME NEW D, IsFiniteSet(D), NEW V, IsFiniteSet(V),
         NEW key, \A i \in D : key[i] \in V
  PROVE  Total([v \in V |-> Cardinality({i \in D : key[i] = v})])
           = Cardinality(D)
<1> DEFINE Of(s) == {i \in D : key[i] \in s}
           h == [s \in SUBSET V |-> Cardinality(Of(s))]
           f == [v \in V |-> Cardinality({i \in D : key[i] = v})]
<1>1. \A s \in SUBSET V : h[s] = Cardinality(Of(s))
  OBVIOUS
<1>2. \A s \in SUBSET V : IsFiniteSet(Of(s)) /\ Cardinality(Of(s)) \in Nat
  BY FS_Subset, FS_CardinalityType
<1>3. h \in [SUBSET V -> Nat]
  BY <1>2
<1>4. h[{}] = 0
  <2>1. Of({}) = {}
    OBVIOUS
  <2>2. h[{}] = Cardinality({})
    BY <1>1, <2>1
  <2>3. QED
    BY <2>2, FS_EmptySet
<1>5. ASSUME NEW s \in SUBSET V, NEW x \in s PROVE h[s] = f[x] + h[s \ {x}]
  <2>1. /\ Of(s) = {i \in D : key[i] = x} \union Of(s \ {x})
        /\ {i \in D : key[i] = x} \intersect Of(s \ {x}) = {}
    OBVIOUS
  <2>2. Cardinality(Of(s)) =
          Cardinality({i \in D : key[i] = x}) + Cardinality(Of(s \ {x}))
    <3> DEFINE A == {i \in D : key[i] = x}
               B == Of(s \ {x})
               E == Of(s)
    <3>1. IsFiniteSet(E) /\ E = A \union B /\ A \intersect B = {}
      BY <1>2, <2>1
    <3> HIDE DEF A, B, E
    <3>2. Cardinality(E) = Cardinality(A) + Cardinality(B)
      BY <3>1, Parts
    <3>3. QED
      BY <3>2 DEF A, B, E
  <2>3. f[x] = Cardinality({i \in D : key[i] = x})
    OBVIOUS
  <2>4. s \ {x} \in SUBSET V
    OBVIOUS
  <2>5. QED
    BY <1>1, <2>2, <2>3, <2>4
<1>6. DOMAIN f = V
  OBVIOUS
<1>7. h[V] = Cardinality(D)
  <2>1. Of(V) = D
    OBVIOUS
  <2>2. QED
    BY <1>1, <2>1
<1> HIDE DEF h, f
<1>8. Total(f) = h[V]
  BY <1>3, <1>4, <1>5, <1>6, TotalIs
<1>9. QED
  BY <1>7, <1>8 DEF f

-----------------------------------------------------------------------------
(* The classification.                                                     *)

\* What the two harnesses put over classify_transport_case is there already,
\* and the campaign's correction of the statistics corrects nothing.
LEMMA CasesAgree ==
  ASSUME NEW f \in PossibleFacts
  PROVE  /\ Corrected(f) = f
         /\ ScenarioCase(f) = Classify(f)
         /\ CampaignCase(f) = Classify(f)
<1>1. f \in Outcomes
  BY DEF PossibleFacts
<1>2. Corrected(f) = f
  BY <1>1 DEF PossibleFacts, Outcomes, Corrected
<1>3. ScenarioCase(f) = Classify(f)
  BY <1>1 DEF PossibleFacts, Outcomes, ScenarioCase, Override, Classify
<1>4. QED
  BY <1>2, <1>3 DEF CampaignCase, ScenarioCase

\* The cases, each told by the facts of the two sides.
LEMMA CaseMeans ==
  ASSUME NEW f \in PossibleFacts
  PROVE  /\ Classify(f) \in TransportCases
         /\ Classify(f) = "SUCCESS" <=> f.result_ack_received
         /\ Classify(f) = "CASE3_ACCEPTED_ACK_LOST" <=>
              f.result_accepted /\ ~f.result_ack_received
         /\ Classify(f) = "CASE2_RECV_REJECTED" <=> f.result_rejected
         /\ Classify(f) = "CASE1_SEND_NO_RECV" <=>
              f.send_succeeded /\ f.result_missing
         /\ Classify(f) = "INCONCLUSIVE" <=>
              ~f.send_succeeded /\ f.result_missing
BY DEF PossibleFacts, Outcomes, Classify, TransportCases

-----------------------------------------------------------------------------
(* The copies of the outcomes.                                             *)

\* The scenarios of each harness are those it may choose from, in a list.
LEMMA MatrixType ==
  ASSUME NEW h \in Harnesses, NEW s \in ScenarioMatrix(h)
  PROVE  s \in Seq(AllScenarios)
<1> DEFINE S == ScenariosOf[h]
<1>1. S \subseteq AllScenarios
  BY DEF AllScenarios
<1>2. Runs \in Nat /\ Cardinality(S) \in Nat
  BY CampaignAssumption, FS_CardinalityType
<1>3. \E n \in Nat : s \in [1..n -> S]
  <2>1. CASE h = "campaign"
    BY <1>2, <2>1 DEF ScenarioMatrix
  <2>2. CASE h = "scenarios"
    <3>1. Runs * Cardinality(S) \in Nat
      BY <1>2
    <3>2. s \in [1..(Runs * Cardinality(S)) -> S]
      BY <2>2 DEF ScenarioMatrix
    <3>3. QED
      BY <3>1, <3>2
  <2>3. CASE h = "combination"
    BY <1>2, <2>3 DEF ScenarioMatrix
  <2>4. QED
    BY <2>1, <2>2, <2>3, CampaignAssumption
<1>4. QED
  BY <1>1, <1>3

LEMMA OutcomeFields ==
  ASSUME NEW o \in RunOutcomes
  PROVE  /\ o.facts \in PossibleFacts
         /\ o.transport_case = Classify(o.facts)
         /\ o.transport_case \in TransportCases
         /\ o.strategy \in Strategies
         /\ o.reconnect_mode \in {"light", "full"}
         /\ o.session_validation \in SessionValidations
         /\ [o EXCEPT !.transport_case = Classify(o.facts)] = o
<1>1. PICK s \in AllScenarios, f \in PossibleFacts : o = OutcomeOf(s, f)
  BY DEF RunOutcomes
<1>2. s.strategy \in Strategies /\ s.reconnect_mode \in {"light", "full"}
  BY CampaignAssumption DEF AllScenarios
<1>3. SessionValidation(s.strategy) \in SessionValidations
  BY DEF SessionValidation, SessionValidations
<1>4. Classify(f) \in TransportCases
  BY CaseMeans
<1>5. QED
  BY <1>1, <1>2, <1>3, <1>4 DEF OutcomeOf

\* The report classifies every outcome again, to the same case.
LEMMA SameAgain ==
  ASSUME outcomes \in Seq(RunOutcomes)
  PROVE  Reclassified = outcomes
<1>1. \A i \in DOMAIN outcomes :
        [outcomes[i] EXCEPT !.transport_case = Classify(outcomes[i].facts)]
          = outcomes[i]
  BY OutcomeFields
<1>2. outcomes = [i \in DOMAIN outcomes |-> outcomes[i]]
  OBVIOUS
<1>3. QED
  BY <1>1, <1>2 DEF Reclassified

\* What a run that ends adds to them.
LEMMA EndRunEffect ==
  ASSUME Recorded, NEW f \in PossibleFacts, EndRun(f)
  PROVE  \E s \in AllScenarios :
           /\ outcomes' = Append(outcomes, OutcomeOf(s, f))
           /\ results' = Append(results, ResultOf(s, f))
           /\ tally' = IF harness = "combination" THEN Tallied(ResultOf(s, f))
                                                  ELSE tally
           /\ run_dirs' = [run_dirs EXCEPT ![Len(run_dirs)].case = Classify(f)]
<1> DEFINE s == scenarios[Len(outcomes) + 1]
<1>1. s \in AllScenarios
  BY DEF EndRun, Recorded
<1>2. HarnessCase(f) = Classify(f)
  BY CasesAgree DEF HarnessCase
<1>3. (IF harness = "campaign" THEN Corrected(f) ELSE f) = f
  BY CasesAgree
<1>4. QED
  BY <1>1, <1>2, <1>3 DEF EndRun, SaveOutcome, OutcomeOf, ResultOf

LEMMA InitRecorded == Init => Recorded /\ FiledInv
<1> SUFFICES ASSUME Init PROVE Recorded /\ FiledInv
  OBVIOUS
<1>1. scenarios \in Seq(AllScenarios)
  BY MatrixType DEF Init
<1>2. Recorded
  BY <1>1 DEF Init, Recorded
<1>3. /\ pc = "run" /\ session_json = None /\ outcomes_json = None
      /\ run_dirs = <<>> /\ outcomes = <<>>
  BY DEF Init, TraceInit
<1>4. Filed
  <2>1. run_dirs \in Seq(RunDirs) /\ Len(run_dirs) = 0 /\ Len(outcomes) = 0
    BY <1>3
  <2>2. One(pc = "running") = 0
    BY <1>3 DEF One
  <2>3. QED
    BY <1>3, <2>1, <2>2 DEF Filed
<1>5. QED
  BY <1>2, <1>3, <1>4 DEF FiledInv, ReportKeepsCase, ListedIsWhole

LEMMA RecordedStep ==
  ASSUME Recorded, [Next]_vars
  PROVE  Recorded'
<1> USE DEF counted, chosen
<1>1. ASSUME NEW f \in PossibleFacts, EndRun(f) PROVE Recorded'
  <2>1. PICK s \in AllScenarios :
          /\ outcomes' = Append(outcomes, OutcomeOf(s, f))
          /\ results' = Append(results, ResultOf(s, f))
    BY <1>1, EndRunEffect
  <2>2. OutcomeOf(s, f) \in RunOutcomes /\ ResultOf(s, f) \in RunResults
    BY DEF RunOutcomes, RunResults
  <2>3. /\ OutcomeOf(s, f).scenario = ResultOf(s, f).scenario
        /\ OutcomeOf(s, f).facts = ResultOf(s, f).facts
        /\ OutcomeOf(s, f).transport_case = ResultOf(s, f).case
    BY DEF OutcomeOf, ResultOf
  <2>4. /\ outcomes' \in Seq(RunOutcomes) /\ results' \in Seq(RunResults)
        /\ Len(outcomes') = Len(outcomes) + 1
        /\ Len(results') = Len(outcomes')
    BY <2>1, <2>2 DEF Recorded
  <2>5. ASSUME NEW i \in 1..Len(outcomes')
        PROVE  /\ results'[i].scenario = outcomes'[i].scenario
               /\ results'[i].facts = outcomes'[i].facts
               /\ results'[i].case = outcomes'[i].transport_case
    <3>1. CASE i = Len(outcomes) + 1
      <4>1. /\ outcomes'[i] = OutcomeOf(s, f)
            /\ results'[i] = ResultOf(s, f)
        BY <2>1, <2>2, <3>1 DEF Recorded
      <4>2. QED
        BY <2>3, <4>1
    <3>2. CASE i # Len(outcomes) + 1
      <4>1. i \in 1..Len(outcomes)
        BY <2>4, <3>2 DEF Recorded
      <4>2. outcomes'[i] = outcomes[i] /\ results'[i] = results[i]
        BY <2>1, <2>2, <4>1 DEF Recorded
      <4>3. QED
        BY <4>1, <4>2 DEF Recorded
    <3>3. QED
      BY <3>1, <3>2
  <2>6. /\ UNCHANGED <<harness, scenarios>> /\ pc' = "saving"
        /\ Len(outcomes) < Len(scenarios)
    BY <1>1 DEF EndRun, Recorded
  <2>7. Len(outcomes') <= Len(scenarios')
    BY <2>4, <2>6 DEF Recorded
  <2>8. QED
    BY <2>4, <2>5, <2>6, <2>7 DEF Recorded
<1>2. CASE BuildCampaignReport
  <2>1. outcomes' = outcomes
    BY <1>2, SameAgain DEF BuildCampaignReport, Recorded
  <2>2. QED
    BY <1>2, <2>1 DEF BuildCampaignReport, RunsOver, Recorded
<1>3. CASE UNCHANGED vars
  BY <1>3 DEF vars, Recorded
<1>4. CASE Finalize
  BY <1>4 DEF Finalize, Recorded
<1>5. CASE StartRun \/ RunSaved \/ Raises \/ Killed \/ AggregateResults
           \/ ReturnTally
  BY <1>5 DEF StartRun, RunSaved, Raises, Killed, AggregateResults, ReturnTally,
              RunsOver, Recorded
<1>6. QED
  BY <1>1, <1>2, <1>3, <1>4, <1>5 DEF Next

-----------------------------------------------------------------------------
(* The files.                                                              *)

\* What lets a step keep the files as they are.
LEMMA FilesKept ==
  ASSUME FiledInv, Recorded, UNCHANGED trace,
         \/ pc' = "dead"
         \/ /\ UNCHANGED outcomes
            /\ pc' \notin {"running", "saving", "index", "outcomes"}
            /\ pc \in {"run", "report", "finalize"}
         \/ UNCHANGED <<outcomes, pc>>
  PROVE  FiledInv'
<1>1. UNCHANGED <<run_dirs, session_json, outcomes_json>>
  BY DEF trace
<1>2. ReportKeepsCase' /\ ListedIsWhole'
  BY <1>1 DEF FiledInv, ReportKeepsCase, ListedIsWhole
<1>3. CASE pc' = "dead"
  BY <1>1, <1>2, <1>3 DEF FiledInv, Filed
<1>4. CASE UNCHANGED <<outcomes, pc>>
  BY <1>1, <1>2, <1>4 DEF FiledInv, Filed, One
<1>5. CASE /\ UNCHANGED outcomes
           /\ pc' \notin {"dead", "running", "saving", "index", "outcomes"}
           /\ pc \in {"run", "report", "finalize"}
  <2>1. pc # "running" /\ pc' # "running" /\ pc # "dead" /\ pc # "saving"
    BY <1>5
  <2>2. One(pc = "running") = 0 /\ One(pc' = "running") = 0
    BY <2>1 DEF One
  <2>3. /\ run_dirs \in Seq(RunDirs)
        /\ Len(run_dirs) = Len(outcomes) + 0
        /\ \A n \in 1..Len(outcomes) :
             run_dirs[n].case = outcomes[n].transport_case
        /\ \A n \in 1..Len(run_dirs) : run_dirs[n].whole
    BY <2>1, <2>2 DEF FiledInv, Filed
  <2>4. pc' \in {"run", "running", "saving", "report", "finalize"} =>
          session_json = None /\ outcomes_json = None
    BY <1>5 DEF FiledInv, Filed
  <2>5. QED
    BY <1>1, <1>2, <1>5, <2>2, <2>3, <2>4 DEF FiledInv, Filed
<1>6. QED
  BY <1>3, <1>4, <1>5

\* One run's record is written again.
LEMMA RunDirPut ==
  ASSUME NEW ds \in Seq(RunDirs), NEW k \in 1..Len(ds), NEW d \in RunDirs
  PROVE  /\ [ds EXCEPT ![k] = d] \in Seq(RunDirs)
         /\ Len([ds EXCEPT ![k] = d]) = Len(ds)
         /\ [ds EXCEPT ![k] = d][k] = d
         /\ \A n \in 1..Len(ds) : n # k => [ds EXCEPT ![k] = d][n] = ds[n]
OBVIOUS

LEMMA FiledStep ==
  ASSUME Recorded, FiledInv, [Next]_vars
  PROVE  FiledInv'
<1> USE DEF counted, chosen
<1>1. CASE StartRun
  <2>1. /\ UNCHANGED <<outcomes, session_json, outcomes_json>>
        /\ run_dirs' = Append(run_dirs, [case |-> None, whole |-> FALSE])
        /\ pc = "run" /\ pc' = "running"
    BY <1>1 DEF StartRun, BeginRun
  <2>2. [case |-> None, whole |-> FALSE] \in RunDirs
    BY DEF RunDirs
  <2>3. /\ run_dirs \in Seq(RunDirs) /\ Len(run_dirs) = Len(outcomes)
        /\ Len(outcomes) \in Nat
        /\ session_json = None /\ outcomes_json = None
    BY <2>1 DEF FiledInv, Filed, One, Recorded
  <2>4. /\ run_dirs' \in Seq(RunDirs) /\ Len(run_dirs') = Len(outcomes) + 1
        /\ \A n \in 1..Len(outcomes) : run_dirs'[n] = run_dirs[n]
    BY <2>1, <2>2, <2>3
  <2>5. QED
    BY <2>1, <2>3, <2>4
       DEF FiledInv, Filed, One, ReportKeepsCase, ListedIsWhole
<1>2. ASSUME NEW f \in PossibleFacts, EndRun(f) PROVE FiledInv'
  <2>1. PICK s \in AllScenarios :
          /\ outcomes' = Append(outcomes, OutcomeOf(s, f))
          /\ run_dirs' = [run_dirs EXCEPT ![Len(run_dirs)].case = Classify(f)]
    BY <1>2, EndRunEffect
  <2>2. pc = "running" /\ pc' = "saving" /\ UNCHANGED <<session_json, outcomes_json>>
    BY <1>2 DEF EndRun, SaveOutcome
  <2>3. /\ run_dirs \in Seq(RunDirs) /\ Len(run_dirs) = Len(outcomes) + 1
        /\ Len(outcomes) \in Nat /\ outcomes \in Seq(RunOutcomes)
        /\ session_json = None /\ outcomes_json = None
    BY <2>2 DEF FiledInv, Filed, One, Recorded
  <2>4. OutcomeOf(s, f) \in RunOutcomes /\ Classify(f) \in TransportCases
        /\ OutcomeOf(s, f).transport_case = Classify(f)
    BY CaseMeans DEF RunOutcomes, OutcomeOf
  <2>5. /\ Len(outcomes') = Len(run_dirs)
        /\ outcomes'[Len(run_dirs)] = OutcomeOf(s, f)
        /\ \A n \in 1..Len(outcomes) : outcomes'[n] = outcomes[n]
    BY <2>1, <2>3, <2>4
  <2>6. /\ run_dirs' \in Seq(RunDirs) /\ Len(run_dirs') = Len(run_dirs)
        /\ run_dirs'[Len(run_dirs)].case = Classify(f)
        /\ \A n \in 1..Len(outcomes) : run_dirs'[n] = run_dirs[n]
    <3> DEFINE d == [run_dirs[Len(run_dirs)] EXCEPT !.case = Classify(f)]
    <3>1. Len(run_dirs) \in 1..Len(run_dirs)
      BY <2>3
    <3>2. d \in RunDirs /\ d.case = Classify(f)
      <4>1. PICK r \in RunDirs : r = run_dirs[Len(run_dirs)]
        BY <2>3, <3>1
      <4>2. /\ [r EXCEPT !.case = Classify(f)] \in RunDirs
            /\ [r EXCEPT !.case = Classify(f)].case = Classify(f)
        BY <2>4 DEF RunDirs
      <4>3. QED
        BY <4>1, <4>2
    <3>3. run_dirs' = [run_dirs EXCEPT ![Len(run_dirs)] = d]
      BY <2>1
    <3> HIDE DEF d
    <3>4. \A n \in 1..Len(outcomes) : n \in 1..Len(run_dirs) /\ n # Len(run_dirs)
      BY <2>3
    <3>5. QED
      BY <2>3, <3>1, <3>2, <3>3, <3>4, RunDirPut
  <2>7. \A n \in 1..Len(outcomes') : n = Len(run_dirs) \/ n \in 1..Len(outcomes)
    BY <2>3, <2>5
  <2>8. \A n \in 1..Len(outcomes') :
          run_dirs'[n].case = outcomes'[n].transport_case
    BY <2>2, <2>4, <2>5, <2>6, <2>7 DEF FiledInv, Filed
  <2>9. \A n \in 1..Len(run_dirs') : n # Len(run_dirs') => run_dirs'[n].whole
    BY <2>2, <2>3, <2>5, <2>6, <2>7 DEF FiledInv, Filed
  <2>10. QED
    BY <2>2, <2>3, <2>5, <2>6, <2>8, <2>9
       DEF FiledInv, Filed, One, ReportKeepsCase, ListedIsWhole
<1>3. CASE RunSaved
  <2>1. /\ UNCHANGED <<outcomes, session_json, outcomes_json>>
        /\ run_dirs' = [run_dirs EXCEPT ![Len(run_dirs)].whole = TRUE]
        /\ pc = "saving" /\ pc' = "run"
    BY <1>3 DEF RunSaved, SaveTimeline
  <2>2. /\ run_dirs \in Seq(RunDirs) /\ Len(run_dirs) = Len(outcomes)
        /\ Len(outcomes) \in Nat
        /\ session_json = None /\ outcomes_json = None
    BY <2>1 DEF FiledInv, Filed, One, Recorded
  <2>3. /\ run_dirs' \in Seq(RunDirs) /\ Len(run_dirs') = Len(run_dirs)
        /\ \A n \in 1..Len(run_dirs) :
             /\ run_dirs'[n].case = run_dirs[n].case
             /\ n = Len(run_dirs) => run_dirs'[n].whole
             /\ n # Len(run_dirs) => run_dirs'[n] = run_dirs[n]
    <3> DEFINE d == [run_dirs[Len(run_dirs)] EXCEPT !.whole = TRUE]
    <3>1. Len(run_dirs) \in 1..Len(run_dirs)
      BY <2>1, <2>2 DEF FiledInv, Filed
    <3>2. d \in RunDirs /\ d.whole /\ d.case = run_dirs[Len(run_dirs)].case
      <4>1. PICK r \in RunDirs : r = run_dirs[Len(run_dirs)]
        BY <2>2, <3>1
      <4>2. /\ [r EXCEPT !.whole = TRUE] \in RunDirs
            /\ [r EXCEPT !.whole = TRUE].whole
            /\ [r EXCEPT !.whole = TRUE].case = r.case
        BY DEF RunDirs
      <4>3. QED
        BY <4>1, <4>2
    <3>3. run_dirs' = [run_dirs EXCEPT ![Len(run_dirs)] = d]
      BY <2>1
    <3> HIDE DEF d
    <3>4. QED
      BY <2>2, <3>1, <3>2, <3>3, RunDirPut
  <2>4. QED
    BY <2>1, <2>2, <2>3
       DEF FiledInv, Filed, One, ReportKeepsCase, ListedIsWhole
<1>4. CASE Finalize
  <2>1. UNCHANGED <<outcomes, run_dirs>> /\ pc # "dead"
        /\ pc' \in {"index", "outcomes", "rows", "done"}
    BY <1>4 DEF Finalize, OpenIndex, WriteIndex, OpenOutcomes, WriteOutcomes
  <2>2. /\ Len(run_dirs) = Len(outcomes) /\ run_dirs \in Seq(RunDirs)
        /\ \A n \in 1..Len(run_dirs) : run_dirs[n].whole
        /\ \A n \in 1..Len(outcomes) :
             run_dirs[n].case = outcomes[n].transport_case
    BY <1>4 DEF Finalize, FiledInv, Filed, One, Recorded
  <2>3. Filed'
    BY <1>4, <2>1, <2>2
       DEF Finalize, OpenIndex, WriteIndex, OpenOutcomes, WriteOutcomes,
           FiledInv, Filed, One
  <2>4. ListedIsWhole'
    BY <1>4, <2>1, <2>2
       DEF Finalize, OpenIndex, WriteIndex, OpenOutcomes, WriteOutcomes,
           FiledInv, ListedIsWhole
  <2>5. [i \in DOMAIN outcomes |-> outcomes[i].transport_case]
          = [n \in DOMAIN run_dirs |-> run_dirs[n].case]
    BY <2>2 DEF Recorded
  <2>6. ReportKeepsCase'
    BY <1>4, <2>1, <2>5
       DEF Finalize, OpenIndex, WriteIndex, OpenOutcomes, WriteOutcomes,
           FiledInv, ReportKeepsCase
  <2>7. QED
    BY <2>3, <2>4, <2>6 DEF FiledInv
<1>5. CASE BuildCampaignReport
  <2>1. outcomes' = outcomes
    BY <1>5, SameAgain DEF BuildCampaignReport, Recorded
  <2>2. QED
    BY <1>5, <2>1, FilesKept DEF BuildCampaignReport, RunsOver
<1>6. CASE Raises \/ Killed
  BY <1>6, FilesKept DEF Raises, Killed
<1>7. CASE AggregateResults \/ ReturnTally
  BY <1>7, FilesKept DEF AggregateResults, ReturnTally, RunsOver
<1>8. CASE UNCHANGED vars
  BY <1>8, FilesKept DEF vars
<1>9. QED
  BY <1>1, <1>2, <1>3, <1>4, <1>5, <1>6, <1>7, <1>8 DEF Next

\* The record of a launch: its outcomes, the run directories written for them
\* and the case of each stay in step.
THEOREM RecordInvariance == Spec => [](Recorded /\ FiledInv)
<1>1. Init => Recorded /\ FiledInv
  BY InitRecorded
<1>2. Recorded /\ FiledInv /\ [Next]_vars => (Recorded /\ FiledInv)'
  BY RecordedStep, FiledStep
<1>3. QED
  BY <1>1, <1>2, PTL DEF Spec

\* outcomes.json, written after the report has classified the outcomes again,
\* gives each run the case of its run.json.
THEOREM ReportKeepsCaseHolds == Spec => []ReportKeepsCase
<1>1. FiledInv => ReportKeepsCase
  BY DEF FiledInv
<1>2. QED
  BY <1>1, RecordInvariance, PTL

\* A session that is listed has all the runs it counts, whole, wherever the
\* launch raised or was killed.
THEOREM ListedIsWholeHolds == Spec => []ListedIsWhole
<1>1. FiledInv => ListedIsWhole
  BY DEF FiledInv
<1>2. QED
  BY <1>1, RecordInvariance, PTL

-----------------------------------------------------------------------------
(* The tally of a combination.                                             *)

Tallies == [runs : Nat, accepted : Nat, case1 : Nat, case2 : Nat, case3 : Nat,
            ack_received : Nat]

TallyInv ==
  /\ tally \in Tallies
  /\ harness # "combination" => tally = NoTally
  /\ TallyAgrees

CountOf(rs, c) == Cardinality({i \in DOMAIN rs : rs[i].case = c})

\* What one more run adds to a count of the results by their case.
LEMMA CountAdded ==
  ASSUME NEW rs \in Seq(RunResults), NEW r \in RunResults, NEW c,
         NEW more, more = Append(rs, r)
  PROVE  /\ r.case = c => CountOf(more, c) = CountOf(rs, c) + 1
         /\ r.case # c => CountOf(more, c) = CountOf(rs, c)
<1> DEFINE A == {i \in DOMAIN rs : rs[i].case = c}
           B == {i \in DOMAIN more : more[i].case = c}
           k == Len(rs) + 1
<1>1. /\ DOMAIN rs = 1..Len(rs) /\ DOMAIN more = 1..k /\ k \notin DOMAIN rs
      /\ more[k] = r /\ \A i \in DOMAIN rs : more[i] = rs[i]
      /\ DOMAIN more = DOMAIN rs \union {k}
  OBVIOUS
<1>2. IsFiniteSet(A) /\ k \notin A
  <2>1. IsFiniteSet(DOMAIN rs)
    BY <1>1, FS_Interval
  <2>2. QED
    BY <1>1, <2>1, FS_Subset
<1>3. CASE r.case = c
  <2>1. B = A \union {k}
    BY <1>1, <1>3
  <2> HIDE DEF A, B, k
  <2>2. Cardinality(B) = Cardinality(A) + 1
    BY <1>2, <2>1, FS_AddElement
  <2>3. QED
    BY <1>3, <2>2 DEF A, B, CountOf
<1>4. CASE r.case # c
  <2>1. B = A
    BY <1>1, <1>4
  <2> HIDE DEF A, B, k
  <2>2. Cardinality(B) = Cardinality(A)
    BY <2>1
  <2>3. QED
    BY <1>4, <2>2 DEF A, B, CountOf
<1>5. QED
  BY <1>3, <1>4

\* A run is in one column of the tally, or in none and inconclusive.
LEMMA OneColumn ==
  ASSUME NEW s, NEW f \in PossibleFacts
  PROVE  LET r == ResultOf(s, f)
         IN  /\ One(f.result_accepted) =
                  One(f.result_ack_received)
                    + One(r.case = "CASE3_ACCEPTED_ACK_LOST")
             /\ One(f.result_accepted) + One(r.case = "CASE1_SEND_NO_RECV")
                  + One(r.case = "CASE2_RECV_REJECTED")
                  + One(r.case = "INCONCLUSIVE") = 1
<1> DEFINE r == ResultOf(s, f)
<1>1. r.case = Classify(f)
  BY DEF ResultOf
<1>2. /\ f.result_accepted \in BOOLEAN /\ f.result_ack_received \in BOOLEAN
      /\ f.result_rejected \in BOOLEAN /\ f.send_succeeded \in BOOLEAN
      /\ f.result_missing \in BOOLEAN
      /\ f.result_accepted => ~f.result_rejected
      /\ f.result_missing <=> ~(f.result_accepted \/ f.result_rejected)
      /\ f.result_ack_received => f.result_accepted
  BY DEF PossibleFacts, Outcomes
<1> HIDE DEF r
<1>3. QED
  BY <1>1, <1>2, CaseMeans DEF One, r

LEMMA InitTally == Init => TallyInv
<1> SUFFICES ASSUME Init PROVE TallyInv
  OBVIOUS
<1>1. tally = NoTally /\ results = <<>>
  BY DEF Init
<1>2. {i \in DOMAIN results : results[i].case = "INCONCLUSIVE"} = {}
  BY <1>1
<1>3. QED
  BY <1>1, <1>2, FS_EmptySet DEF TallyInv, Tallies, NoTally, TallyAgrees, Quantify

LEMMA TallyStep ==
  ASSUME Recorded, TallyInv, [Next]_vars
  PROVE  TallyInv'
<1> USE DEF counted, chosen
<1>1. CASE UNCHANGED <<harness, tally, results>>
  BY <1>1 DEF TallyInv, TallyAgrees, Quantify
<1>2. ASSUME NEW f \in PossibleFacts, EndRun(f) PROVE TallyInv'
  <2>1. PICK s \in AllScenarios :
          /\ results' = Append(results, ResultOf(s, f))
          /\ tally' = IF harness = "combination" THEN Tallied(ResultOf(s, f))
                                                 ELSE tally
    BY <1>2, EndRunEffect
  <2>2. harness' = harness
    BY <1>2 DEF EndRun
  <2>3. CASE harness # "combination"
    BY <2>1, <2>2, <2>3 DEF TallyInv, TallyAgrees, NoTally
  <2>4. CASE harness = "combination"
    <3> DEFINE r == ResultOf(s, f)
               inc == Quantify(DOMAIN results,
                               LAMBDA i : results[i].case = "INCONCLUSIVE")
    <3>1. tally' = Tallied(r) /\ r.facts = f
      BY <2>1, <2>4 DEF ResultOf
    <3>2. tally \in Tallies
      BY DEF TallyInv
    <3>3. /\ One(f.result_accepted) \in 0..1
          /\ One(f.result_ack_received) \in 0..1
          /\ One(r.case = "CASE1_SEND_NO_RECV") \in 0..1
          /\ One(r.case = "CASE2_RECV_REJECTED") \in 0..1
          /\ One(r.case = "CASE3_ACCEPTED_ACK_LOST") \in 0..1
          /\ One(r.case = "INCONCLUSIVE") \in 0..1
      BY DEF One
    <3>4. inc' = inc + One(r.case = "INCONCLUSIVE")
      <4>1. r \in RunResults /\ results \in Seq(RunResults)
        BY DEF RunResults, Recorded
      <4>2. results' = Append(results, r)
        BY <2>1
      <4> HIDE DEF r
      <4>3. inc = CountOf(results, "INCONCLUSIVE")
        BY DEF Quantify, CountOf
      <4>4. inc' = CountOf(results', "INCONCLUSIVE")
        BY DEF Quantify, CountOf
      <4>5. inc \in Nat
        <5>1. IsFiniteSet(DOMAIN results)
          BY <4>1, FS_Interval
        <5>2. QED
          BY <4>3, <5>1, FS_Subset, FS_CardinalityType DEF CountOf
      <4> HIDE DEF inc
      <4>6. /\ r.case = "INCONCLUSIVE" => inc' = inc + 1
            /\ r.case # "INCONCLUSIVE" => inc' = inc
        BY <4>1, <4>2, <4>3, <4>4, CountAdded
      <4>7. QED
        BY <4>5, <4>6 DEF One
    <3>5. /\ One(f.result_accepted) =
               One(f.result_ack_received)
                 + One(r.case = "CASE3_ACCEPTED_ACK_LOST")
          /\ One(f.result_accepted) + One(r.case = "CASE1_SEND_NO_RECV")
               + One(r.case = "CASE2_RECV_REJECTED")
               + One(r.case = "INCONCLUSIVE") = 1
      BY OneColumn
    <3>6. /\ tally.accepted = tally.ack_received + tally.case3
          /\ tally.accepted + tally.case1 + tally.case2 <= tally.runs
          /\ tally.runs - tally.accepted - tally.case1 - tally.case2 = inc
      BY <2>4 DEF TallyInv, TallyAgrees
    <3> HIDE DEF r, inc
    <3>7. tally' \in Tallies
      BY <3>1, <3>2, <3>3 DEF Tallied, Tallies
    <3>8. /\ tally'.runs = tally.runs + 1
          /\ tally'.accepted = tally.accepted + One(f.result_accepted)
          /\ tally'.case1 = tally.case1 + One(r.case = "CASE1_SEND_NO_RECV")
          /\ tally'.case2 = tally.case2 + One(r.case = "CASE2_RECV_REJECTED")
          /\ tally'.case3 = tally.case3 + One(r.case = "CASE3_ACCEPTED_ACK_LOST")
          /\ tally'.ack_received =
               tally.ack_received + One(f.result_ack_received)
      BY <3>1 DEF Tallied
    <3>9. /\ tally.runs \in Nat /\ tally.accepted \in Nat /\ tally.case1 \in Nat
          /\ tally.case2 \in Nat /\ tally.case3 \in Nat
          /\ tally.ack_received \in Nat
      BY <3>2 DEF Tallies
    <3>10. /\ tally'.accepted = tally'.ack_received + tally'.case3
           /\ tally'.accepted + tally'.case1 + tally'.case2 <= tally'.runs
      BY <3>3, <3>5, <3>6, <3>8, <3>9
    <3>11. tally'.runs - tally'.accepted - tally'.case1 - tally'.case2 = inc'
      BY <3>3, <3>4, <3>5, <3>6, <3>8, <3>9
    <3>12. QED
      BY <2>2, <2>4, <3>7, <3>10, <3>11 DEF TallyInv, TallyAgrees, inc
  <2>5. QED
    BY <2>3, <2>4
<1>3. QED
  BY <1>1, <1>2
     DEF Next, StartRun, RunSaved, Raises, Killed, AggregateResults,
         BuildCampaignReport, ReturnTally, Finalize, vars

\* No run of a combination is counted twice or left out of its columns.
THEOREM TallyAgreesHolds == Spec => []TallyAgrees
<1>1. Init => TallyInv
  BY InitTally
<1>2. TallyInv /\ Recorded /\ [Next]_vars => TallyInv'
  BY TallyStep
<1>3. TallyInv => TallyAgrees
  BY DEF TallyInv
<1>4. QED
  BY <1>1, <1>2, <1>3, RecordInvariance, PTL DEF Spec

-----------------------------------------------------------------------------
(* The tables of a campaign.                                               *)

Table ==
  [name \in {results[i].scenario : i \in DOMAIN results} |-> Summary(name)]

\* A table that is there is counted from the copies as they are.
Reported ==
  /\ pc \in {"run", "running", "saving"} => summaries = None /\ report = None
  /\ summaries # None => summaries = Table
  /\ report # None => /\ report = CampaignReport(outcomes)
                      /\ Len(outcomes) = Len(scenarios)

LEMMA ReportedStep ==
  ASSUME Recorded, Reported, [Next]_vars
  PROVE  Reported'
<1> USE DEF counted, chosen
<1>1. CASE UNCHANGED <<summaries, report, results, outcomes, scenarios>>
           /\ (pc' \in {"run", "running", "saving"} =>
                 pc \in {"run", "running", "saving"})
  <2>1. Table' = Table
    BY <1>1 DEF Table, Summary, ResultsOf, Quantify
  <2>2. CampaignReport(outcomes)' = CampaignReport(outcomes)
    BY <1>1 DEF CampaignReport, Quantify
  <2>3. QED
    BY <1>1, <2>1, <2>2 DEF Reported
<1>2. CASE summaries' = None /\ report' = None
  BY <1>2 DEF Reported
<1>3. ASSUME NEW f \in PossibleFacts, EndRun(f) PROVE Reported'
  BY <1>2, <1>3 DEF EndRun, Reported
<1>4. CASE AggregateResults
  <2>1. summaries' = Table /\ Table' = Table
    BY <1>4 DEF AggregateResults, Table, Summary, ResultsOf, Quantify
  <2>2. report' = None /\ pc' = "report"
    BY <1>4 DEF AggregateResults, RunsOver, Reported
  <2>3. QED
    BY <2>1, <2>2 DEF Reported
<1>5. CASE BuildCampaignReport
  <2>1. /\ outcomes' = outcomes /\ Len(outcomes) = Len(scenarios)
        /\ report' = CampaignReport(outcomes)
    BY <1>5, SameAgain DEF BuildCampaignReport, RunsOver, Recorded
  <2>2. CampaignReport(outcomes)' = CampaignReport(outcomes)
    BY <2>1 DEF CampaignReport, Quantify
  <2>3. UNCHANGED <<summaries, results, scenarios>> /\ pc' = "finalize"
    BY <1>5 DEF BuildCampaignReport
  <2>4. Table' = Table
    BY <2>3 DEF Table, Summary, ResultsOf, Quantify
  <2>5. QED
    BY <2>1, <2>2, <2>3, <2>4 DEF Reported
<1>6. QED
  BY <1>1, <1>3, <1>4, <1>5
     DEF Next, StartRun, RunSaved, Raises, Killed, ReturnTally, Finalize, vars

\* The report and the tables are counted from the outcomes of the launch.
THEOREM ReportInvariance == Spec => [](Recorded /\ Reported)
<1>1. Init => Reported
  BY DEF Init, Reported
<1>2. Reported /\ Recorded /\ [Next]_vars => Reported'
  BY ReportedStep
<1>3. QED
  BY <1>1, <1>2, RecordInvariance, PTL DEF Spec

\* The runs of a case.
RunsOf(c) == {i \in DOMAIN outcomes : outcomes[i].transport_case = c}

Lost == {i \in DOMAIN outcomes : outcomes[i].transport_case # "SUCCESS"}

\* The breakdowns by a field of the outcomes, of all and of the successes.
By(field, V) ==
  [v \in V |-> Cardinality({i \in DOMAIN outcomes : outcomes[i][field] = v})]

SuccessBy(field, V) ==
  [v \in V |-> Cardinality({i \in DOMAIN outcomes :
                              /\ outcomes[i].transport_case = "SUCCESS"
                              /\ outcomes[i][field] = v})]

LEMMA FiniteRuns ==
  ASSUME Recorded
  PROVE  /\ DOMAIN outcomes = 1..Len(outcomes) /\ Len(outcomes) \in Nat
         /\ IsFiniteSet(DOMAIN outcomes)
         /\ Cardinality(DOMAIN outcomes) = Len(outcomes)
         /\ \A S : S \subseteq DOMAIN outcomes =>
                     IsFiniteSet(S) /\ Cardinality(S) \in Nat
<1> DEFINE D == DOMAIN outcomes
<1>1. D = 1..Len(outcomes) /\ Len(outcomes) \in Nat
  BY DEF Recorded
<1> HIDE DEF D
<1>2. IsFiniteSet(1..Len(outcomes)) /\ Cardinality(1..Len(outcomes)) = Len(outcomes)
  BY <1>1, FS_Interval
<1>3. IsFiniteSet(D) /\ Cardinality(D) = Len(outcomes)
  BY <1>1, <1>2
<1>4. ASSUME NEW S, S \subseteq D
      PROVE  IsFiniteSet(S) /\ Cardinality(S) \in Nat
  BY <1>3, <1>4, FS_Subset, FS_CardinalityType
<1>5. QED
  BY <1>1, <1>3, <1>4 DEF D

\* Each breakdown counts every run once, or every success.
LEMMA BreakdownTotals ==
  ASSUME Recorded, NEW field, NEW V, IsFiniteSet(V),
         \A o \in RunOutcomes : o[field] \in V
  PROVE  /\ Total(By(field, V)) = Len(outcomes)
         /\ Total(SuccessBy(field, V)) = Cardinality(RunsOf("SUCCESS"))
<1> DEFINE D == DOMAIN outcomes
           S == RunsOf("SUCCESS")
           key == [i \in D |-> outcomes[i][field]]
<1>1. /\ IsFiniteSet(D) /\ IsFiniteSet(S) /\ S \subseteq D
      /\ Cardinality(D) = Len(outcomes)
  BY FiniteRuns DEF RunsOf
<1>2. \A i \in D : key[i] \in V /\ key[i] = outcomes[i][field]
  BY DEF Recorded
<1>3. By(field, V) = [v \in V |-> Cardinality({i \in D : key[i] = v})]
  <2>1. \A v \in V : {i \in D : outcomes[i][field] = v} = {i \in D : key[i] = v}
    BY <1>2
  <2>2. QED
    BY <2>1 DEF By
<1>4. SuccessBy(field, V) = [v \in V |-> Cardinality({i \in S : key[i] = v})]
  <2>1. \A v \in V : {i \in D : /\ outcomes[i].transport_case = "SUCCESS"
                                /\ outcomes[i][field] = v}
                       = {i \in S : key[i] = v}
    BY <1>1, <1>2 DEF RunsOf
  <2>2. QED
    BY <2>1 DEF SuccessBy
<1> HIDE DEF D, S, key
<1>5. Total([v \in V |-> Cardinality({i \in D : key[i] = v})]) = Cardinality(D)
  BY <1>1, <1>2, TotalOfCounts
<1>6. Total([v \in V |-> Cardinality({i \in S : key[i] = v})]) = Cardinality(S)
  BY <1>1, <1>2, TotalOfCounts
<1>7. QED
  BY <1>1, <1>3, <1>4, <1>5, <1>6 DEF S

\* The counts of the report, as sets of runs.
LEMMA ReportCounts ==
  ASSUME Recorded
  PROVE  LET rep == CampaignReport(outcomes)
         IN  /\ rep.total_runs = Len(outcomes)
             /\ rep.losses = Cardinality(Lost)
             /\ rep.replies_never_received =
                  Cardinality(RunsOf("CASE1_SEND_NO_RECV")
                                \union RunsOf("INCONCLUSIVE"))
             /\ rep.replies_rejected = Cardinality(RunsOf("CASE2_RECV_REJECTED"))
             /\ rep.runs_by_transport_case = By("transport_case", TransportCases)
             /\ \A c \in TransportCases :
                  rep.runs_by_transport_case[c] = Cardinality(RunsOf(c))
             /\ rep.runs_by_strategy = By("strategy", Strategies)
             /\ rep.success_by_strategy = SuccessBy("strategy", Strategies)
             /\ rep.success_by_reconnect_mode =
                  SuccessBy("reconnect_mode", {"light", "full"})
             /\ rep.runs_by_session_validation =
                  By("session_validation", SessionValidations)
             /\ rep.success_by_session_validation =
                  SuccessBy("session_validation", SessionValidations)
<1> DEFINE rep == CampaignReport(outcomes)
<1>1. \A i \in DOMAIN outcomes : outcomes[i] \in RunOutcomes
  BY DEF Recorded
<1>2. /\ rep.total_runs = Len(outcomes)
      /\ rep.losses = Cardinality({i \in DOMAIN outcomes :
                                     ~(outcomes[i].transport_case = "SUCCESS")})
      /\ rep.replies_never_received =
           Cardinality({i \in DOMAIN outcomes :
                          \/ outcomes[i].facts.result_missing
                          \/ /\ outcomes[i].facts.send_succeeded
                             /\ ~outcomes[i].facts.raw_message_received})
      /\ rep.replies_rejected =
           Cardinality({i \in DOMAIN outcomes :
                          outcomes[i].facts.result_rejected})
  BY DEF CampaignReport, Quantify
<1>3. {i \in DOMAIN outcomes : ~(outcomes[i].transport_case = "SUCCESS")} = Lost
  BY DEF Lost
<1>4. ASSUME NEW i \in DOMAIN outcomes
      PROVE  /\ \/ outcomes[i].facts.result_missing
                \/ /\ outcomes[i].facts.send_succeeded
                   /\ ~outcomes[i].facts.raw_message_received
                <=> outcomes[i].transport_case
                      \in {"CASE1_SEND_NO_RECV", "INCONCLUSIVE"}
             /\ outcomes[i].facts.result_rejected
                <=> outcomes[i].transport_case = "CASE2_RECV_REJECTED"
  <2>1. PICK f \in PossibleFacts : /\ f = outcomes[i].facts
                                   /\ outcomes[i].transport_case = Classify(f)
    BY <1>1, OutcomeFields
  <2>2. f.result_missing <=> ~f.raw_message_received
    BY DEF PossibleFacts
  <2>3. f.send_succeeded \in BOOLEAN /\ f.result_missing \in BOOLEAN
    BY DEF PossibleFacts, Outcomes
  <2>4. QED
    BY <2>1, <2>2, <2>3, CaseMeans
<1>5. {i \in DOMAIN outcomes : \/ outcomes[i].facts.result_missing
                               \/ /\ outcomes[i].facts.send_succeeded
                                  /\ ~outcomes[i].facts.raw_message_received}
        = RunsOf("CASE1_SEND_NO_RECV") \union RunsOf("INCONCLUSIVE")
  BY <1>4 DEF RunsOf
<1>6. {i \in DOMAIN outcomes : outcomes[i].facts.result_rejected}
        = RunsOf("CASE2_RECV_REJECTED")
  BY <1>4 DEF RunsOf
<1>7. /\ rep.runs_by_transport_case = By("transport_case", TransportCases)
      /\ rep.runs_by_strategy = By("strategy", Strategies)
      /\ rep.success_by_strategy = SuccessBy("strategy", Strategies)
      /\ rep.success_by_reconnect_mode =
           SuccessBy("reconnect_mode", {"light", "full"})
      /\ rep.runs_by_session_validation =
           By("session_validation", SessionValidations)
      /\ rep.success_by_session_validation =
           SuccessBy("session_validation", SessionValidations)
  BY DEF CampaignReport, Quantify, By, SuccessBy
<1>8. \A c \in TransportCases :
        By("transport_case", TransportCases)[c] = Cardinality(RunsOf(c))
  BY DEF By, RunsOf
<1>9. QED
  BY <1>2, <1>3, <1>5, <1>6, <1>7, <1>8

\* A loss is one of the other cases, and each is one of them only.
LEMMA LossesAddUp ==
  ASSUME Recorded
  PROVE  /\ Cardinality(Lost) =
              Cardinality(RunsOf("CASE1_SEND_NO_RECV")
                            \union RunsOf("INCONCLUSIVE"))
                + Cardinality(RunsOf("CASE2_RECV_REJECTED"))
                + Cardinality(RunsOf("CASE3_ACCEPTED_ACK_LOST"))
         /\ Len(outcomes) =
              Cardinality(Lost) + Cardinality(RunsOf("SUCCESS"))
         /\ Cardinality(Lost) \in Nat /\ Cardinality(RunsOf("SUCCESS")) \in Nat
<1> DEFINE D == DOMAIN outcomes
           L == Lost
           S == RunsOf("SUCCESS")
           N == RunsOf("CASE1_SEND_NO_RECV") \union RunsOf("INCONCLUSIVE")
           R == RunsOf("CASE2_RECV_REJECTED")
           A == RunsOf("CASE3_ACCEPTED_ACK_LOST")
           NR == N \union R
<1>1. \A i \in D : outcomes[i].transport_case \in TransportCases
  BY OutcomeFields DEF Recorded
<1>2. D = L \union S /\ L \intersect S = {}
  BY DEF Lost, RunsOf
<1>3. L = NR \union A /\ NR \intersect A = {}
  BY <1>1 DEF Lost, RunsOf, TransportCases
<1>4. NR = N \union R /\ N \intersect R = {}
  BY DEF RunsOf
<1>5. IsFiniteSet(D) /\ Cardinality(D) = Len(outcomes)
  BY FiniteRuns
<1> HIDE DEF D, L, S, N, R, A, NR
<1>6. /\ Cardinality(D) = Cardinality(L) + Cardinality(S) /\ IsFiniteSet(L)
      /\ Cardinality(L) \in Nat /\ Cardinality(S) \in Nat
  BY <1>2, <1>5, Parts
<1>7. /\ Cardinality(L) = Cardinality(NR) + Cardinality(A) /\ IsFiniteSet(NR)
      /\ Cardinality(A) \in Nat
  <2>1. IsFiniteSet(L)
    BY <1>6
  <2>2. QED
    BY ONLY <1>3, <2>1, Parts
<1>8. /\ Cardinality(NR) = Cardinality(N) + Cardinality(R)
      /\ Cardinality(N) \in Nat /\ Cardinality(R) \in Nat
  BY <1>4, <1>7, Parts
<1>9. /\ Cardinality(L) = Cardinality(N) + Cardinality(R) + Cardinality(A)
      /\ Len(outcomes) = Cardinality(L) + Cardinality(S)
  BY <1>5, <1>6, <1>7, <1>8
<1>10. QED
  BY <1>6, <1>9 DEF L, S, N, R, A

\* Every breakdown of the campaign report counts every run once, and every loss
\* has one reason.
THEOREM ReportAddsUpHolds == Spec => []ReportAddsUp
<1>1. Recorded /\ Reported => ReportAddsUp
  <2> SUFFICES ASSUME Recorded, Reported, report # None PROVE ReportAddsUp
    BY DEF ReportAddsUp
  <2> DEFINE rep == CampaignReport(outcomes)
             successes == rep.total_runs - rep.losses
  <2>1. report = rep /\ rep.total_runs = Len(scenarios)
        /\ rep.total_runs = Len(outcomes)
    BY ReportCounts DEF Reported
  <2>2. successes = Cardinality(RunsOf("SUCCESS"))
    BY ReportCounts, LossesAddUp
  <2>3. /\ IsFiniteSet(TransportCases) /\ IsFiniteSet(Strategies)
        /\ IsFiniteSet({"light", "full"}) /\ IsFiniteSet(SessionValidations)
    <3>1. IsFiniteSet({"light", "full"})
      BY FiniteFive
    <3>2. IsFiniteSet(SessionValidations)
      BY FiniteFive DEF SessionValidations
    <3>3. IsFiniteSet(TransportCases)
      BY FiniteFive DEF TransportCases
    <3>4. QED
      BY <3>1, <3>2, <3>3, CampaignAssumption
  <2>4. \A o \in RunOutcomes :
          /\ o["transport_case"] \in TransportCases
          /\ o["strategy"] \in Strategies
          /\ o["reconnect_mode"] \in {"light", "full"}
          /\ o["session_validation"] \in SessionValidations
    BY OutcomeFields
  <2>5. /\ Total(rep.runs_by_transport_case) = Len(outcomes)
        /\ Total(rep.runs_by_strategy) = Len(outcomes)
        /\ Total(rep.runs_by_session_validation) = Len(outcomes)
    BY <2>3, <2>4, ReportCounts, BreakdownTotals
  <2>6. /\ Total(rep.success_by_strategy) = successes
        /\ Total(rep.success_by_reconnect_mode) = successes
        /\ Total(rep.success_by_session_validation) = successes
    BY <2>2, <2>3, <2>4, ReportCounts, BreakdownTotals
  <2>7. rep.losses = rep.replies_never_received + rep.replies_rejected
                       + rep.runs_by_transport_case["CASE3_ACCEPTED_ACK_LOST"]
    BY ReportCounts, LossesAddUp DEF TransportCases
  <2> HIDE DEF rep
  <2>8. QED
    BY <2>1, <2>5, <2>6, <2>7 DEF ReportAddsUp
<1>2. QED
  BY <1>1, ReportInvariance, PTL

\* The names in the table by scenario.
Names == {results[i].scenario : i \in DOMAIN results}

LEMMA ResultsFinite ==
  ASSUME Recorded
  PROVE  /\ DOMAIN results = DOMAIN outcomes
         /\ IsFiniteSet(DOMAIN results) /\ IsFiniteSet(Names)
<1> DEFINE D == DOMAIN results
           V == Names
           key == [i \in D |-> results[i].scenario]
<1>1. D = DOMAIN outcomes
  BY DEF Recorded
<1>2. key \in Surjection(D, V)
  BY DEF Surjection, Names
<1> HIDE DEF D, V, key
<1>3. IsFiniteSet(D)
  BY <1>1, FiniteRuns
<1>4. IsFiniteSet(V)
  BY <1>2, <1>3, FS_Surjection
<1>5. QED
  BY <1>1, <1>3, <1>4 DEF D, V

Column(field) ==
  Total([name \in DOMAIN summaries |-> summaries[name][field]])

\* Those of the runs D that are of a scenario.
At(D, name) == Cardinality({i \in D : results[i].scenario = name})

\* A column of the table by scenario counts the runs it is about, each at its
\* scenario.
LEMMA ColumnTotals ==
  ASSUME Recorded, summaries = Table, NEW field, NEW D, D \subseteq DOMAIN results,
         \A name \in Names : Summary(name)[field] = At(D, name)
  PROVE  Column(field) = Cardinality(D)
<1> DEFINE V == Names
           key == [i \in DOMAIN results |-> results[i].scenario]
           counts == [v \in V |-> Cardinality({i \in D : key[i] = v})]
<1>1. IsFiniteSet(D) /\ IsFiniteSet(V)
  BY ResultsFinite, FS_Subset
<1>2. \A i \in D : key[i] \in V /\ key[i] = results[i].scenario
  BY DEF Names
<1>3. \A v \in V : {i \in D : results[i].scenario = v} = {i \in D : key[i] = v}
  BY <1>2
<1>4. DOMAIN summaries = V /\ \A v \in V : summaries[v] = Summary(v)
  BY DEF Table, Names
<1>5. \A v \in V : summaries[v][field] = counts[v]
  BY <1>3, <1>4 DEF At
<1>6. Total(counts) = Cardinality(D)
  <2> HIDE DEF V, key
  <2>1. QED
    BY <1>1, <1>2, TotalOfCounts
<1>7. [name \in DOMAIN summaries |-> summaries[name][field]] = counts
  <2>1. counts = [v \in V |-> counts[v]]
    OBVIOUS
  <2> HIDE DEF counts, V
  <2>2. QED
    BY <1>4, <1>5, <2>1
<1>8. QED
  BY <1>6, <1>7 DEF Column

\* Which runs each column is about.
LEMMA Columns ==
  ASSUME Recorded, summaries = Table
  PROVE  /\ Column("runs") = Cardinality(DOMAIN outcomes)
         /\ Column("case1") = Cardinality(RunsOf("CASE1_SEND_NO_RECV"))
         /\ Column("case2") = Cardinality(RunsOf("CASE2_RECV_REJECTED"))
         /\ Column("case3") = Cardinality(RunsOf("CASE3_ACCEPTED_ACK_LOST"))
         /\ Column("result_accepted") =
              Cardinality(RunsOf("SUCCESS")
                            \union RunsOf("CASE3_ACCEPTED_ACK_LOST"))
         /\ Column("result_rejected") =
              Cardinality(RunsOf("CASE2_RECV_REJECTED"))
         /\ Column("result_missing") =
              Cardinality(RunsOf("CASE1_SEND_NO_RECV")
                            \union RunsOf("INCONCLUSIVE"))
<1>1. DOMAIN results = DOMAIN outcomes
  BY ResultsFinite
<1>2. \A c : RunsOf(c) \subseteq DOMAIN results
  BY <1>1 DEF RunsOf
<1>3. ASSUME NEW i \in DOMAIN results
      PROVE  /\ \A c : results[i].case = c <=> i \in RunsOf(c)
             /\ results[i].facts.result_accepted <=>
                  i \in RunsOf("SUCCESS") \union RunsOf("CASE3_ACCEPTED_ACK_LOST")
             /\ results[i].facts.result_rejected <=>
                  i \in RunsOf("CASE2_RECV_REJECTED")
             /\ results[i].facts.result_missing <=>
                  i \in RunsOf("CASE1_SEND_NO_RECV") \union RunsOf("INCONCLUSIVE")
  <2>1. /\ i \in 1..Len(outcomes) /\ outcomes[i] \in RunOutcomes
        /\ results[i].case = outcomes[i].transport_case
        /\ results[i].facts = outcomes[i].facts
    BY <1>1 DEF Recorded
  <2>2. PICK f \in PossibleFacts :
          f = results[i].facts /\ results[i].case = Classify(f)
    BY <2>1, OutcomeFields
  <2>3. \A c : results[i].case = c <=> i \in RunsOf(c)
    BY <1>1, <2>1 DEF RunsOf
  <2>4. /\ f.result_accepted \in BOOLEAN /\ f.result_ack_received \in BOOLEAN
        /\ f.result_rejected \in BOOLEAN /\ f.send_succeeded \in BOOLEAN
        /\ f.result_missing \in BOOLEAN
        /\ f.result_ack_received => f.result_accepted
    BY DEF PossibleFacts, Outcomes
  <2>5. QED
    BY <2>2, <2>3, <2>4, CaseMeans
<1>4. ASSUME NEW name \in Names
      PROVE  /\ Summary(name)["runs"] = At(DOMAIN results, name)
             /\ Summary(name)["case1"] = At(RunsOf("CASE1_SEND_NO_RECV"), name)
             /\ Summary(name)["case2"] = At(RunsOf("CASE2_RECV_REJECTED"), name)
             /\ Summary(name)["case3"] =
                  At(RunsOf("CASE3_ACCEPTED_ACK_LOST"), name)
             /\ Summary(name)["result_accepted"] =
                  At(RunsOf("SUCCESS") \union RunsOf("CASE3_ACCEPTED_ACK_LOST"),
                     name)
             /\ Summary(name)["result_rejected"] =
                  At(RunsOf("CASE2_RECV_REJECTED"), name)
             /\ Summary(name)["result_missing"] =
                  At(RunsOf("CASE1_SEND_NO_RECV") \union RunsOf("INCONCLUSIVE"),
                     name)
  <2> DEFINE In(D) == {i \in D : results[i].scenario = name}
             Had(P(_)) == {i \in DOMAIN results :
                             results[i].scenario = name /\ P(results[i])}
  <2>1. /\ Summary(name)["runs"] = Cardinality(Had(LAMBDA r : TRUE))
        /\ Summary(name)["case1"] =
             Cardinality(Had(LAMBDA r : r.case = "CASE1_SEND_NO_RECV"))
        /\ Summary(name)["case2"] =
             Cardinality(Had(LAMBDA r : r.case = "CASE2_RECV_REJECTED"))
        /\ Summary(name)["case3"] =
             Cardinality(Had(LAMBDA r : r.case = "CASE3_ACCEPTED_ACK_LOST"))
        /\ Summary(name)["result_accepted"] =
             Cardinality(Had(LAMBDA r : r.facts.result_accepted))
        /\ Summary(name)["result_rejected"] =
             Cardinality(Had(LAMBDA r : r.facts.result_rejected))
        /\ Summary(name)["result_missing"] =
             Cardinality(Had(LAMBDA r : r.facts.result_missing))
    BY DEF Summary, ResultsOf, Quantify
  <2>2. Had(LAMBDA r : TRUE) = In(DOMAIN results)
    OBVIOUS
  <2>3. /\ Had(LAMBDA r : r.case = "CASE1_SEND_NO_RECV") =
             In(RunsOf("CASE1_SEND_NO_RECV"))
        /\ Had(LAMBDA r : r.case = "CASE2_RECV_REJECTED") =
             In(RunsOf("CASE2_RECV_REJECTED"))
        /\ Had(LAMBDA r : r.case = "CASE3_ACCEPTED_ACK_LOST") =
             In(RunsOf("CASE3_ACCEPTED_ACK_LOST"))
    BY <1>2, <1>3
  <2>4. Had(LAMBDA r : r.facts.result_accepted) =
          In(RunsOf("SUCCESS") \union RunsOf("CASE3_ACCEPTED_ACK_LOST"))
    BY <1>2, <1>3
  <2>5. Had(LAMBDA r : r.facts.result_rejected) =
          In(RunsOf("CASE2_RECV_REJECTED"))
    BY <1>2, <1>3
  <2>6. Had(LAMBDA r : r.facts.result_missing) =
          In(RunsOf("CASE1_SEND_NO_RECV") \union RunsOf("INCONCLUSIVE"))
    BY <1>2, <1>3
  <2>7. QED
    BY <2>1, <2>2, <2>3, <2>4, <2>5, <2>6 DEF At
<1>5. QED
  BY <1>1, <1>2, <1>4, ColumnTotals

\* The table by scenario and the report tell the same story.
THEOREM TablesAgreeHolds == Spec => []TablesAgree
<1>1. Recorded /\ Reported => TablesAgree
  <2> SUFFICES ASSUME Recorded, Reported, report # None, summaries # None
               PROVE  TablesAgree
    BY DEF TablesAgree
  <2> DEFINE rep == CampaignReport(outcomes)
             S == RunsOf("SUCCESS")
             A == RunsOf("CASE3_ACCEPTED_ACK_LOST")
             SA == S \union A
  <2>1. report = rep /\ summaries = Table
    BY DEF Reported
  <2>2. Cardinality(DOMAIN outcomes) = rep.total_runs
    BY FiniteRuns, ReportCounts
  <2>3. Cardinality(SA) = Cardinality(S) + Cardinality(A)
    <3>1. SA = S \union A /\ S \intersect A = {} /\ SA \subseteq DOMAIN outcomes
      BY DEF RunsOf
    <3>2. IsFiniteSet(SA)
      BY <3>1, FiniteRuns
    <3> HIDE DEF SA, S, A
    <3>3. QED
      BY <3>1, <3>2, Parts
  <2>4. LET cases == rep.runs_by_transport_case
        IN  /\ Column("runs") = rep.total_runs
            /\ Column("case1") = cases["CASE1_SEND_NO_RECV"]
            /\ Column("case2") = cases["CASE2_RECV_REJECTED"]
            /\ Column("case3") = cases["CASE3_ACCEPTED_ACK_LOST"]
            /\ Column("result_accepted") = cases["SUCCESS"] + Column("case3")
            /\ Column("result_rejected") = rep.replies_rejected
            /\ Column("result_missing") = rep.replies_never_received
    BY <2>1, <2>2, <2>3, ReportCounts, Columns DEF TransportCases
  <2> HIDE DEF rep
  <2>5. QED
    BY <2>1, <2>4 DEF TablesAgree, Column
<1>2. QED
  BY <1>1, ReportInvariance, PTL

=============================================================================
