---------------------------- MODULE TraceArchive ----------------------------
(***************************************************************************)
(* The trace session of one launch of a harness (trace_store.py): a        *)
(* directory per run, and the files TraceSession.finalize writes, which    *)
(* list_traces.py reads.  A file is torn from open() until it is written.  *)
(* The steps are Campaign's to order: it is the harness that may raise or  *)
(* be killed between them.                                                 *)
(*                                                                         *)
(* The session's directory is the launch's own: two launches share one     *)
(* only if they have the same second, seed and label.                      *)
(***************************************************************************)
EXTENDS Naturals, Sequences

CONSTANTS
  None,
  Torn   \* a file whose writing was cut short

VARIABLES
  run_dirs,       \* per run: the case run.json gives it, and whether all is there
  session_json,   \* the index: the run_count it gives
  outcomes_json   \* the case of each run

trace == <<run_dirs, session_json, outcomes_json>>

TraceInit ==
  /\ run_dirs = <<>>
  /\ session_json = None
  /\ outcomes_json = None

\* begin_run: the run's directory, with its run.log.
BeginRun ==
  /\ run_dirs' = Append(run_dirs, [case |-> None, whole |-> FALSE])
  /\ UNCHANGED <<session_json, outcomes_json>>

\* capture.save: run.json first, then the timeline.
SaveOutcome(case) ==
  /\ run_dirs' = [run_dirs EXCEPT ![Len(run_dirs)].case = case]
  /\ UNCHANGED <<session_json, outcomes_json>>

SaveTimeline ==
  /\ run_dirs' = [run_dirs EXCEPT ![Len(run_dirs)].whole = TRUE]
  /\ UNCHANGED <<session_json, outcomes_json>>

\* finalize
OpenIndex == session_json' = Torn /\ UNCHANGED <<run_dirs, outcomes_json>>

WriteIndex ==
  /\ session_json' = Len(run_dirs)
  /\ UNCHANGED <<run_dirs, outcomes_json>>

OpenOutcomes == outcomes_json' = Torn /\ UNCHANGED <<run_dirs, session_json>>

WriteOutcomes(cases) ==
  /\ outcomes_json' = cases
  /\ UNCHANGED <<run_dirs, session_json>>
=============================================================================
