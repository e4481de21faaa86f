-------------------------- MODULE AuditedCsvRepair --------------------------
(***************************************************************************)
(* run_audited_csv_repair: one invocation of the repair graph inside a     *)
(* best-effort MLflow trace, then a best-effort MLflow run, then the audit *)
(* of record - an episode row, one event row per node that left something  *)
(* in the final state, and the closing update - written one commit at a    *)
(* time to a store whose failures are not caught.                          *)
(*                                                                         *)
(* The graph is the one of CsvRepairWorkflow, step by step; the wrapper    *)
(* only reads its final state.                                             *)
(***************************************************************************)
EXTENDS CsvRepairWorkflow, Sequences

VARIABLES
  phase,          \* where run_audited_csv_repair stands
  span,           \* the trace's root span: "none", "open", "closed", or
                  \* "lost": a call failed, and it may be open for good
  mlflow_run,     \* "none", "running", "finished" or "failed"
  tracking_error, \* an MLflow run call failed
  episode,        \* the row of repair_episodes, None before it is inserted
  events          \* the rows of repair_events, in commit order

storeVars == <<episode, events>>
trackingVars == <<span, mlflow_run, tracking_error>>
auditVars == <<phase, trackingVars, storeVars>>
auditedVars == <<vars, auditVars>>

StorePhases == {"opening", "recording", "completing"}
Phases == {"tracing", "invoking", "tracking", "logging", "ending",
           "returned", "raised"} \cup StorePhases
EventStatuses ==
  {"proposed", "valid", "invalid", "approved", "rejected", "applied",
   "apply_failed", "verified", "verification_failed"}
Events ==
  [node : Stamped, status : EventStatuses, prescription : Prescriptions \cup {None},
   attempt : Nat, tracking_error : BOOLEAN]
Episodes ==
  [status : {"in_progress", "succeeded", "failed", "rejected"}, is_active : BOOLEAN]

AuditTypeOK ==
  /\ TypeOK
  /\ phase \in Phases
  /\ span \in {"none", "open", "closed", "lost"}
  /\ mlflow_run \in {"none", "running", "finished", "failed"}
  /\ tracking_error \in BOOLEAN
  /\ episode \in Episodes \cup {None}
  /\ events \in Seq(Events) /\ Len(events) <= Cardinality(Stamped)

AuditInit ==
  /\ Init
  /\ phase = "tracing"
  /\ span = "none"
  /\ mlflow_run = "none"
  /\ tracking_error = FALSE
  /\ episode = None
  /\ events = <<>>
-----------------------------------------------------------------------------
(***************************************************************************)
(* Invoking the graph.                                                     *)
(***************************************************************************)

\* With a tracer and a reachable server a span is opened.  Without a tracer, or
\* when start_span or __enter__ raises, the graph is invoked all the same, and
\* nobody closes what __enter__ may have opened.
StartSpan ==
  /\ phase = "tracing"
  /\ phase' = "invoking"
  /\ span' \in {"none", "open", "lost"}
  /\ UNCHANGED <<vars, mlflow_run, tracking_error, storeVars>>

GraphRuns == phase = "invoking" /\ Next /\ UNCHANGED auditVars

\* __exit__ is called once on a span that was entered; when it raises, that is
\* swallowed and not tried again.
CloseSpan == span' \in IF span = "open" THEN {"closed", "lost"} ELSE {span}

\* Mutant: an exception leaves the span open.
InvokeRaisesLeavesSpan ==
  /\ phase = "invoking"
  /\ node \in {"recursion_error", "aborted"}
  /\ phase' = "raised"
  /\ UNCHANGED <<vars, trackingVars, storeVars>>

\* GraphRecursionError and click.Abort pass through the tracer, which exits its
\* span, and through the wrapper, which does nothing about them.
InvokeRaises ==
  /\ phase = "invoking"
  /\ node \in {"recursion_error", "aborted"}
  /\ phase' = "raised"
  /\ CloseSpan
  /\ UNCHANGED <<vars, mlflow_run, tracking_error, storeVars>>

\* Mutant: a healthy file is audited like any other.
InvokeReturnsAlwaysAudits ==
  /\ phase = "invoking"
  /\ node = "END"
  /\ phase' = "tracking"
  /\ CloseSpan
  /\ UNCHANGED <<vars, mlflow_run, tracking_error, storeVars>>

\* A healthy file is not audited.
InvokeReturns ==
  /\ phase = "invoking"
  /\ node = "END"
  /\ phase' = IF failure_class = None THEN "returned" ELSE "tracking"
  /\ CloseSpan
  /\ UNCHANGED <<vars, mlflow_run, tracking_error, storeVars>>
-----------------------------------------------------------------------------
(***************************************************************************)
(* The MLflow run: start_run, log_metrics, end_run, none of which raises.  *)
(***************************************************************************)
StartRun ==
  /\ phase = "tracking"
  /\ \/ /\ mlflow_run' = "running"
        /\ phase' = "logging"
        /\ UNCHANGED tracking_error
     \/ \* no tracker, or a failed call: the tracker's other calls are skipped,
        \* though the server may have created the run
        /\ tracking_error' \in BOOLEAN
        /\ phase' = "opening"
        /\ mlflow_run' \in IF tracking_error' THEN {"none", "running"} ELSE {"none"}
  /\ UNCHANGED <<vars, span, storeVars>>

LogMetrics ==
  /\ phase = "logging"
  /\ phase' = "ending"
  /\ tracking_error' \in BOOLEAN
  /\ UNCHANGED <<vars, span, mlflow_run, storeVars>>

\* How the run is ended: only a failed repair ends as a failed run, a rejected
\* one is "finished".
Ended == IF status = "failed" THEN "failed" ELSE "finished"

\* Mutant: a failed end_run goes unreported.
EndRunSilently ==
  /\ phase = "ending"
  /\ phase' = "opening"
  /\ mlflow_run' \in {"running", Ended}
  /\ UNCHANGED <<vars, span, tracking_error, storeVars>>

EndRun ==
  /\ phase = "ending"
  /\ phase' = "opening"
  /\ \/ mlflow_run' = Ended /\ UNCHANGED tracking_error
     \/ mlflow_run' \in {"running", Ended} /\ tracking_error' = TRUE
  /\ UNCHANGED <<vars, span, storeVars>>
-----------------------------------------------------------------------------
(***************************************************************************)
(* The audit of record.                                                    *)
(***************************************************************************)
Event(n, outcome, prescription) ==
  [node |-> n, status |-> outcome, prescription |-> prescription,
   attempt |-> stamp[n], tracking_error |-> tracking_error]

EventIf(condition, event) == IF condition THEN <<event>> ELSE <<>>

ProposeEvent == Event("propose", "proposed", None)
ValidateEvent ==
  Event("validate", IF validated_params # None THEN "valid" ELSE "invalid",
        validated_params)
HumanApprovalEvent == Event("human_approval", human_approved, None)

\* Mutant: the apply event names the prescription that was validated last.
ApplyEventByValidated ==
  Event("apply", IF repair_result.success THEN "applied" ELSE "apply_failed",
        validated_params)

ApplyEvent ==
  Event("apply", IF repair_result.success THEN "applied" ELSE "apply_failed",
        repair_result.prescription)
ReverifyEvent ==
  Event("reverify",
        IF verification_result = "passed" THEN "verified" ELSE "verification_failed",
        None)

\* What the final state says happened: a field that is set stands for its node.
AuditTrail ==
  EventIf(proposed_params # None, ProposeEvent)
    \o <<ValidateEvent>>
    \o EventIf(human_approved # "unset", HumanApprovalEvent)
    \o EventIf(repair_result # None, ApplyEvent)
    \o EventIf(verification_result # "unset", ReverifyEvent)

InsertEpisode ==
  /\ phase = "opening"
  /\ episode' = [status |-> "in_progress", is_active |-> TRUE]
  /\ UNCHANGED events

InsertEvent ==
  /\ phase = "recording"
  /\ events' = Append(events, AuditTrail[Len(events) + 1])
  /\ UNCHANGED episode

UpdateEpisode ==
  /\ phase = "completing"
  /\ episode' = [status |-> status, is_active |-> FALSE]
  /\ UNCHANGED events

StoreCall == InsertEpisode \/ InsertEvent \/ UpdateEpisode

StoreReturns ==
  /\ StoreCall
  /\ phase' = CASE phase = "opening" -> "recording"
                [] phase = "recording" /\ Len(events') < Len(AuditTrail) -> "recording"
                [] phase = "recording" /\ Len(events') = Len(AuditTrail) -> "completing"
                [] phase = "completing" -> "returned"
  /\ UNCHANGED <<vars, trackingVars>>

\* Mutant: a failing store is as good as no store.
StoreRaisesSwallowed ==
  /\ phase \in StorePhases
  /\ phase' = "returned"
  /\ StoreCall \/ UNCHANGED storeVars
  /\ UNCHANGED <<vars, trackingVars>>

\* The store's exception leaves run_audited_csv_repair.  The connection may be
\* lost before the commit or on its way back.
StoreRaises ==
  /\ phase \in StorePhases
  /\ phase' = "raised"
  /\ StoreCall \/ UNCHANGED storeVars
  /\ UNCHANGED <<vars, trackingVars>>
-----------------------------------------------------------------------------
Recording ==
  \/ StartSpan \/ InvokeRaises \/ InvokeReturns \/ StartRun \/ LogMetrics
  \/ EndRun \/ StoreReturns \/ StoreRaises

AuditNext == GraphRuns \/ Recording

\* Everything but waiting for the human goes on by itself.
AuditFairness ==
  /\ WF_auditedVars(phase = "invoking" /\ GraphStep /\ UNCHANGED auditVars)
  /\ WF_auditedVars(Recording)

AuditSpec == AuditInit /\ [][AuditNext]_auditedVars /\ AuditFairness
-----------------------------------------------------------------------------
(***************************************************************************)
(* Properties.                                                             *)
(***************************************************************************)

\* A caller that gets an answer for a damaged file gets one that is on record:
\* the episode is closed with the run's verdict and every event of the trail is
\* committed.  No failure of the store is mistaken for that.
AnswerIsOnRecord ==
  phase = "returned" /\ failure_class # None =>
    /\ episode = [status |-> status, is_active |-> FALSE]
    /\ events = AuditTrail

\* What the record calls a success is one: five events in the graph's order,
\* all of the last attempt, whose prescriptions are the one approved in that
\* attempt and the one the output on disk was made with.
RecordedSuccessIsReal ==
  episode # None /\ ~episode.is_active /\ episode.status = "succeeded" =>
    /\ \A i \in 1..5 :
         /\ events[i].node =
              <<"propose", "validate", "human_approval", "apply", "reverify">>[i]
         /\ events[i].attempt = retry_count
    /\ events[2].prescription = disk.params
    /\ events[4].prescription = disk.params
    /\ [attempt |-> events[3].attempt, params |-> disk.params] \in approvals

\* The events of an episode never claim more than its run did: a node that has
\* an event has run, and one recorded as approved or applied was.
EventsHappened ==
  \A i \in DOMAIN events :
    LET e == events[i] IN
    /\ stamp[e.node] # Never
    /\ e.status = "applied" =>
         disk \notin {None, Previous} /\ disk.params = e.prescription
    /\ e.status = "approved" => \E a \in approvals : a.attempt = e.attempt

\* A healthy file costs no proposal, no episode and no MLflow run.
HealthyLeavesNoTrace ==
  phase \in {"returned", "raised"} /\ node = "END" /\ failure_class = None =>
    /\ proposed_params = None
    /\ mlflow_run = "none"
    /\ episode = None

\* An MLflow run left open is not lost from sight: the record says so on every
\* event of the episode.
OpenRunIsOnRecord ==
  mlflow_run = "running" /\ phase \in StorePhases \cup {"returned", "raised"} =>
    \A i \in DOMAIN events : events[i].tracking_error

\* If the human answers, the wrapper comes back, whatever MLflow does: with an
\* answer, unless the graph raised, or the store did over a damaged file.  By
\* then the span it entered has been exited, and nothing is still to do about
\* one whose __enter__ or __exit__ failed.
AuditSettles ==
  WF_auditedVars(phase = "invoking" /\ HumanStep /\ UNCHANGED auditVars)
    => <>(/\ span # "open"
          /\ \/ phase = "returned"
             \/ phase = "raised" /\ node \in {"recursion_error", "aborted"}
             \/ phase = "raised" /\ node = "END" /\ failure_class # None)

\* The README on the audit trail: it prevents "any repair attempt, applied or
\* rejected, being unrecoverable/unexplainable after the fact".  With the store
\* up, an output this run has written comes with an episode, also when the graph
\* raised after it.
AppliedIsOnRecord ==
  phase = "raised" /\ node \in {"aborted", "recursion_error"}
      /\ disk \notin {None, Previous}
    => episode # None
=============================================================================
