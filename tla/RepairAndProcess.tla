-------------------------- MODULE RepairAndProcess --------------------------
(***************************************************************************)
(* The commands `repair' and `repair-and-process': detect, build the       *)
(* router, let the agent run the audited repair, turn its final state into *)
(* a result, and - for repair-and-process - upload the resulting file and  *)
(* trigger the Databricks job.                                             *)
(*                                                                         *)
(* With --table, a file without a parse failure goes to the Tier 2 agent,  *)
(* of which only the result is modelled here.                              *)
(***************************************************************************)
EXTENDS AuditedCsvRepair

VARIABLES
  cli,       \* where the command stands
  command,   \* "repair", "process" or "process_table" (with --table)
  error,     \* the error that is routed: "csv", "schema" or None
  result,    \* the RepairResult of the agent, None if none was asked
  cloud,     \* what cloud configuration was found
  blob,      \* what the container holds
  job,       \* a Databricks run was started
  exit_code

cloudVars == <<cloud, blob, job>>
cliVars == <<cli, command, error, result, cloudVars, exit_code>>
processVars == <<auditedVars, cliVars>>

Commands == {"repair", "process", "process_table"}
SchemaOutput == "schema_output"
CliResults == [success : BOOLEAN, output : {RepairedPath, SchemaOutput, None}]
Configurations == [uploader : BOOLEAN, trigger : BOOLEAN]
Blobs == [file : {RepairedPath, SchemaOutput, "source"},
          content : Writes \cup {None, Previous}]

\* None is no result, configuration, blob or episode, and names no error or file.
ASSUME CommandAssumption ==
  /\ None \notin CliResults /\ None \notin Configurations
  /\ None \notin Blobs /\ None \notin Episodes
  /\ None \notin {"csv", "schema", RepairedPath, SchemaOutput}

ProcessTypeOK ==
  /\ AuditTypeOK
  /\ cli \in {"detecting", "building", "agent", "configuring", "uploading",
              "triggering", "exited"}
  /\ command \in Commands
  /\ error \in {"csv", "schema", None}
  /\ result \in CliResults \cup {None}
  /\ cloud \in Configurations \cup {None}
  /\ blob \in Blobs \cup {None}
  /\ job \in BOOLEAN
  /\ exit_code \in {0, 1, 2, None}
  /\ exit_code = None <=> cli # "exited"

ProcessInit ==
  /\ AuditInit
  /\ cli = "detecting"
  /\ command \in Commands
  /\ error = None
  /\ result = None
  /\ cloud = None
  /\ blob = None
  /\ job = FALSE
  /\ exit_code = None

Exit(code) == cli' = "exited" /\ exit_code' = code
Continue(step) == cli' = step /\ UNCHANGED exit_code
-----------------------------------------------------------------------------
(***************************************************************************)
(* Detection, and the agent.                                               *)
(***************************************************************************)

\* The command's own look at the file; a healthy one needs no router.
Detect ==
  /\ cli = "detecting"
  /\ error' = IF source.primary # None THEN "csv"
              ELSE IF command = "process_table" THEN "schema" ELSE None
  /\ CASE error' # None -> Continue("building")
       [] error' = None /\ command = "repair" -> Exit(0)
       [] error' = None /\ command # "repair" -> Continue("configuring")
  /\ UNCHANGED <<auditedVars, command, result, cloudVars>>

\* Whoever delivers the file may deliver another one under its name while the
\* command is not looking.  While the graph runs the file is left alone.
Redeliver ==
  /\ cli \in {"building", "configuring", "uploading"}
  /\ source' \in Sources
  /\ UNCHANGED <<graphVars, wiring, failure_class, failure_classes,
                 proposed_params, validated_params, human_approved, repairVars,
                 verification_result, retry_count, status, approvals, stamp,
                 auditVars, cliVars>>

\* Settings, the LLM provider and the connection to Postgres, then the agent.
Build ==
  /\ cli = "building"
  /\ Continue("agent") \/ Exit(1)
  /\ UNCHANGED <<auditedVars, command, error, result, cloudVars>>

\* The types an error is an instance of, the most specific one first; every
\* failure class has an error type of its own, which nothing is registered for.
Mro(e) ==
  IF e = "schema" THEN <<"SchemaDriftError", "PipelineError">>
  ELSE <<"FailureClassError", "CsvRepairError", "PipelineError">>

\* The router: Tier 1's agent, and Tier 2's if its error is to be routed.
Handlers(e) ==
  [t \in {"CsvRepairError"} \cup (IF e = "schema" THEN {"SchemaDriftError"} ELSE {})
     |-> IF t = "CsvRepairError" THEN "csv_agent" ELSE "schema_agent"]

\* ErrorRouter.resolve: the closest type that has a handler; no fallback is
\* registered anywhere.
Resolve(e) ==
  LET registered == {i \in DOMAIN Mro(e) : Mro(e)[i] \in DOMAIN Handlers(e)}
      closest == CHOOSE i \in registered : \A j \in registered : i <= j
  IN  IF registered = {} THEN None ELSE Handlers(e)[Mro(e)[closest]]

RoutedTo(agent) == cli = "agent" /\ Resolve(error) = agent

AgentRuns ==
  /\ RoutedTo("csv_agent")
  /\ AuditNext
  /\ UNCHANGED cliVars

\* Mutant: whatever left no repair result is taken for a healthy file.
HandleAssumesHealthy ==
  IF repair_result # None
  THEN [success |-> repair_result.success,
        output |-> IF repair_result.success THEN RepairedPath ELSE None]
  ELSE [success |-> TRUE, output |-> None]

\* Mutant: a healthy file is reported as its own output.
HandleReportsSource ==
  IF repair_result # None
  THEN [success |-> repair_result.success,
        output |-> IF repair_result.success THEN RepairedPath ELSE None]
  ELSE [success |-> failure_class = None, output |-> "source"]

\* LangGraphCsvRepairAgent.handle: the last repair_result of the run, if there
\* was one, whatever became of the attempts after it.
Handle ==
  IF repair_result # None
  THEN [success |-> repair_result.success,
        output |-> IF repair_result.success THEN RepairedPath ELSE None]
  ELSE [success |-> failure_class = None, output |-> None]

\* Mutant: an error that was not repaired is routed again.
TakeResultTriesAgain(r) ==
  /\ result' = r
  /\ CASE ~r.success -> Continue("building")
       [] r.success /\ command = "repair" -> Exit(0)
       [] r.success /\ command # "repair" -> Continue("configuring")

\* What the command does with an agent's result.
TakeResult(r) ==
  /\ result' = r
  /\ CASE ~r.success -> Exit(1)
       [] r.success /\ command = "repair" -> Exit(0)
       [] r.success /\ command # "repair" -> Continue("configuring")

AgentReturns ==
  /\ RoutedTo("csv_agent")
  /\ phase = "returned"
  /\ TakeResult(Handle)
  /\ UNCHANGED <<auditedVars, command, error, cloudVars>>

\* click turns Abort, and Python any other exception, into exit code 1.
AgentRaises ==
  /\ RoutedTo("csv_agent")
  /\ phase = "raised"
  /\ Exit(1)
  /\ UNCHANGED <<auditedVars, command, error, result, cloudVars>>

\* The Tier 2 agent: healthy, repaired, not repaired, or it raised.  A repair
\* that is reported as succeeded need not have an output.
SchemaAgent ==
  /\ RoutedTo("schema_agent")
  /\ \/ \E output \in {SchemaOutput, None} :
          TakeResult([success |-> TRUE, output |-> output])
     \/ TakeResult([success |-> FALSE, output |-> None])
     \/ Exit(1) /\ UNCHANGED result
  /\ UNCHANGED <<auditedVars, command, error, cloudVars>>
-----------------------------------------------------------------------------
(***************************************************************************)
(* The cloud step: CloudIntegrationService.process.                        *)
(***************************************************************************)
Configure ==
  /\ cli = "configuring"
  /\ \E found \in Configurations :
       /\ cloud' = found
       /\ IF found.uploader THEN Continue("uploading") ELSE Exit(0)
  /\ UNCHANGED <<auditedVars, command, error, result, blob, job>>

\* The file repair_and_process hands to the cloud step.
LocalFile ==
  IF result = None \/ result.output = None THEN "source" ELSE result.output

PutBlob ==
  blob' = [file |-> LocalFile,
           content |-> IF LocalFile = RepairedPath THEN disk ELSE None]

\* Mutant: the job is triggered although the upload failed.
UploadTriggersAnyway ==
  /\ cli = "uploading"
  /\ \/ PutBlob /\ (IF cloud.trigger THEN Continue("triggering") ELSE Exit(0))
     \/ UNCHANGED blob /\ (IF cloud.trigger THEN Continue("triggering") ELSE Exit(2))
     \/ (PutBlob \/ UNCHANGED blob) /\ \E code \in {1, 2} : Exit(code)
  /\ UNCHANGED <<auditedVars, command, error, result, cloud, job>>

\* The PUT is answered; or it fails, is answered late, or raises what the
\* uploader does not catch, and then the blob may or may not be there.
Upload ==
  /\ cli = "uploading"
  /\ \/ PutBlob /\ (IF cloud.trigger THEN Continue("triggering") ELSE Exit(0))
     \/ (PutBlob \/ UNCHANGED blob) /\ \E code \in {1, 2} : Exit(code)
  /\ UNCHANGED <<auditedVars, command, error, result, cloud, job>>

\* Mutant: a trigger that failed is not worth a non-zero exit code.
TriggerAlwaysOk ==
  /\ cli = "triggering"
  /\ job' \in BOOLEAN
  /\ Exit(0)
  /\ UNCHANGED <<auditedVars, command, error, result, cloud, blob>>

\* Likewise the POST to run-now.
Trigger ==
  /\ cli = "triggering"
  /\ \/ job' = TRUE /\ Exit(0)
     \/ job' \in BOOLEAN /\ \E code \in {1, 2} : Exit(code)
  /\ UNCHANGED <<auditedVars, command, error, result, cloud, blob>>
-----------------------------------------------------------------------------
CliStep ==
  \/ Detect \/ Build \/ AgentReturns \/ AgentRaises \/ SchemaAgent
  \/ Configure \/ Upload \/ Trigger

ProcessNext == CliStep \/ Redeliver \/ AgentRuns

\* The process runs on by itself: it only ever waits for the human, and for calls
\* that answer or raise.
ProcessFairness ==
  /\ WF_processVars(CliStep)
  /\ WF_processVars(RoutedTo("csv_agent") /\ Recording /\ UNCHANGED cliVars)
  /\ WF_processVars(cli = "agent" /\ phase = "invoking" /\ GraphStep
                      /\ UNCHANGED <<auditVars, cliVars>>)

ProcessSpec == ProcessInit /\ [][ProcessNext]_processVars /\ ProcessFairness
-----------------------------------------------------------------------------
(***************************************************************************)
(* Properties.                                                             *)
(***************************************************************************)

\* A repaired file reaches the container only after the audit of record is
\* complete, and it is the file the record says was applied, by a prescription
\* a human approved.
UploadsAreApprovedAndRecorded ==
  blob # None /\ blob.file = RepairedPath =>
    /\ blob.content \in approvals
    /\ episode # None /\ ~episode.is_active
    /\ \E i \in DOMAIN events :
         /\ events[i].status = "applied"
         /\ events[i].prescription = blob.content.params
         /\ events[i].attempt = blob.content.attempt

\* A source file is uploaded as it is only if every detection that looked at it
\* found nothing: a repair that failed, was rejected or was never validated does
\* not let the damaged source through, nor does a file that was replaced after
\* it was found damaged, unless the graph finds the replacement healthy.
DamagedSourceStaysHome ==
  blob # None /\ blob.file = "source" =>
    /\ human_approved = "unset"
    /\ error = "csv" => phase = "returned" /\ failure_class = None /\ episode = None

\* A job is only ever started on a blob that is in the container.
JobHasItsBlob == job => blob # None

\* What an exit code may be relied on for.  0: everything that was configured
\* was done.  2: an upload was configured, so the failure is the cloud's.  After
\* a CSV repair either of them means more than that apply once succeeded: the
\* run came back, its episode is closed, and what is on disk was approved by a
\* human - though not that it was verified (UploadsOnlySuccesses).
ExitCodeHasGrounds ==
  /\ exit_code = 0 /\ cloud # None /\ cloud.uploader =>
       blob # None /\ (cloud.trigger => job)
  /\ exit_code = 2 => cloud # None /\ cloud.uploader
  /\ exit_code \in {0, 2} =>
       /\ result # None => result.success
       /\ error = "csv" =>
            /\ phase = "returned"
            /\ failure_class # None =>
                 disk \in approvals /\ episode # None /\ ~episode.is_active

\* If the human answers, the command ends.
CommandEnds ==
  WF_processVars(cli = "agent" /\ phase = "invoking" /\ HumanStep
                   /\ UNCHANGED <<auditVars, cliVars>>)
    => <>(cli = "exited")

\* The command's own documentation: "provided that check didn't fail or get
\* rejected - upload the resulting file".
UploadsOnlySuccesses ==
  blob # None /\ failure_class # None => status = "succeeded"
=============================================================================
